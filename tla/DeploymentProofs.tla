-------------------------- MODULE DeploymentProofs --------------------------
(***************************************************************************)
(* Theorems about Deployment, for any environments, replicas and number of *)
(* roll-outs, with their proofs.  One invariant is about the tokens: what  *)
(* the client has in hand carries what its consent page showed, and both   *)
(* tokens of a pair were signed with the key under which their session     *)
(* began.  Another is about how far the client has come since all replicas *)
(* run the same configuration.  The last part measures how far it still    *)
(* has to go.                                                              *)
(***************************************************************************)
EXTENDS Deployment, TLAPS

\* The claims name the resource and the scope that the consent page showed.
AsShown(claims) ==
    claims.shown = [resource |-> claims.resource, scope |-> claims.scope]

PairOK(pair) ==
    /\ pair.use = "tokens"
    /\ AsShown(pair.access.claims)
    /\ AsShown(pair.refresh.claims)
    /\ pair.access.claims.origin = pair.access.signedWith
    /\ pair.refresh.claims.origin = pair.refresh.signedWith

TokensOK == tokens # Nothing => PairOK(tokens)

InHandOK ==
    step \in {"consent", "redeem"} =>
        /\ inHand.claims.use = IF step = "consent" THEN "authreq" ELSE "code"
        /\ AsShown(inHand.claims)

DeployedOK ==
    /\ target \in Envs
    /\ DOMAIN running = Replicas
    /\ \A r \in Up : running[r] \in Envs /\ Boots(running[r])
    /\ changes \in 0..MaxChanges

StepOK ==
    /\ step \in Steps
    /\ step \in {"served", "refresh"} => tokens # Nothing
    /\ step \in {"metadata", "register", "authorize"} => site # Nothing
    /\ asked \in 0..TooOften

IInv == DeployedOK /\ StepOK /\ InHandOK /\ TokensOK

-----------------------------------------------------------------------------
\* Signing and checking with the same key material succeeds.
LEMMA SignedVerifies ==
    ASSUME NEW env, NEW claims
    PROVE  ParseSigned(LoadKeys(env), SignClaims(LoadKeys(env), claims))
  <1>. DEFINE jwk == [kid |-> Kid(env), key |-> env.key]
  <1>1. LoadKeys(env).verify = {jwk}
    BY DEF LoadKeys
  <1>2. jwk \in VerificationKeys(LoadKeys(env), Kid(env))
    BY <1>1 DEF VerificationKeys
  <1>3. /\ SignClaims(LoadKeys(env), claims).kid = Kid(env)
        /\ SignClaims(LoadKeys(env), claims).signedWith = jwk.key
    BY DEF SignClaims, LoadKeys
  <1>. QED  BY <1>2, <1>3 DEF ParseSigned

\* A signature that verifies was made with the verifier's own key.
LEMMA VerifiedIsOwn ==
    ASSUME NEW env, NEW tok, ParseSigned(LoadKeys(env), tok)
    PROVE  tok.signedWith = env.key
  BY DEF ParseSigned, VerificationKeys, LoadKeys

LEMMA IssuedOK ==
    ASSUME NEW env, NEW from, AsShown(from), NEW origin, origin = env.key
    PROVE  PairOK(IssueGrant(New(env), from, origin))
  BY DEF PairOK, IssueGrant, New, SignClaims, Claims, LoadKeys, AsShown

-----------------------------------------------------------------------------
LEMMA InitEstablishes == Init => IInv
  <1> SUFFICES ASSUME Init PROVE IInv
    OBVIOUS
  <1>1. DeployedOK
    BY DeploymentAssumption DEF Init, DeployedOK, Up
  <1>2. StepOK
    BY DEF Init, StepOK, Steps, TooOften
  <1>3. InHandOK /\ TokensOK
    BY DEF Init, InHandOK, TokensOK
  <1>. QED  BY <1>1, <1>2, <1>3 DEF IInv

LEMMA ReconfigurePreserves == IInv /\ Reconfigure => IInv'
  <1> SUFFICES ASSUME IInv, Reconfigure PROVE IInv'
    OBVIOUS
  <1>1. DeployedOK'
    BY DeploymentAssumption DEF IInv, DeployedOK, Reconfigure, Up
  <1>2. StepOK'
    BY DEF IInv, StepOK, Reconfigure, client
  <1>3. InHandOK' /\ TokensOK'
    BY DEF IInv, InHandOK, TokensOK, Reconfigure, client
  <1>. QED  BY <1>1, <1>2, <1>3 DEF IInv

LEMMA RestartPreserves ==
    ASSUME NEW r \in Replicas, IInv, Restart(r)
    PROVE  IInv'
  <1>1. DeployedOK'
    BY DEF IInv, DeployedOK, Restart, Up
  <1>2. StepOK'
    BY DEF IInv, StepOK, Restart, client, TooOften
  <1>3. InHandOK' /\ TokensOK'
    BY DEF IInv, InHandOK, TokensOK, Restart, client
  <1>. QED  BY <1>1, <1>2, <1>3 DEF IInv

(***************************************************************************)
(* The client's steps.  Most of them leave the tokens or drop them, and    *)
(* neither seal nor open anything.                                         *)
(***************************************************************************)
LEMMA DroppedTokensOK == tokens' \in {tokens, Nothing} /\ TokensOK => TokensOK'
  BY DEF TokensOK

LEMMA DeployedPreserved == DeployedOK /\ UNCHANGED deployed => DeployedOK'
  BY DEF DeployedOK, deployed, Up

LEMMA CallPreserves ==
    ASSUME NEW r \in Replicas, StepOK, TokensOK,
           CallUnauthorized(r) \/ CallInsufficient(r) \/ CallServed(r)
    PROVE  StepOK' /\ InHandOK' /\ TokensOK'
  <1>1. StepOK'
    BY DEF StepOK, Steps, CallUnauthorized, CallInsufficient, CallServed, Accepted
  <1>2. InHandOK'
    BY DEF InHandOK, CallUnauthorized, CallInsufficient, CallServed
  <1>3. tokens' \in {tokens, Nothing}
    BY DEF CallUnauthorized, CallInsufficient, CallServed
  <1>. QED  BY <1>1, <1>2, <1>3, DroppedTokensOK

LEMMA DiscoveryPreserves ==
    ASSUME NEW r \in Replicas, StepOK, TokensOK,
           FetchPRM(r) \/ FetchASMetadata(r) \/ NotFound \/ Register(r)
    PROVE  StepOK' /\ InHandOK' /\ TokensOK'
  <1>1. StepOK'
    <2>1. CASE FetchPRM(r)
      <3>1. site' # Nothing \/ StartOver
        BY <2>1 DEF FetchPRM, Nothing
      <3>. QED  BY <2>1, <3>1 DEF StepOK, Steps, FetchPRM, StartOver
    <2>2. CASE FetchASMetadata(r)
      BY <2>2 DEF StepOK, Steps, FetchASMetadata, StartOver
    <2>3. CASE NotFound \/ Register(r)
      BY <2>3 DEF StepOK, Steps, NotFound, Register, StartOver
    <2>. QED  BY <2>1, <2>2, <2>3
  <1>2. InHandOK'
    BY DEF InHandOK, FetchPRM, FetchASMetadata, NotFound, Register, StartOver
  <1>3. tokens' = tokens
    BY DEF FetchPRM, FetchASMetadata, NotFound, Register
  <1>. QED  BY <1>1, <1>2, <1>3, DroppedTokensOK

LEMMA AuthorizePreserves ==
    ASSUME NEW r \in Replicas, StepOK, InHandOK, TokensOK,
           \/ GetUnknown(r) \/ GetInvalid(r) \/ ApproveFails(r)
           \/ Approve(r)
    PROVE  StepOK' /\ InHandOK' /\ TokensOK'
  <1>1. StepOK'
    BY DEF StepOK, Steps, GetUnknown, GetInvalid, ApproveFails, Approve, StartOver
  <1>2. InHandOK'
    <2>1. CASE Approve(r)
      BY <2>1 DEF InHandOK, Approve, MintCode, EncryptClaims, AsShown
    <2>2. CASE GetUnknown(r) \/ GetInvalid(r) \/ ApproveFails(r)
      BY <2>2 DEF InHandOK, GetUnknown, GetInvalid, ApproveFails, StartOver
    <2>. QED  BY <2>1, <2>2
  <1>3. tokens' = tokens
    BY DEF GetUnknown, GetInvalid, ApproveFails, Approve
  <1>. QED  BY <1>1, <1>2, <1>3, DroppedTokensOK

\* The blob is bound to the resource and the scope that its page shows.
LEMMA ConsentPreserves ==
    ASSUME NEW r \in Replicas, StepOK, TokensOK, GetConsent(r)
    PROVE  StepOK' /\ InHandOK' /\ TokensOK'
  <1>1. StepOK'
    BY DEF StepOK, Steps, GetConsent, TooOften
  <1>2. InHandOK'
    <2>1. PICK sent \in Spellings : inHand' = MintAuthReq(AS(r), sent, ask)
      BY DEF GetConsent
    <2>2. /\ inHand'.claims.use = "authreq"
          /\ AsShown(inHand'.claims)
      BY <2>1 DEF MintAuthReq, EncryptClaims, BoundResource, AsShown
    <2>. QED  BY <2>2 DEF InHandOK, GetConsent
  <1>. QED  BY <1>1, <1>2, DroppedTokensOK DEF GetConsent

LEMMA RedeemPreserves ==
    ASSUME NEW r \in Replicas, StepOK, InHandOK, TokensOK, Redeem(r)
    PROVE  StepOK' /\ InHandOK' /\ TokensOK'
  <1>1. StepOK' /\ InHandOK'
    BY DEF StepOK, InHandOK, Steps, Redeem, StartOver
  <1>2. TokensOK'
    <2>1. CASE tokens' = Nothing
      BY <2>1 DEF TokensOK
    <2>2. CASE tokens' = IssueGrant(AS(r), inHand.claims, running[r].key)
      <3>1. AsShown(inHand.claims)
        BY DEF InHandOK, Redeem
      <3>. QED  BY <2>2, <3>1, IssuedOK DEF TokensOK, AS
    <2>. QED  BY <2>1, <2>2 DEF Redeem
  <1>. QED  BY <1>1, <1>2

LEMMA RefreshPreserves ==
    ASSUME NEW r \in Replicas, StepOK, TokensOK, RefreshTokens(r)
    PROVE  StepOK' /\ InHandOK' /\ TokensOK'
  <1>1. StepOK' /\ InHandOK'
    BY DEF StepOK, InHandOK, Steps, RefreshTokens
  <1>2. TokensOK'
    <2>. DEFINE claims == tokens.refresh.claims
    <2>1. CASE tokens' = Nothing
      BY <2>1 DEF TokensOK
    <2>2. CASE /\ VerifyRefreshToken(AS(r), tokens.refresh)
               /\ tokens' = IssueGrant(AS(r), RefreshedFrom(AS(r), claims),
                                       claims.origin)
      <3>1. AsShown(claims) /\ claims.origin = tokens.refresh.signedWith
        BY DEF TokensOK, PairOK, StepOK, RefreshTokens
      <3>2. tokens.refresh.signedWith = running[r].key
        BY <2>2, VerifiedIsOwn DEF VerifyRefreshToken, AS, New
      <3>. QED  BY <2>2, <3>1, <3>2, IssuedOK DEF TokensOK, AS, RefreshedFrom
    <2>. QED  BY <2>1, <2>2 DEF RefreshTokens
  <1>. QED  BY <1>1, <1>2

LEMMA NextPreserves == IInv /\ [Next]_vars => IInv'
  <1> SUFFICES ASSUME IInv, [Next]_vars PROVE IInv'
    OBVIOUS
  <1>1. CASE Reconfigure
    BY <1>1, ReconfigurePreserves
  <1>2. CASE \E r \in Replicas : Restart(r)
    BY <1>2, RestartPreserves
  <1>3. ASSUME NEW r \in Replicas, Client(r) PROVE IInv'
    <2>1. DeployedOK'
      BY <1>3, DeployedPreserved DEF Client, IInv
    <2>2. StepOK' /\ InHandOK' /\ TokensOK'
      BY <1>3, CallPreserves, DiscoveryPreserves, AuthorizePreserves,
         ConsentPreserves, RedeemPreserves, RefreshPreserves DEF Client, IInv
    <2>. QED  BY <2>1, <2>2 DEF IInv
  <1>4. CASE UNCHANGED vars
    BY <1>4 DEF IInv, DeployedOK, StepOK, InHandOK, TokensOK, Up, vars
  <1>. QED  BY <1>1, <1>2, <1>3, <1>4 DEF Next

LEMMA Invariant == Spec => []IInv
  BY InitEstablishes, NextPreserves, PTL DEF Spec

-----------------------------------------------------------------------------
(***************************************************************************)
(* The theorems.                                                           *)
(***************************************************************************)
\* Type correctness, with it that nothing runs that does not boot, and that
\* each step of the client has at hand what it needs.
THEOREM TypeCorrect == Spec => []TypeOK
  <1>1. IInv => TypeOK
    BY DEF IInv, DeployedOK, StepOK, InHandOK, TokensOK, PairOK, TypeOK
  <1>. QED  BY Invariant, <1>1, PTL

\* What a replica lets through belongs to a session that began under the key
\* the replica has now, for any way in which keys and their names change.
THEOREM KeyRotationCutsOff == Spec => []RotationCutsOff
  <1>1. IInv => RotationCutsOff
    <2> SUFFICES ASSUME IInv, NEW r \in Up, Accepted(r)
                 PROVE  tokens.access.claims.origin = running[r].key
      BY DEF RotationCutsOff
    <2>1. tokens.access.claims.origin = tokens.access.signedWith
      BY DEF IInv, TokensOK, PairOK, Accepted
    <2>2. tokens.access.signedWith = running[r].key
      BY VerifiedIsOwn DEF Accepted, VerifyAccessToken, AS, New
    <2>. QED  BY <2>1, <2>2
  <1>. QED  BY Invariant, <1>1, PTL

\* What is let through is what a consent page showed, for any sequence of
\* roll-outs in the middle of the flow.
THEOREM LetThroughAsShown == Spec => []ServedAsApproved
  <1>1. IInv => ServedAsApproved
    <2> SUFFICES ASSUME IInv, NEW r \in Up, Accepted(r)
                 PROVE  tokens.access.claims.shown =
                          [resource |-> AS(r).resource,
                           scope |-> tokens.access.claims.scope]
      BY DEF ServedAsApproved
    <2>1. AsShown(tokens.access.claims)
      BY DEF IInv, TokensOK, PairOK, Accepted
    <2>2. tokens.access.claims.resource = AS(r).resource
      BY DEF Accepted, VerifyAccessToken
    <2>. QED  BY <2>1, <2>2 DEF AsShown
  <1>. QED  BY Invariant, <1>1, PTL

\* A pair issued for claims that name the issuing replica's resource is
\* accepted by that replica.
LEMMA IssuedVerifies ==
    ASSUME NEW env, NEW from, NEW origin, from.resource = New(env).resource
    PROVE  VerifyAccessToken(New(env), IssueGrant(New(env), from, origin).access)
  <1>. DEFINE claims == Claims("access", New(env).issuer, from, origin)
  <1>1. IssueGrant(New(env), from, origin).access =
           SignClaims(LoadKeys(env), claims)
    BY DEF IssueGrant, New
  <1>2. ParseSigned(LoadKeys(env), SignClaims(LoadKeys(env), claims))
    BY SignedVerifies
  <1>3. SignClaims(LoadKeys(env), claims).claims = claims
    BY DEF SignClaims
  <1>4. /\ claims.use = "access"
        /\ claims.iss = New(env).issuer
        /\ claims.resource = New(env).resource
    BY DEF Claims
  <1>5. New(env).keys = LoadKeys(env)
    BY DEF New
  <1>. QED  BY <1>1, <1>2, <1>3, <1>4, <1>5 DEF VerifyAccessToken

\* The same for the pairs that the claims issue: the resource they name is the
\* one their page showed.
LEMMA ShownVerifies ==
    ASSUME NEW r, NEW from, NEW origin, AsShown(from),
           tokens' = IssueGrant(AS(r), from, origin),
           tokens'.access.claims.shown.resource = AS(r).resource
    PROVE  VerifyAccessToken(AS(r), tokens'.access)
  <1>1. tokens'.access.claims.shown = from.shown
    BY DEF IssueGrant, SignClaims, Claims
  <1>2. from.shown.resource = from.resource
    BY DEF AsShown
  <1>3. from.resource = New(running[r]).resource
    BY <1>1, <1>2 DEF AS
  <1>. QED  BY <1>3, IssuedVerifies DEF AS

\* The token we mint is always usable, by the replica that mints it and for
\* the resource that the user was shown, whatever the client sent.
THEOREM MintedIsUsable == Spec => MintedUsable
  <1>1. ASSUME IInv, NEW r \in Up,
               Redeem(r) \/ RefreshTokens(r), tokens' # Nothing,
               tokens'.access.claims.shown.resource = AS(r).resource
        PROVE  VerifyAccessToken(AS(r), tokens'.access)
    <2>1. CASE Redeem(r)
      <3>1. AsShown(inHand.claims)
        BY <1>1, <2>1 DEF IInv, InHandOK, Redeem
      <3>2. tokens' = IssueGrant(AS(r), inHand.claims, running[r].key)
        BY <1>1, <2>1 DEF Redeem
      <3>. QED  BY <1>1, <3>1, <3>2, ShownVerifies
    <2>2. CASE RefreshTokens(r)
      <3>. DEFINE claims == tokens.refresh.claims
      <3>1. AsShown(claims)
        BY <1>1, <2>2 DEF IInv, TokensOK, PairOK, StepOK, RefreshTokens
      <3>2. tokens' = IssueGrant(AS(r), claims, claims.origin)
        BY <1>1, <2>2 DEF RefreshTokens, RefreshedFrom
      <3>. QED  BY <1>1, <3>1, <3>2, ShownVerifies
    <2>. QED  BY <1>1, <2>1, <2>2
  <1>2. IInv /\ [Next]_vars =>
          [\A r \in Up :
             /\ Redeem(r) \/ RefreshTokens(r)
             /\ tokens' # Nothing
             /\ tokens'.access.claims.shown.resource = AS(r).resource
             => VerifyAccessToken(AS(r), tokens'.access)]_vars
    BY <1>1
  <1>. QED  BY Invariant, <1>2, PTL DEF Spec, MintedUsable
-----------------------------------------------------------------------------
(***************************************************************************)
(* How often the user is asked once all replicas run one configuration,    *)
(* the target or one that was the target.                                  *)
(***************************************************************************)
Settled(env) == \A r \in Replicas : running[r] = env /\ Usable(env)

\* What is in hand is of that configuration.
OwnPage(env, use) ==
    /\ VerifySealed(New(env), inHand, use)
    /\ inHand.claims.resource = New(env).resource

OwnTokens(env) == tokens # Nothing /\ VerifyAccessToken(New(env), tokens.access)

OwnSite(env) == site.issuer = New(env).issuer

\* The client asks for what is required, if anything is.
Enough(env) == New(env).required = {} \/ ask = Challenge(New(env))

Covers(env, words) == HasRequiredScopes(New(env), words)

\* After one page: it can come to nothing because the client began elsewhere,
\* or show less than is required; but then the client has started over, and
\* asks for enough as soon as it has been challenged.
AskedOnce(env) ==
    \/ step = "consent" /\ OwnPage(env, "authreq")
    \/ step = "redeem" /\ OwnPage(env, "code")
    \/ step \in {"call", "served"} /\ OwnTokens(env)
    \/ step = "call" /\ tokens = Nothing
    \/ step = "prm" /\ Enough(env)
    \/ step \in {"metadata", "register", "authorize"} /\ Enough(env) /\ OwnSite(env)

\* After a second one the tokens are accepted for good.
AskedAgain(env) ==
    \/ /\ step = "consent"
       /\ OwnPage(env, "authreq") /\ OwnSite(env) /\ Covers(env, inHand.claims.scope)
    \/ step = "redeem" /\ OwnPage(env, "code") /\ Covers(env, inHand.claims.scope)
    \/ /\ step \in {"call", "served"}
       /\ OwnTokens(env) /\ Covers(env, tokens.access.claims.scope)

\* A client that has its user asked has dropped its tokens.
FlowSteps == {"prm", "metadata", "register", "authorize", "consent", "redeem"}
FlowWithoutTokens == step \in FlowSteps => tokens = Nothing

AskingInv ==
    /\ FlowWithoutTokens
    /\ \A env \in Envs : Settled(env) => \/ asked = 0
                                         \/ asked = 1 /\ AskedOnce(env)
                                         \/ asked = 2 /\ AskedAgain(env)

\* Whoever is challenged knows what is required.
LEMMA ChallengedForEnough ==
    ASSUME NEW r \in Replicas, NEW env, AS(r) = New(env),
           Usable(env), Challenged(r)
    PROVE  Enough(env)'
  <1> SUFFICES ASSUME New(env).required # {} PROVE ask' = Challenge(New(env))
    BY DEF Enough
  <1>1. PICK entry \in New(env).required : \E w \in entry : entry = {w}
    BY DEF Usable, New
  <1>2. Challenge(New(env)) # {}
    BY <1>1 DEF Challenge
  <1>. QED  BY <1>2 DEF Challenged

LEMMA EnoughCovers ==
    ASSUME NEW env, Usable(env), Enough(env)
    PROVE  Covers(env, GrantScope(New(env), ask))
  <1> SUFFICES ASSUME NEW entry \in New(env).required
               PROVE  \E w \in GrantScope(New(env), ask) : entry = {w}
    BY DEF Covers, HasRequiredScopes
  <1>1. PICK w \in entry : entry = {w}
    BY DEF Usable, New
  <1>2. ask = UNION New(env).required
    BY DEF Enough, Challenge
  <1>3. w \in ask
    BY <1>1, <1>2
  <1>. QED  BY <1>1, <1>3 DEF GrantScope

\* What a replica of the configuration seals is its own: a page, the code that
\* it becomes, and the tokens that the code becomes.
LEMMA ShowsOwnPage ==
    ASSUME NEW r \in Replicas, NEW env, AS(r) = New(env), GetConsent(r)
    PROVE  /\ OwnPage(env, "authreq")'
           /\ inHand'.claims.scope = GrantScope(New(env), ask)
  <1>1. PICK sent \in Spellings : inHand' = MintAuthReq(AS(r), sent, ask)
    BY DEF GetConsent
  <1>. QED  BY <1>1 DEF OwnPage, VerifySealed, ParseEncrypted, MintAuthReq,
                       EncryptClaims, BoundResource

LEMMA ApprovesOwnPage ==
    ASSUME NEW r \in Replicas, NEW env, AS(r) = New(env),
           OwnPage(env, "authreq"), Approve(r)
    PROVE  /\ OwnPage(env, "code")'
           /\ inHand'.claims.scope = inHand.claims.scope
  BY DEF Approve, OwnPage, VerifySealed, ParseEncrypted, MintCode, EncryptClaims

LEMMA RedeemsOwnCode ==
    ASSUME NEW r \in Replicas, NEW env, AS(r) = New(env),
           OwnPage(env, "code"), Redeem(r)
    PROVE  /\ OwnTokens(env)'
           /\ tokens'.access.claims.scope = inHand.claims.scope
  <1>1. tokens' = IssueGrant(New(env), inHand.claims, running[r].key)
    BY DEF OwnPage, Redeem
  <1>2. VerifyAccessToken(New(env), tokens'.access)
    BY <1>1, IssuedVerifies DEF OwnPage
  <1>3. tokens'.use = "tokens" /\ tokens'.access.claims.scope = inHand.claims.scope
    BY <1>1 DEF IssueGrant, SignClaims, Claims
  <1>. QED  BY <1>2, <1>3 DEF OwnTokens, Nothing

\* Everything that begins the flow again leaves the client without tokens.
LEMMA StartsOver ==
    ASSUME FlowWithoutTokens, step \in FlowSteps, StartOver, UNCHANGED tokens
    PROVE  step' = "call" /\ tokens' = Nothing
  BY DEF FlowWithoutTokens, StartOver

LEMMA FlowPreserved ==
    ASSUME NEW r \in Replicas, FlowWithoutTokens, Client(r)
    PROVE  FlowWithoutTokens'
  <1>1. CASE CallUnauthorized(r) \/ CallInsufficient(r) \/ CallServed(r)
    BY <1>1 DEF FlowWithoutTokens, FlowSteps, CallUnauthorized, CallInsufficient, CallServed
  <1>2. CASE FetchPRM(r) \/ FetchASMetadata(r) \/ NotFound \/ Register(r)
    BY <1>2 DEF FlowWithoutTokens, FlowSteps, FetchPRM, FetchASMetadata, NotFound,
                Register, StartOver
  <1>3. CASE GetUnknown(r) \/ GetInvalid(r) \/ GetConsent(r) \/ Approve(r) \/ ApproveFails(r)
    BY <1>3 DEF FlowWithoutTokens, FlowSteps, GetUnknown, GetInvalid, GetConsent,
                Approve, ApproveFails, StartOver
  <1>4. CASE Redeem(r) \/ RefreshTokens(r)
    BY <1>4 DEF FlowWithoutTokens, FlowSteps, Redeem, RefreshTokens, StartOver
  <1>. QED  BY <1>1, <1>2, <1>3, <1>4 DEF Client

LEMMA AskedOnceStep ==
    ASSUME NEW r \in Replicas, NEW env, AS(r) = New(env), Usable(env),
           FlowWithoutTokens, AskedOnce(env), asked = 1, Client(r)
    PROVE  \/ asked' = 1 /\ AskedOnce(env)'
           \/ asked' = 2 /\ AskedAgain(env)'
  <1>1. CASE CallUnauthorized(r)
    <2>1. asked' = 1
      BY <1>1 DEF CallUnauthorized
    <2>2. tokens = Nothing
      BY <1>1 DEF CallUnauthorized, AskedOnce, OwnTokens, Accepted
    <2>3. step' = "prm" /\ Enough(env)'
      BY <1>1, <2>2, ChallengedForEnough DEF CallUnauthorized
    <2>. QED  BY <2>1, <2>3 DEF AskedOnce
  <1>2. CASE CallInsufficient(r)
    <2>1. asked' = 1 /\ step' = "prm" /\ Enough(env)'
      BY <1>2, ChallengedForEnough DEF CallInsufficient
    <2>. QED  BY <2>1 DEF AskedOnce
  <1>3. CASE CallServed(r)
    <2>1. asked' = 1 /\ step' = "served" /\ OwnTokens(env)'
      BY <1>3 DEF CallServed, OwnTokens, Accepted
    <2>. QED  BY <2>1 DEF AskedOnce
  <1>4. CASE FetchPRM(r)
    <2>1. step = "prm" /\ asked' = 1 /\ Enough(env)'
      BY <1>4 DEF FetchPRM, AskedOnce, Enough
    <2>2. CASE step' = "metadata" /\ OwnSite(env)'
      BY <2>1, <2>2 DEF AskedOnce
    <2>3. CASE StartOver
      BY <1>4, <2>1, <2>3, StartsOver DEF FetchPRM, FlowSteps, AskedOnce
    <2>. QED  BY <1>4, <2>2, <2>3 DEF FetchPRM, OwnSite
  <1>5. CASE FetchASMetadata(r)
    <2>1. step = "metadata" /\ asked' = 1 /\ Enough(env)' /\ UNCHANGED tokens
      BY <1>5 DEF FetchASMetadata, AskedOnce, Enough
    <2>2. CASE step' \in {"authorize", "register"} /\ UNCHANGED site
      BY <2>1, <2>2 DEF AskedOnce, OwnSite
    <2>3. CASE StartOver
      BY <2>1, <2>3, StartsOver DEF FlowSteps, AskedOnce
    <2>. QED  BY <1>5, <2>2, <2>3 DEF FetchASMetadata
  <1>6. CASE NotFound \/ GetUnknown(r) \/ GetInvalid(r) \/ ApproveFails(r)
    BY <1>6, StartsOver DEF NotFound, GetUnknown, GetInvalid, ApproveFails, FlowSteps,
                            AskedOnce
  <1>7. CASE Register(r)
    <2>1. step = "register" /\ step' = "authorize" /\ asked' = 1 /\ UNCHANGED <<ask, site>>
      BY <1>7 DEF Register
    <2>. QED  BY <2>1 DEF AskedOnce, Enough, OwnSite
  <1>8. CASE GetConsent(r)
    <2>1. step = "authorize" /\ step' = "consent" /\ asked' = 2 /\ UNCHANGED <<ask, site>>
      BY <1>8 DEF GetConsent, TooOften
    <2>2. Enough(env) /\ OwnSite(env)
      BY <2>1 DEF AskedOnce
    <2>3. OwnPage(env, "authreq")' /\ inHand'.claims.scope = GrantScope(New(env), ask)
      BY <1>8, ShowsOwnPage
    <2>4. Covers(env, inHand.claims.scope)'
      BY <2>2, <2>3, EnoughCovers DEF Covers
    <2>. QED  BY <2>1, <2>2, <2>3, <2>4 DEF AskedAgain, OwnSite
  <1>9. CASE Approve(r)
    <2>1. step = "consent" /\ step' = "redeem" /\ asked' = 1
      BY <1>9 DEF Approve
    <2>2. OwnPage(env, "authreq")
      BY <2>1 DEF AskedOnce
    <2>. QED  BY <1>9, <2>1, <2>2, ApprovesOwnPage DEF AskedOnce
  <1>10. CASE Redeem(r)
    <2>1. step = "redeem" /\ step' = "call" /\ asked' = 1
      BY <1>10 DEF Redeem, StartOver
    <2>2. OwnPage(env, "code")
      BY <2>1 DEF AskedOnce
    <2>. QED  BY <1>10, <2>1, <2>2, RedeemsOwnCode DEF AskedOnce
  <1>11. CASE RefreshTokens(r)
    BY <1>11 DEF RefreshTokens, AskedOnce
  <1>. QED  BY <1>1, <1>2, <1>3, <1>4, <1>5, <1>6, <1>7, <1>8, <1>9, <1>10, <1>11
            DEF Client

LEMMA AskedAgainStep ==
    ASSUME NEW r \in Replicas, NEW env, AS(r) = New(env),
           AskedAgain(env), asked = 2, Client(r)
    PROVE  asked' = 2 /\ AskedAgain(env)'
  <1>1. CASE /\ step = "consent"
             /\ OwnPage(env, "authreq") /\ OwnSite(env) /\ Covers(env, inHand.claims.scope)
    <2>1. ~ApproveFails(r)
      BY <1>1 DEF ApproveFails, OwnPage, OwnSite
    <2>2. Approve(r)
      BY <1>1, <2>1 DEF Client, CallUnauthorized, CallInsufficient, CallServed, FetchPRM,
           FetchASMetadata, NotFound, Register, GetUnknown, GetInvalid, GetConsent,
           Redeem, RefreshTokens
    <2>3. OwnPage(env, "code")' /\ inHand'.claims.scope = inHand.claims.scope
      BY <1>1, <2>2, ApprovesOwnPage
    <2>4. asked' = 2 /\ step' = "redeem"
      BY <2>2 DEF Approve
    <2>. QED  BY <1>1, <2>3, <2>4 DEF AskedAgain, Covers
  <1>2. CASE step = "redeem" /\ OwnPage(env, "code") /\ Covers(env, inHand.claims.scope)
    <2>1. Redeem(r)
      BY <1>2 DEF Client, CallUnauthorized, CallInsufficient, CallServed, FetchPRM,
           FetchASMetadata, NotFound, Register, GetUnknown, GetInvalid, GetConsent,
           Approve, ApproveFails, RefreshTokens
    <2>2. OwnTokens(env)' /\ tokens'.access.claims.scope = inHand.claims.scope
      BY <1>2, <2>1, RedeemsOwnCode
    <2>3. asked' = 2 /\ step' = "call"
      BY <2>1 DEF Redeem, StartOver
    <2>. QED  BY <1>2, <2>2, <2>3 DEF AskedAgain, Covers
  <1>3. CASE /\ step \in {"call", "served"}
             /\ OwnTokens(env) /\ Covers(env, tokens.access.claims.scope)
    <2>1. Accepted(r) /\ HasRequiredScopes(AS(r), tokens.access.claims.scope)
      BY <1>3 DEF OwnTokens, Accepted, Covers
    <2>2. CallServed(r)
      BY <1>3, <2>1 DEF Client, CallUnauthorized, CallInsufficient, FetchPRM,
           FetchASMetadata, NotFound, Register, GetUnknown, GetInvalid, GetConsent,
           Approve, ApproveFails, Redeem, RefreshTokens
    <2>3. asked' = 2 /\ step' = "served" /\ UNCHANGED tokens
      BY <2>2 DEF CallServed
    <2>. QED  BY <1>3, <2>3 DEF AskedAgain, OwnTokens, Covers
  <1>. QED  BY <1>1, <1>2, <1>3 DEF AskedAgain

\* The first page since the last restart.
LEMMA FirstAsked ==
    ASSUME NEW r \in Replicas, NEW env, AS(r) = New(env), asked = 0, Client(r)
    PROVE  asked' = 0 \/ (asked' = 1 /\ AskedOnce(env)')
  <1>1. CASE GetConsent(r)
    <2>1. asked' = 1 /\ step' = "consent"
      BY <1>1 DEF GetConsent, TooOften
    <2>. QED  BY <1>1, <2>1, ShowsOwnPage DEF AskedOnce
  <1>2. CASE ~GetConsent(r)
    BY <1>2 DEF Client, CallUnauthorized, CallInsufficient, CallServed, FetchPRM,
         FetchASMetadata, NotFound, Register, GetUnknown, GetInvalid, Approve,
         ApproveFails, Redeem, RefreshTokens
  <1>. QED  BY <1>1, <1>2

LEMMA AskingStep == AskingInv /\ [Next]_vars => AskingInv'
  <1> SUFFICES ASSUME AskingInv, [Next]_vars PROVE AskingInv'
    OBVIOUS
  <1>1. CASE UNCHANGED <<running, asked>> /\ UNCHANGED client
    <2>1. UNCHANGED <<step, ask, site, inHand, tokens>>
      BY <1>1 DEF client
    <2>2. FlowWithoutTokens'
      BY <2>1 DEF AskingInv, FlowWithoutTokens
    <2>3. ASSUME NEW env \in Envs
          PROVE  /\ Settled(env)' => Settled(env)
                 /\ AskedOnce(env) => AskedOnce(env)'
                 /\ AskedAgain(env) => AskedAgain(env)'
      BY <1>1, <2>1 DEF Settled, AskedOnce, AskedAgain, OwnPage, OwnTokens, OwnSite,
                        Enough
    <2>. QED  BY <1>1, <2>2, <2>3 DEF AskingInv
  <1>2. CASE Reconfigure \/ UNCHANGED vars
    BY <1>1, <1>2 DEF Reconfigure, vars, client
  <1>3. ASSUME NEW r \in Replicas, Restart(r) PROVE AskingInv'
    <2>1. asked' = 0 /\ UNCHANGED <<step, tokens>>
      BY <1>3 DEF Restart, client
    <2>. QED  BY <2>1 DEF AskingInv, FlowWithoutTokens
  <1>4. ASSUME NEW r \in Replicas, Client(r) PROVE AskingInv'
    <2>1. UNCHANGED running
      BY <1>4 DEF Client, deployed
    <2>2. FlowWithoutTokens'
      BY <1>4, FlowPreserved DEF AskingInv
    <2>3. ASSUME NEW env \in Envs, Settled(env)
          PROVE  \/ asked' = 0
                 \/ asked' = 1 /\ AskedOnce(env)'
                 \/ asked' = 2 /\ AskedAgain(env)'
      <3>1. AS(r) = New(env) /\ Usable(env)
        BY <2>3 DEF Settled, AS
      <3>2. CASE asked = 0
        BY <1>4, <3>1, <3>2, FirstAsked
      <3>3. CASE asked = 1 /\ AskedOnce(env)
        BY <1>4, <3>1, <3>3, AskedOnceStep DEF AskingInv
      <3>4. CASE asked = 2 /\ AskedAgain(env)
        BY <1>4, <3>1, <3>4, AskedAgainStep
      <3>. QED  BY <2>3, <3>2, <3>3, <3>4 DEF AskingInv
    <2>4. ASSUME NEW env \in Envs, Settled(env)' PROVE Settled(env)
      BY <2>1, <2>4 DEF Settled
    <2>. QED  BY <2>2, <2>3, <2>4 DEF AskingInv
  <1>. QED  BY <1>1, <1>2, <1>3, <1>4 DEF Next

\* Once all replicas run the same configuration, the user is asked for consent
\* twice at most, however much of the flow under way began with another, and
\* whatever the client still knows of it.
THEOREM AskedTwiceAtMost == Spec => []AskedTwice
  <1>1. Init => AskingInv
    BY DEF Init, AskingInv, FlowWithoutTokens, FlowSteps
  <1>2. IInv /\ AskingInv => AskedTwice
    BY DEF IInv, DeployedOK, AskingInv, AskedTwice, Settled
  <1>. QED  BY Invariant, AskingStep, <1>1, <1>2, PTL DEF Spec
-----------------------------------------------------------------------------
(***************************************************************************)
(* The way back.  Once all replicas run one configuration, each step takes *)
(* the client nearer to being served: what it does not do for the last     *)
(* time rids it of something that stems from another configuration.        *)
(***************************************************************************)
\* The flow under way began, or goes on, as if there had been no other.
Fresh(env) ==
    /\ step = "prm" => prm = New(env).prmURL /\ Enough(env)
    /\ step \in {"metadata", "register", "authorize"} =>
          site.resource = env.resource /\ OwnSite(env) /\ Enough(env)
    /\ step = "authorize" =>
          clientId # Nothing /\ (clientId = CimdId => New(env).cimd)
    /\ step = "consent" => OwnPage(env, "authreq") /\ OwnSite(env)
    /\ step = "redeem" => OwnPage(env, "code")
    /\ step \in {"consent", "redeem"} => Covers(env, inHand.claims.scope)

\* What can make the client start over, once each.
StaleAsk(env) == ~ScopeIsSupported(New(env), ask)
StaleId(env) == clientId \notin {Nothing, CimdId} /\ ~ResolveClient(New(env), clientId)

One(b) == IF b THEN 1 ELSE 0
Debts(env) == One(~Fresh(env)) + One(StaleAsk(env)) + One(StaleId(env))

\* How many steps lead to being served if there is nothing of the kind.
Served(env) == OwnTokens(env) /\ Covers(env, tokens.access.claims.scope)

Ahead == [refresh |-> 9, prm |-> 7, metadata |-> 6, register |-> 5, authorize |-> 4,
          consent |-> 3, redeem |-> 2]

Distance(env) ==
    IF step \notin {"call", "served"} THEN Ahead[step]
    ELSE IF Served(env) THEN 1
    ELSE IF tokens # Nothing /\ ~OwnTokens(env) /\ ~renewed THEN 10
    ELSE 8

Rank(env) == 10 * Debts(env) + Distance(env)

\* The distances, one by one.
DistanceTable(env) ==
    /\ step \in Steps => Distance(env) \in 1..10
    /\ step \in FlowSteps \cup {"refresh"} => Distance(env) = Ahead[step]
    /\ step \in {"call", "served"} =>
         /\ Served(env) => Distance(env) = 1
         /\ ~Served(env) => Distance(env) \in {8, 10}
         /\ renewed \/ tokens = Nothing => Distance(env) \in {1, 8}
         /\ tokens # Nothing /\ ~OwnTokens(env) /\ ~renewed => Distance(env) = 10

LEMMA Distances == \A env : DistanceTable(env)
  BY DEF DistanceTable, Distance, Ahead, Served, OwnTokens, FlowSteps, Steps

LEMMA DistancesAfter == (\A env : DistanceTable(env))'
  BY Distances, PTL

LEMMA RankRange ==
    ASSUME NEW env, step \in Steps
    PROVE  /\ Debts(env) \in 0..3 /\ Rank(env) \in 1..37
           /\ ~Fresh(env) => Debts(env) >= 1
  <1>1. Debts(env) \in 0..3
    BY DEF Debts, One
  <1>2. Debts(env) = 3 => ~Fresh(env)
    BY DEF Debts, One
  <1>3. ~Fresh(env) => Distance(env) <= 7
    BY Distances DEF Fresh, DistanceTable, Ahead, FlowSteps
  <1>4. Distance(env) \in 1..10
    BY Distances DEF DistanceTable
  <1>. HIDE DEF Debts, Distance
  <1>5. Rank(env) \in 1..37
    BY <1>1, <1>2, <1>3, <1>4 DEF Rank
  <1>6. ~Fresh(env) => Debts(env) >= 1
    BY DEF Debts, One
  <1>. QED  BY <1>1, <1>5, <1>6

\* Nothing stale is added by a step of the client.
NoneAdded(env) ==
    /\ Fresh(env) => Fresh(env)'
    /\ StaleAsk(env)' => StaleAsk(env)
    /\ StaleId(env)' => StaleId(env)

\* A step lowers the rank if it brings the client nearer and adds nothing
\* stale, or if it gets rid of something stale.
LEMMA LowerRank ==
    ASSUME NEW env, step \in Steps, step' \in Steps, NoneAdded(env),
           \/ Distance(env)' < Distance(env)
           \/ ~Fresh(env) /\ Fresh(env)'
           \/ StaleAsk(env) /\ ~StaleAsk(env)'
           \/ StaleId(env) /\ ~StaleId(env)'
    PROVE  Rank(env)' < Rank(env)
  <1>1. Distance(env) \in 1..10 /\ Distance(env)' \in 1..10
    BY Distances, DistancesAfter DEF DistanceTable
  <1>2. Debts(env) \in Nat /\ Debts(env)' \in Nat
    BY DEF Debts, One
  <1>3. Debts(env)' <= Debts(env)
    BY DEF NoneAdded, Debts, One
  <1>4. \/ Distance(env)' < Distance(env)
        \/ Debts(env)' + 1 <= Debts(env)
    BY DEF NoneAdded, Debts, One
  <1>5. /\ Rank(env)' = 10 * Debts(env)' + Distance(env)'
        /\ Rank(env) = 10 * Debts(env) + Distance(env)
    BY DEF Rank
  <1>. HIDE DEF Debts, Distance, Rank
  <1>. QED  BY <1>1, <1>2, <1>3, <1>4, <1>5

\* A replica of the configuration answers the client's next step.
Answers(r, env) ==
    /\ AS(r) = New(env) /\ Usable(env) /\ env \in Envs
    /\ step \in Steps /\ step' \in Steps
    /\ FlowWithoutTokens

\* What is required is supported, so that whoever asks for it is understood.
LEMMA RequiredIsSupported ==
    ASSUME NEW env, Usable(env)
    PROVE  ScopeIsSupported(New(env), Challenge(New(env)))
  <1> SUFFICES ASSUME NEW entry \in New(env).required, NEW w \in entry
               PROVE  {w} \in New(env).supported
    BY DEF ScopeIsSupported, Challenge
  <1>1. entry = {w}
    BY DEF Usable, New
  <1>2. entry \in New(env).supported
    BY DEF Usable, Boots, RequiredSupported, New
  <1>. QED  BY <1>1, <1>2

\* A resource is matched however a client spells it.
LEMMA SpellingsMatch ==
    ASSUME NEW env \in Envs, Usable(env), site.resource = env.resource,
           NEW sent \in Spellings
    PROVE  MatchesResource(New(env).resource, sent)
  <1>. DEFINE u == env.resource
  <1>1. New(env).resource = u /\ sent \in {u, Lower(u)}
    BY DEF New, Spellings
  <1>2. /\ DOMAIN u = {"scheme", "userinfo", "host", "upper", "port", "path", "query",
                       "fragment"}
        /\ u.scheme = "https" /\ HasHost(u) /\ u.fragment \in {NoPart, ""}
    BY DeploymentAssumption DEF Usable, Boots, RequireHTTPSURL, NoUrl, Url
  <1>. HIDE DEF u
  <1>3. CASE sent = u
    BY <1>1, <1>2, <1>3 DEF MatchesResource
  <1>4. CASE sent = Lower(u)
    <2>1. /\ sent.scheme = u.scheme /\ sent.host = u.host /\ sent.port = u.port
          /\ sent.fragment = u.fragment
      BY <1>2, <1>4 DEF Lower
    <2>2. Lower(sent) = Lower(u)
      BY <1>2, <1>4 DEF Lower
    <2>. QED  BY <1>1, <1>2, <2>1, <2>2 DEF MatchesResource, HasHost, NormalizeResource
  <1>. QED  BY <1>1, <1>3, <1>4

\* Nothing but a challenge or an error changes what the client asks for, and
\* it never gets an identifier that is not known.
LEMMA NothingStale ==
    ASSUME NEW r \in Replicas, NEW env, Answers(r, env), Client(r)
    PROVE  /\ StaleAsk(env)' => StaleAsk(env)
           /\ StaleId(env)' => StaleId(env)
  <1>1. \/ ask' = ask \/ ask' = {} \/ ask' = Challenge(New(env))
    BY DEF Client, CallUnauthorized, CallInsufficient, CallServed, Challenged, FetchPRM,
         FetchASMetadata, NotFound, Register, GetUnknown, GetInvalid, GetConsent, Approve,
         ApproveFails, Redeem, RefreshTokens, Answers
  <1>2. ScopeIsSupported(New(env), {}) /\ ScopeIsSupported(New(env), Challenge(New(env)))
    BY RequiredIsSupported DEF ScopeIsSupported, Answers
  <1>3. \/ clientId' \in {clientId, Nothing, CimdId}
        \/ clientId' = MintClientID(New(env))
    BY DEF Client, CallUnauthorized, CallInsufficient, CallServed, Challenged, FetchPRM,
         FetchASMetadata, NotFound, Register, GetUnknown, GetInvalid, GetConsent, Approve,
         ApproveFails, Redeem, RefreshTokens, Answers
  <1>4. ASSUME clientId' = MintClientID(New(env)), clientId' # CimdId
        PROVE  ResolveClient(New(env), clientId')
    <2>1. clientId' = SignClaims(LoadKeys(env), [use |-> "client"])
      BY <1>4 DEF MintClientID, New
    <2>2. ParseSigned(New(env).keys, clientId')
      BY <2>1, SignedVerifies DEF New
    <2>3. clientId'.claims.use = "client"
      BY <2>1 DEF SignClaims
    <2>. QED  BY <1>4, <2>2, <2>3 DEF ResolveClient
  <1>. QED  BY <1>1, <1>2, <1>3, <1>4 DEF StaleAsk, StaleId

LEMMA CallNearer ==
    ASSUME NEW r \in Replicas, NEW env, Answers(r, env),
           CallUnauthorized(r) \/ CallInsufficient(r), Client(r)
    PROVE  Rank(env)' < Rank(env)
  <1>. USE Distances, DistancesAfter DEF DistanceTable
  <1>1. step \in {"call", "served"} /\ Challenged(r) /\ ~Served(env)
    BY DEF CallUnauthorized, CallInsufficient, Accepted, Served, OwnTokens, Covers, Answers
  <1>2. CASE step' = "refresh"
    <2>1. tokens # Nothing /\ ~renewed /\ ~OwnTokens(env)
      BY <1>2 DEF CallUnauthorized, CallInsufficient, Accepted, OwnTokens, Answers
    <2>2. Distance(env) = 10 /\ Distance(env)' = 9
      BY <1>1, <1>2, <2>1 DEF Ahead
    <2>3. Fresh(env)'
      BY <1>2 DEF Fresh
    <2>. QED  BY <2>2, <2>3, NothingStale, LowerRank DEF NoneAdded, Answers
  <1>3. CASE step' = "prm"
    <2>1. Distance(env) \in {8, 10} /\ Distance(env)' = 7
      BY <1>1, <1>3 DEF Ahead, FlowSteps
    <2>2. Enough(env)' /\ prm' = New(env).prmURL
      BY <1>1, ChallengedForEnough DEF Challenged, Answers
    <2>3. Fresh(env)'
      BY <1>3, <2>2 DEF Fresh
    <2>. QED  BY <2>1, <2>3, NothingStale, LowerRank DEF NoneAdded, Answers
  <1>. QED  BY <1>2, <1>3 DEF CallUnauthorized, CallInsufficient

\* To start over with something stale in hand is to be rid of it.
LEMMA StaleStartsOver ==
    ASSUME NEW r \in Replicas, NEW env, Answers(r, env), Client(r),
           StartOver, ~Fresh(env)
    PROVE  Rank(env)' < Rank(env)
  <1>1. Fresh(env)'
    BY DEF StartOver, Fresh
  <1>. QED  BY <1>1, NothingStale, LowerRank DEF NoneAdded, Answers

LEMMA DiscoveryNearer ==
    ASSUME NEW r \in Replicas, NEW env, Answers(r, env), Client(r),
           FetchPRM(r) \/ FetchASMetadata(r) \/ NotFound \/ Register(r)
    PROVE  Rank(env)' < Rank(env)
  <1>. USE Distances, DistancesAfter DEF DistanceTable
  <1>1. New(env).issuer.path = <<>>
    BY DEF Usable, New, Answers
  <1>2. ASSUME Distance(env)' < Distance(env), Fresh(env) => Fresh(env)'
        PROVE  Rank(env)' < Rank(env)
    BY <1>2, NothingStale, LowerRank DEF NoneAdded, Answers
  <1>3. CASE FetchPRM(r)
    <2>1. step = "prm" /\ UNCHANGED ask
      BY <1>3 DEF FetchPRM
    <2>2. CASE step' = "metadata" /\ site' = [use |-> "site", resource |-> AS(r).resource,
                                              issuer |-> AS(r).issuer]
      <3>1. Fresh(env) => Fresh(env)'
        BY <2>1, <2>2 DEF Fresh, OwnSite, Enough, Answers, New
      <3>2. Distance(env) = 7 /\ Distance(env)' = 6
        BY <2>1, <2>2 DEF Ahead, FlowSteps
      <3>. QED  BY <1>2, <3>1, <3>2
    <2>3. CASE StartOver /\ ~(Suffix(prm.path) \in {<<>>, AS(r).resourceSuffix})
      <3>1. Suffix(New(env).prmURL.path) \in {<<>>, New(env).resourceSuffix}
        BY DEF Usable, New, Answers
      <3>2. ~Fresh(env)
        BY <2>1, <2>3, <3>1 DEF Fresh, Answers
      <3>. QED  BY <2>3, <3>2, StaleStartsOver
    <2>. QED  BY <1>3, <2>2, <2>3 DEF FetchPRM
  <1>4. CASE FetchASMetadata(r)
    <2>1. step = "metadata" /\ UNCHANGED ask
      BY <1>4 DEF FetchASMetadata
    <2>2. CASE step' \in {"authorize", "register"} /\ UNCHANGED site
      <3>1. step' = "authorize" =>
               clientId' # Nothing /\ (clientId' = CimdId => New(env).cimd)
        <4>1. CimdId # Nothing
          BY DEF CimdId, Nothing
        <4>2. \/ clientId \notin {Nothing, CimdId}
              \/ New(env).cimd
              \/ step' = "register"
          BY <1>4, <2>2 DEF FetchASMetadata, StartOver, Answers
        <4>3. clientId' = IF clientId = Nothing /\ New(env).cimd THEN CimdId ELSE clientId
          BY <1>4, <2>2 DEF FetchASMetadata, StartOver, Answers
        <4>. QED  BY <4>1, <4>2, <4>3
      <3>2. Fresh(env) => Fresh(env)'
        BY <2>1, <2>2, <3>1 DEF Fresh, OwnSite, Enough
      <3>3. Distance(env) = 6 /\ Distance(env)' \in {4, 5}
        BY <2>1, <2>2 DEF Ahead, FlowSteps
      <3>. QED  BY <1>2, <3>2, <3>3
    <2>3. CASE StartOver /\ ~(/\ site.issuer.path \in {<<>>, AS(r).issuerSuffix}
                              /\ site.issuer = AS(r).issuer)
      <3>1. ~Fresh(env)
        BY <1>1, <2>1, <2>3 DEF Fresh, OwnSite, Answers
      <3>. QED  BY <2>3, <3>1, StaleStartsOver
    <2>. QED  BY <1>4, <2>2, <2>3 DEF FetchASMetadata
  <1>5. CASE NotFound
    <2>1. ~Fresh(env)
      BY <1>1, <1>5 DEF NotFound, Routed, Fresh, OwnSite
    <2>. QED  BY <1>5, <2>1, StaleStartsOver DEF NotFound
  <1>6. CASE Register(r)
    <2>1. /\ step = "register" /\ step' = "authorize" /\ UNCHANGED <<ask, site>>
          /\ clientId' = MintClientID(New(env))
      BY <1>6 DEF Register, Answers
    <2>2. clientId' # Nothing /\ clientId' # CimdId
      BY <2>1 DEF MintClientID, SignClaims, Nothing, CimdId
    <2>3. Fresh(env) => Fresh(env)'
      BY <2>1, <2>2 DEF Fresh, OwnSite, Enough
    <2>4. Distance(env) = 5 /\ Distance(env)' = 4
      BY <2>1 DEF Ahead, FlowSteps
    <2>. QED  BY <1>2, <2>3, <2>4
  <1>. QED  BY <1>3, <1>4, <1>5, <1>6

LEMMA AuthorizeNearer ==
    ASSUME NEW r \in Replicas, NEW env, Answers(r, env), Client(r),
           GetUnknown(r) \/ GetInvalid(r) \/ GetConsent(r)
    PROVE  Rank(env)' < Rank(env)
  <1>. USE Distances, DistancesAfter DEF DistanceTable
  <1>1. step = "authorize"
    BY DEF GetUnknown, GetInvalid, GetConsent
  <1>2. ASSUME StartOver PROVE Fresh(env)'
    BY <1>2 DEF StartOver, Fresh
  <1>3. CASE GetUnknown(r)
    <2>1. StartOver /\ clientId' = Nothing /\ ~ResolveClient(New(env), clientId)
      BY <1>3 DEF GetUnknown, Answers
    <2>2. CASE Fresh(env)
      <3>1. StaleId(env) /\ ~StaleId(env)'
        BY <1>1, <2>1, <2>2 DEF Fresh, StaleId, ResolveClient
      <3>. QED  BY <1>2, <2>1, <3>1, NothingStale, LowerRank DEF NoneAdded, Answers
    <2>. QED  BY <2>1, <2>2, StaleStartsOver
  <1>4. CASE GetInvalid(r)
    <2>1. PICK sent \in Spellings :
             LET targetOK == MatchesResource(New(env).resource, sent) IN
             /\ ~targetOK \/ ~ScopeIsSupported(New(env), ask)
             /\ ask' = IF targetOK THEN {} ELSE ask
      BY <1>4 DEF GetInvalid, Answers
    <2>2. StartOver
      BY <1>4 DEF GetInvalid
    <2>3. CASE Fresh(env)
      <3>1. MatchesResource(New(env).resource, sent)
        BY <1>1, <2>3, SpellingsMatch DEF Fresh, Answers
      <3>2. StaleAsk(env) /\ ~StaleAsk(env)'
        BY <2>1, <3>1 DEF StaleAsk, ScopeIsSupported
      <3>. QED  BY <1>2, <2>2, <3>2, NothingStale, LowerRank DEF NoneAdded, Answers
    <2>. QED  BY <2>2, <2>3, StaleStartsOver
  <1>5. CASE GetConsent(r)
    <2>1. step' = "consent" /\ UNCHANGED site
      BY <1>5 DEF GetConsent
    <2>2. OwnPage(env, "authreq")' /\ inHand'.claims.scope = GrantScope(New(env), ask)
      BY <1>5, ShowsOwnPage DEF Answers
    <2>3. ASSUME Fresh(env) PROVE Fresh(env)'
      <3>1. Enough(env) /\ OwnSite(env)
        BY <1>1, <2>3 DEF Fresh
      <3>2. Covers(env, inHand.claims.scope)'
        BY <2>2, <3>1, EnoughCovers DEF Covers, Answers
      <3>. QED  BY <2>1, <2>2, <3>1, <3>2 DEF Fresh, OwnSite
    <2>4. Distance(env) = 4 /\ Distance(env)' = 3
      BY <1>1, <2>1 DEF Ahead, FlowSteps
    <2>. QED  BY <2>3, <2>4, NothingStale, LowerRank DEF NoneAdded, Answers
  <1>. QED  BY <1>3, <1>4, <1>5

LEMMA GrantNearer ==
    ASSUME NEW r \in Replicas, NEW env, Answers(r, env), Client(r),
           Approve(r) \/ ApproveFails(r) \/ Redeem(r) \/ RefreshTokens(r)
    PROVE  Rank(env)' < Rank(env)
  <1>. USE Distances, DistancesAfter DEF DistanceTable
  <1>1. ASSUME Distance(env)' < Distance(env), Fresh(env) => Fresh(env)'
        PROVE  Rank(env)' < Rank(env)
    BY <1>1, NothingStale, LowerRank DEF NoneAdded, Answers
  <1>2. CASE Approve(r)
    <2>1. step = "consent" /\ step' = "redeem"
      BY <1>2 DEF Approve
    <2>2. ASSUME Fresh(env) PROVE Fresh(env)'
      <3>1. OwnPage(env, "authreq") /\ Covers(env, inHand.claims.scope)
        BY <2>1, <2>2 DEF Fresh
      <3>2. OwnPage(env, "code")' /\ inHand'.claims.scope = inHand.claims.scope
        BY <1>2, <3>1, ApprovesOwnPage DEF Answers
      <3>. QED  BY <2>1, <3>1, <3>2 DEF Fresh, Covers
    <2>3. Distance(env) = 3 /\ Distance(env)' = 2
      BY <2>1 DEF Ahead, FlowSteps
    <2>. QED  BY <1>1, <2>2, <2>3
  <1>3. CASE ApproveFails(r)
    <2>1. ~Fresh(env)
      BY <1>3 DEF ApproveFails, Fresh, OwnPage, OwnSite, Answers
    <2>. QED  BY <1>3, <2>1, StaleStartsOver DEF ApproveFails
  <1>4. CASE Redeem(r)
    <2>1. step = "redeem" /\ step' = "call" /\ StartOver
      BY <1>4 DEF Redeem, StartOver
    <2>2. CASE Fresh(env)
      <3>1. OwnPage(env, "code") /\ Covers(env, inHand.claims.scope)
        BY <2>1, <2>2 DEF Fresh
      <3>2. OwnTokens(env)' /\ tokens'.access.claims.scope = inHand.claims.scope
        BY <1>4, <3>1, RedeemsOwnCode DEF Answers
      <3>3. Served(env)'
        BY <3>1, <3>2 DEF Served, Covers
      <3>4. Distance(env) = 2 /\ Distance(env)' = 1
        BY <2>1, <3>3 DEF Ahead, FlowSteps
      <3>5. Fresh(env)'
        BY <2>1 DEF Fresh
      <3>. QED  BY <1>1, <3>4, <3>5
    <2>. QED  BY <2>1, <2>2, StaleStartsOver
  <1>5. CASE RefreshTokens(r)
    <2>1. step = "refresh" /\ step' = "call"
      BY <1>5 DEF RefreshTokens
    <2>2. renewed' \/ tokens' = Nothing
      BY <1>5 DEF RefreshTokens
    <2>3. Distance(env) = 9 /\ Distance(env)' \in {1, 8}
      BY <2>1, <2>2 DEF Ahead
    <2>4. Fresh(env)'
      BY <2>1 DEF Fresh
    <2>. QED  BY <1>1, <2>3, <2>4
  <1>. QED  BY <1>2, <1>3, <1>4, <1>5

\* README:316-320, "Clients recover on their own": once all replicas run one
\* usable configuration, each step of the client serves it or brings it nearer
\* to that, by a distance that never exceeds 37; so it is served within that
\* many of its steps, whatever it knows or has in hand from before, unless the
\* configuration changes again.
THEOREM RecoversInSteps ==
    Spec => /\ [](\A env \in Envs : Rank(env) \in 1..37)
            /\ [][\A env \in Envs :
                    Settled(env) /\ (\E r \in Replicas : Client(r))
                      => step' = "served" \/ Rank(env)' < Rank(env)]_vars
  <1>. DEFINE Nearer == \A env \in Envs :
                          Settled(env) /\ (\E r \in Replicas : Client(r))
                            => step' = "served" \/ Rank(env)' < Rank(env)
  <1>1. IInv => \A env \in Envs : Rank(env) \in 1..37
    BY RankRange DEF IInv, StepOK
  <1>2. IInv /\ IInv' /\ AskingInv /\ [Next]_vars => [Nearer]_vars
    <2> SUFFICES ASSUME IInv, IInv', AskingInv, NEW env \in Envs, Settled(env),
                        NEW r \in Replicas, Client(r)
                 PROVE  step' = "served" \/ Rank(env)' < Rank(env)
      OBVIOUS
    <2>1. Answers(r, env)
      BY DEF Answers, Settled, AS, IInv, StepOK, AskingInv
    <2>. QED  BY <2>1, CallNearer, DiscoveryNearer, AuthorizeNearer, GrantNearer
              DEF Client, CallServed
  <1>3. Spec => []AskingInv
    <2>1. Init => AskingInv
      BY DEF Init, AskingInv, FlowWithoutTokens, FlowSteps
    <2>. QED  BY <2>1, AskingStep, PTL DEF Spec
  <1>. QED  BY <1>1, <1>2, <1>3, Invariant, PTL DEF Spec
=============================================================================
