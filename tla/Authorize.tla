------------------------------ MODULE Authorize ------------------------------
(***************************************************************************)
(* /oauth2/authorize: GET validates a client's request and renders the     *)
(* consent page, POST mints the code (internal/web/mcp.go).  The server    *)
(* keeps nothing: what it must remember is sealed in the consent blob.     *)
(* The session is one cookie jar that every tab of the browser shares, and *)
(* it changes under an open consent page: it expires, is refreshed, is     *)
(* signed out, or becomes another user's.  A request that cannot go on     *)
(* without a session travels through the sign-in or refresh page as "rd".  *)
(*                                                                         *)
(* One replica, whose clock is real time.  What the sign-in and refresh    *)
(* pages do step by step is module BrowserSession.                         *)
(***************************************************************************)
EXTENDS Artifacts, Urls, FiniteSets, SequencesExt

CONSTANTS
    Tabs,
    Users,              \* identities: a subject with the e-mail it signs in with
    Allowed,            \* identities whose e-mail the allowlist admits
    Sub,                \* the subject of an identity
    Clients,
    CimdClients,        \* clients whose client_id is a metadata URL
    Listings,           \* sets of redirect URIs a client may present
    Requests,           \* queries of GET /oauth2/authorize
    OddHosts,           \* hosts that the page's security policy cannot name
    Resource,           \* MCP_RESOURCE
    ScopesSupported,    \* in the configured order
    MaxTime, MaxFlows, MaxIds, MaxChanges     \* bounds of the model

IsSequence(s) == s \in Seq(ToSet(s))

ASSUME AuthorizeAssumption ==
    /\ Allowed \subseteq Users
    /\ CimdClients \subseteq Clients
    /\ \A q \in Requests : q.client \in Clients /\ IsSequence(q.scope)
    /\ RequireHTTPSURL(Resource)
    /\ IsSequence(ScopesSupported) /\ ScopesSupported # <<>>
    /\ MaxTime \in Nat \ {0} /\ {MaxFlows, MaxIds, MaxChanges} \subseteq Nat

VARIABLES
    now, nextId,
    registered,     \* what ResolveClient knows of each client's redirect URIs
    cookies,        \* the session: its user, a valid id_token, a refresh_token
    page,           \* what each tab shows, and the request its flow began with
    blobs,          \* the consent pages each tab can go back to
    codes,          \* the codes minted and who approved them (history)
    grace,          \* for URIs delisted: when the last blob naming it expires (history)
    flows, changes  \* how often a flow began; how often the world changed

vars == <<now, nextId, registered, cookies, page, blobs, codes, grace,
          flows, changes>>

Redirects == {q.redirect : q \in Requests}

NoSession == [user |-> Absent, valid |-> FALSE, refresh |-> FALSE]
Session(u, refresh) == [user |-> u, valid |-> TRUE, refresh |-> refresh]

(***************************************************************************)
(* What a tab can show.  "flow" is the request that the client opened the  *)
(* tab with, which no code reads.                                          *)
(***************************************************************************)
Blank == [kind |-> "blank"]
ErrorPage == [kind |-> "error"]
Loading(q, flow) == [kind |-> "loading", rd |-> q, flow |-> flow]
SignInPage(q, flow) == [kind |-> "signin", rd |-> q, flow |-> flow]
RefreshPage(q, flow) == [kind |-> "refresh", rd |-> q, flow |-> flow]

FormAction_SelfOnly(u) == {}

\* renderConsent: where the form's POST may lead, other than to the proxy.
FormAction(u) == IF u.host \in OddHosts THEN {} ELSE {OriginOf(u)}

ConsentPage(blob, flow) ==
    [kind |-> "consent", blob |-> blob, flow |-> flow,
     formAction |-> FormAction(blob.req.bind.redirect)]

\* The consent page still, submitted but not left.  Using it again is GoBack.
BlockedPage(flow) == [kind |-> "blocked", flow |-> flow]

\* Back at the client, with an error code or with the code that was minted.
ClientPage(to, state, error, code, flow) ==
    [kind |-> "client", client |-> flow.client, to |-> to, state |-> state,
     error |-> error, code |-> code, flow |-> flow]

AtRest == {"blank", "error", "client"}

\* handleRegister, and validate for a metadata document: one redirect URI that
\* is refused, or none at all, and the client does not resolve.
Accepted(uris) == IF \A u \in uris : ValidateRedirectURI(u) THEN uris ELSE {}

(***************************************************************************)
(* The checks of handleAuthorizeGET.                                       *)
(***************************************************************************)
ScopeIsSupported(scope) == ToSet(scope) \subseteq ToSet(ScopesSupported)

GrantScope_Repeats(scope) == IF scope = <<>> THEN ScopesSupported ELSE scope

\* Where a sequence has something for the first time, and the sequence of
\* what it has there.
FirstSeen(s) == {i \in DOMAIN s : \A j \in 1..(i - 1) : s[j] # s[i]}

Once(s) ==
    LET rank(i) == Cardinality({j \in FirstSeen(s) : j <= i})
    IN [n \in 1..Cardinality(FirstSeen(s)) |->
            s[CHOOSE i \in FirstSeen(s) : rank(i) = n]]

\* GrantScope of a supported scope: without one, everything; else each once.
GrantScope(scope) == IF scope = <<>> THEN ScopesSupported ELSE Once(scope)

\* What a request must satisfy, in the order of the checks, and the error that
\* is reported to the client's redirect URI otherwise.
Checks(q) == <<
    [ok |-> q.type = "code",             error |-> "unsupported_response_type"],
    [ok |-> q.challenge # Absent,        error |-> "invalid_request"],
    [ok |-> MatchesResource(Resource, q.resource),
                                         error |-> "invalid_target"],
    [ok |-> ScopeIsSupported(q.scope),   error |-> "invalid_scope"]>>

RequestError(q) ==
    LET failed == {n \in DOMAIN Checks(q) : ~Checks(q)[n].ok}
    IN IF failed = {} THEN Absent ELSE Checks(q)[Min(failed)].error

Errors == {"unsupported_response_type", "invalid_request", "invalid_target",
           "invalid_scope"}

\* What the consent page asks "user" to approve for request q.
ConsentOf(q, user) ==
    [sub |-> user, client |-> q.client, redirect |-> q.redirect,
     challenge |-> q.challenge, resource |-> Resource,
     scope |-> GrantScope(q.scope)]

Reconstruct_NoScope(blob) ==
    [client |-> blob.req.bind.client, redirect |-> blob.req.bind.redirect,
     type |-> "code", challenge |-> blob.req.bind.challenge,
     resource |-> blob.req.bind.resource, scope |-> <<>>, state |-> blob.state]

\* reconstructAuthorizeURL: the request that a POST without a session resumes.
Reconstruct(blob) ==
    [client |-> blob.req.bind.client, redirect |-> blob.req.bind.redirect,
     type |-> "code", challenge |-> blob.req.bind.challenge,
     resource |-> blob.req.bind.resource, scope |-> blob.req.bind.scope,
     state |-> blob.state]

\* verifyEntraCookie without a valid id_token: refresh if that may work.
Detour(rd, flow) ==
    IF cookies.refresh THEN RefreshPage(rd, flow) ELSE SignInPage(rd, flow)

Approver_Anyone(blob) == cookies.valid

\* reauthenticate: the session is valid and the blob is its subject's.  The
\* e-mail is not compared.
Approver(blob) ==
    cookies.valid /\ Sub[cookies.user] = Sub[blob.req.bind.sub]
-----------------------------------------------------------------------------
Init ==
    /\ now = 1
    /\ nextId = 1
    /\ registered \in [Clients -> {Accepted(uris) : uris \in Listings}]
    /\ cookies = NoSession
    /\ page = [t \in Tabs |-> Blank]
    /\ blobs = [t \in Tabs |-> {}]
    /\ codes = {}
    /\ grace = [c \in Clients |-> [u \in Redirects |-> 0]]
    /\ flows = 0
    /\ changes = 0

Show(t, p) == page' = [page EXCEPT ![t] = p]

\* The tab shows another page and nothing else changes.
Answer(t, p) ==
    /\ Show(t, p)
    /\ UNCHANGED <<now, nextId, registered, cookies, blobs, codes, grace,
                   flows, changes>>

Tick ==
    /\ now < MaxTime
    /\ now' = now + 1
    /\ UNCHANGED <<nextId, registered, cookies, page, blobs, codes, grace,
                   flows, changes>>

\* A client opens the browser on its authorization request.
Begin(t, q) ==
    /\ flows < MaxFlows
    /\ page[t].kind \in AtRest
    /\ Show(t, Loading(q, q))
    /\ flows' = flows + 1
    /\ UNCHANGED <<now, nextId, registered, cookies, blobs, codes, grace, changes>>

(***************************************************************************)
(* handleAuthorizeGET, by the way it ends.                                 *)
(***************************************************************************)
\* Refused by the limiter on CIMD lookups, which counts other tabs as well.
GetRefused(t) ==
    /\ page[t].kind = "loading"
    /\ page[t].rd.client \in CimdClients
    /\ Answer(t, ErrorPage)

\* The client does not resolve, or the redirect URI is none of its own.
GetUnknown(t) ==
    /\ page[t].kind = "loading"
    /\ ~MatchRedirectURI(registered[page[t].rd.client], page[t].rd.redirect)
    /\ Answer(t, ErrorPage)

\* What the remaining outcomes have in common.
Resolved(t, error) ==
    /\ page[t].kind = "loading"
    /\ MatchRedirectURI(registered[page[t].rd.client], page[t].rd.redirect)
    /\ RequestError(page[t].rd) = error

GetInvalid(t) ==
    LET q == page[t].rd IN
    /\ \E error \in Errors :
         /\ Resolved(t, error)
         /\ Answer(t, ClientPage(q.redirect, q.state, error, Absent, page[t].flow))

GetDetour(t) ==
    /\ Resolved(t, Absent)
    /\ ~cookies.valid
    /\ Answer(t, Detour(page[t].rd, page[t].flow))

GetForbidden(t) ==
    /\ Resolved(t, Absent)
    /\ cookies.valid /\ cookies.user \notin Allowed
    /\ Answer(t, ErrorPage)

\* MintAuthReq fails: a 500.
GetFails(t) ==
    /\ Resolved(t, Absent)
    /\ cookies.valid /\ cookies.user \in Allowed
    /\ Answer(t, ErrorPage)

GetConsent(t) ==
    /\ nextId <= MaxIds
    /\ Resolved(t, Absent)
    /\ cookies.valid /\ cookies.user \in Allowed
    /\ LET q == page[t].rd
           blob == [req |-> MintAuthReq(nextId, now, "as", ConsentOf(q, cookies.user)),
                    state |-> q.state]
           consent == ConsentPage(blob, page[t].flow)
       IN /\ Show(t, consent)
          /\ blobs' = [blobs EXCEPT ![t] = @ \cup {consent}]
    /\ nextId' = nextId + 1
    /\ UNCHANGED <<now, registered, cookies, codes, grace, flows, changes>>

(***************************************************************************)
(* handleAuthorizePOST, by the way it ends.  The form is the page's own:   *)
(* its Origin and its CSRF nonce are right.                                *)
(***************************************************************************)
\* The browser goes where a form leads only if the page allows it.
Follow(t, to) ==
    Show(t, IF OriginOf(to.to) \in page[t].formAction THEN to
            ELSE BlockedPage(page[t].flow))

PostExpired(t) ==
    /\ page[t].kind = "consent"
    /\ ~VerifyAuthReq(page[t].blob.req, now)
    /\ Answer(t, ErrorPage)

\* "Deny" asks for no session, and the blob stays good.
PostDeny(t) ==
    LET blob == page[t].blob IN
    /\ page[t].kind = "consent"
    /\ VerifyAuthReq(blob.req, now)
    /\ Follow(t, ClientPage(blob.req.bind.redirect, blob.state, "access_denied",
                            Absent, page[t].flow))
    /\ UNCHANGED <<now, nextId, registered, cookies, blobs, codes, grace,
                   flows, changes>>

\* No session: like GET.  Somebody else's: sign in again.
PostDetour(t) ==
    LET blob == page[t].blob
        rd == Reconstruct(blob)
    IN
    /\ page[t].kind = "consent"
    /\ VerifyAuthReq(blob.req, now)
    /\ ~Approver(blob)
    /\ Answer(t, IF cookies.valid THEN SignInPage(rd, page[t].flow)
               ELSE Detour(rd, page[t].flow))

\* The blob's subject, but with an e-mail that is not on the allowlist.
PostForbidden(t) ==
    /\ page[t].kind = "consent"
    /\ VerifyAuthReq(page[t].blob.req, now)
    /\ Approver(page[t].blob)
    /\ cookies.user \notin Allowed
    /\ Answer(t, ErrorPage)

\* MintCode fails: a 500.  The blob stays good for another attempt.
PostFails(t) ==
    /\ page[t].kind = "consent"
    /\ VerifyAuthReq(page[t].blob.req, now)
    /\ Approver(page[t].blob)
    /\ cookies.user \in Allowed
    /\ Answer(t, ErrorPage)

PostApprove(t) ==
    LET blob == page[t].blob
        code == MintCode(nextId, now, "as", blob.req)
    IN
    /\ nextId <= MaxIds
    /\ page[t].kind = "consent"
    /\ VerifyAuthReq(blob.req, now)
    /\ Approver(blob)
    /\ cookies.user \in Allowed
    /\ Follow(t, ClientPage(blob.req.bind.redirect, blob.state, Absent, code,
                            page[t].flow))
    /\ codes' = codes \cup {[code |-> code, approver |-> cookies.user]}
    /\ nextId' = nextId + 1
    /\ UNCHANGED <<now, registered, cookies, blobs, grace, flows, changes>>

(***************************************************************************)
(* The browser's side of a detour, seen from here: sign_in, start, the     *)
(* IdP, callback and POST /oauth2/session; or refresh.  Each ends with the *)
(* tab loading rd, the session written; handleSession carries a refresh    *)
(* token forward when the IdP sends none.                                  *)
(***************************************************************************)
SignIn(t, u, refresh) ==
    /\ page[t].kind = "signin"
    /\ IF u \in Allowed
       THEN /\ cookies' = Session(u, refresh \/ cookies.refresh)
            /\ Show(t, Loading(page[t].rd, page[t].flow))
       ELSE /\ Show(t, ErrorPage)
            /\ UNCHANGED cookies
    /\ UNCHANGED <<now, nextId, registered, blobs, codes, grace, flows, changes>>

\* The IdP renews the session of the refresh token's user, who need not be the
\* last id_token's: the carried one may stem from an earlier sign-in.
Refresh(t, u) ==
    /\ page[t].kind = "refresh"
    /\ cookies.refresh /\ u \in Allowed
    /\ cookies' = Session(u, TRUE)
    /\ Show(t, Loading(page[t].rd, page[t].flow))
    /\ UNCHANGED <<now, nextId, registered, blobs, codes, grace, flows, changes>>

\* bailToSignIn: no refresh cookie, or any step of the refresh failed.
AfterFailedRefresh(t) == SignInPage(page[t].rd, page[t].flow)

RefreshFails(t) ==
    /\ page[t].kind = "refresh"
    /\ Answer(t, AfterFailedRefresh(t))

(***************************************************************************)
(* What happens around the flow: another tab signs in or out, the id_token *)
(* expires, the user goes back to a consent page, a client edits its       *)
(* metadata (or it stops resolving: nothing listed).                       *)
(***************************************************************************)
ChangeSession ==
    /\ changes < MaxChanges
    /\ \/ \E u \in Users, refresh \in BOOLEAN : cookies' = Session(u, refresh)
       \/ cookies.valid /\ cookies' = [cookies EXCEPT !.valid = FALSE]
       \/ cookies' = NoSession
    /\ changes' = changes + 1
    /\ UNCHANGED <<now, nextId, registered, page, blobs, codes, grace, flows>>

GoBack(t) ==
    /\ changes < MaxChanges
    /\ \E consent \in blobs[t] : Show(t, consent)
    /\ changes' = changes + 1
    /\ UNCHANGED <<now, nextId, registered, cookies, blobs, codes, grace, flows>>

ChangeMetadata(c) ==
    /\ changes < MaxChanges
    /\ \E uris \in Listings :
          registered' = [registered EXCEPT ![c] = Accepted(uris)]
    /\ grace' = [grace EXCEPT ![c] =
                      [u \in Redirects |-> IF MatchRedirectURI(registered[c], u)
                                           THEN now + AuthReqTTL ELSE @[u]]]
    /\ changes' = changes + 1
    /\ UNCHANGED <<now, nextId, cookies, page, blobs, codes, flows>>
-----------------------------------------------------------------------------
Get(t) == \/ GetRefused(t) \/ GetUnknown(t) \/ GetInvalid(t)
          \/ GetDetour(t) \/ GetForbidden(t) \/ GetFails(t) \/ GetConsent(t)

Post(t) == \/ PostExpired(t) \/ PostDeny(t)
           \/ PostDetour(t) \/ PostForbidden(t) \/ PostFails(t) \/ PostApprove(t)

Browse(t) == \/ \E u \in Users, refresh \in BOOLEAN : SignIn(t, u, refresh)
             \/ \E u \in Users : Refresh(t, u)
             \/ RefreshFails(t)

Next ==
    \/ Tick
    \/ \E t \in Tabs, q \in Requests : Begin(t, q)
    \/ \E t \in Tabs : Get(t) \/ Post(t) \/ Browse(t) \/ GoBack(t)
    \/ ChangeSession
    \/ \E c \in CimdClients : ChangeMetadata(c)

Spec == Init /\ [][Next]_vars

\* The server answers, and the user acts on every page the browser shows.
Fairness == \A t \in Tabs : WF_vars(Get(t)) /\ WF_vars(Post(t)) /\ WF_vars(Browse(t))

FairSpec == Spec /\ Fairness
-----------------------------------------------------------------------------
Scopes == {s \in UNION {[1..n -> ToSet(ScopesSupported)] : n \in 1..Len(ScopesSupported)} :
             Cardinality(ToSet(s)) = Len(s)}

\* Types; a consent asks for supported scopes, each of them once.
TypeOK ==
    /\ now \in 1..MaxTime /\ nextId \in Nat
    /\ registered \in [Clients -> Listings \cup {{}}]
    /\ cookies \in [user : Users \cup {Absent}, valid : BOOLEAN, refresh : BOOLEAN]
    /\ \A t \in Tabs :
         /\ page[t].kind \in AtRest \cup {"loading", "signin", "refresh", "consent",
                                     "blocked"}
         /\ \A consent \in blobs[t] : consent.blob.req.bind.scope \in Scopes
    /\ flows \in 0..MaxFlows /\ changes \in 0..MaxChanges

\* The confused-deputy guard of handleAuthorizePOST: whatever happened to the
\* shared session while the consent page was open, a code speaks for the
\* subject who approved it.  The e-mail in the code is the one the page was
\* made for, the one checked at the approval is the session's: both are on the
\* allowlist, even if the subject's e-mail changed in between.
CodesForApprover ==
    \A k \in codes : /\ Sub[k.code.bind.sub] = Sub[k.approver]
                     /\ {k.code.bind.sub, k.approver} \subseteq Allowed

\* A response that a tab brings back to the client answers the request the
\* client opened it with, however often the flow was cut short by a lost
\* session and resumed through rd: same redirect URI and state, and a code
\* bound to that request's challenge, resource and granted scope.
AnswersItsRequest ==
    \A t \in Tabs : page[t].kind = "client" =>
        LET flow == page[t].flow IN
        /\ page[t].to = flow.redirect
        /\ page[t].state = flow.state
        /\ page[t].error = Absent =>
             page[t].code.bind = ConsentOf(flow, page[t].code.bind.sub)

\* What goes back to a client, its code above all, travels encrypted or stays on
\* the user's machine: whatever URIs the client presented when it registered or
\* published its metadata, whichever one its request names, and whether the
\* consent was approved at once, after a detour or from the browser's history.
\* No fragment of the client's making swallows the answer, and userinfo is not
\* slipped in by a request: it is there only if a client listed the whole URI.
SafeDelivery ==
    \A t \in Tabs : page[t].kind = "client" =>
        LET u == page[t].to IN
        /\ u.scheme = "https" \/ (u.scheme = "http" /\ Loopback(u))
        /\ u.fragment \in {NoPart, ""}
        /\ u.userinfo = NoPart \/ \E uris \in Listings : u \in uris

\* The browser is only ever sent to a redirect URI that the client lists, or
\* listed no longer than a consent request lives: the blob outlasts the
\* metadata it was checked against, by AuthReqTTL and no more.
OnlyListedRedirects ==
    [][\A t \in Tabs :
         page'[t] # page[t] /\ page'[t].kind = "client" =>
           LET c == page'[t].client
               u == page'[t].to
           IN \/ MatchRedirectURI(registered[c], u)
              \/ now <= grace[c][u]]_vars

\* A flow comes to an end, at the client or at an error page, as long as the
\* user keeps acting: sign-in, refresh and authorize never send the browser
\* in circles, not even when the refresh token is no longer good, and the
\* consent page's security policy lets the answer out to the client.  (For a
\* redirect host that the policy cannot name it does not, by design.)
FlowEnds ==
    \A t \in Tabs :
        page[t].kind \notin AtRest /\ page[t].flow.redirect.host \notin OddHosts
            ~> page[t].kind \in AtRest
=============================================================================
