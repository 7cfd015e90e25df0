--------------------------- MODULE BrowserSession ---------------------------
(***************************************************************************)
(* The browser half of oidc-proxy: /verify and the /oauth2/* pages         *)
(* (internal/web/handlers.go, session.go), the scripts those pages run     *)
(* (templates.go), and the way /oauth2/authorize uses the same session     *)
(* (mcp.go; what that page asks and answers is module Authorize).          *)
(* The server has no state of its own.  The session is                     *)
(* the cookie jar, shared by all tabs; a sign-in's PKCE verifier, state,   *)
(* nonce and rd are in its tab's sessionStorage.  A script awaits the IdP  *)
(* and then POST /oauth2/session, whose request carries the cookies of the *)
(* moment it is sent and whose response sets them when it arrives; other   *)
(* tabs act in between.                                                    *)
(*                                                                         *)
(* The IdP is external: it authenticates users, and answers the token      *)
(* requests that the scripts send it.                                      *)
(***************************************************************************)
EXTENDS Naturals, FiniteSets

CONSTANTS
    Tabs,
    Users,
    Allowed,        \* users the allowlist admits
    Places,         \* paths of the site behind /verify, and Authz
    Rotates,        \* the IdP retires a refresh token when it is used
    OmitsRefresh,   \* the IdP may leave refresh_token out of a response
    MaxActs, MaxExpiries, MaxIds    \* bounds of the model

ASSUME BrowserAssumption ==
    /\ Allowed \subseteq Users
    /\ Rotates \in BOOLEAN /\ OmitsRefresh \in BOOLEAN
    /\ {MaxActs, MaxExpiries, MaxIds} \subseteq Nat

VARIABLES
    cookies,        \* the id_token and refresh_token cookies
    storage,        \* per tab: the sign-in in its sessionStorage
    tab,            \* per tab: the page, and how far its script is
    expired,        \* id_tokens that no longer verify
    retired,        \* refresh tokens the IdP no longer takes
    nextId,         \* numbers id_tokens, refresh tokens and sign-ins
    asked,          \* per tab: the place the user asked for (history)
    latest,         \* per tab: the last sign-in it began (history)
    lost,           \* a token response never made it to the cookies (history)
    out,            \* the last sign-out (history)
    writer,         \* the tab that wrote a good session, if nothing changed it
                    \* since (history)
    acts, expiries

vars == <<cookies, storage, tab, expired, retired, nextId, asked, latest, lost,
          out, writer, acts, expiries>>

Nobody == {}
None == [n |-> 0]       \* an absent cookie, token or sign-in
Home == "/"
Authz == "/oauth2/authorize"
Paths == Places \cup {Home}

\* rd as the redirects carry it.
Absolute(path) == [absolute |-> TRUE, path |-> path]
Relative(path) == [absolute |-> FALSE, path |-> path]

\* What /verify puts in rd: the forwarded scheme, host and URI.
OriginalURL(path) == Absolute(path)

SanitizeRedirect(rd) == IF rd.absolute THEN "" ELSE rd.path
HomeIfEmpty_Kept(path) == path
HomeIfEmpty(path) == IF path = "" THEN Home ELSE path

Rest == {"blank", "served", "forbidden", "failed", "client"}
AtRest(kind) == [kind |-> kind]
Loading(path) == [kind |-> "loading", path |-> path]
SignInPage(rd) == [kind |-> "signin", rd |-> SanitizeRedirect(rd)]
RefreshPage(rd) ==
    [kind |-> "refresh", rd |-> HomeIfEmpty(SanitizeRedirect(rd))]

ConsentPage(user) == [kind |-> "consent", user |-> user]

\* A script between its token response, its session request and the answer.
Posting(via, rd, tokens, nonce) ==
    [kind |-> "posting", via |-> via, rd |-> rd, tokens |-> tokens,
     nonce |-> nonce]
Answered(via, rd, tokens) ==
    [kind |-> "answered", via |-> via, rd |-> rd, tokens |-> tokens]

\* fail() and bailToSignIn(), of the callback and of the refresh page.
AfterFailure_Reload(via, rd) ==
    IF via = "callback" THEN AtRest("failed") ELSE Loading(rd)
AfterFailure(via, rd) ==
    IF via = "callback" THEN AtRest("failed") ELSE SignInPage(Relative(rd))

Valid(idToken) == idToken # None /\ idToken.n \notin expired

\* The tokens a session answer writes: without a new refresh token the one
\* the request's cookies held is carried forward.
CarryForward_Always(tokens) ==
    IF cookies.refresh # None THEN [tokens EXCEPT !.refresh = cookies.refresh]
    ELSE tokens
CarryForward(tokens) ==
    IF tokens.refresh = None THEN [tokens EXCEPT !.refresh = cookies.refresh]
    ELSE tokens

\* writeTokens: a cookie per token that is not empty.
Written_KeepsValid(tokens) ==
    [id |-> IF Valid(cookies.id) THEN cookies.id ELSE tokens.id,
     refresh |-> IF tokens.refresh = None THEN cookies.refresh ELSE tokens.refresh]
Written_RefreshOnly(tokens) ==
    [id |-> IF cookies.id = None THEN tokens.id ELSE cookies.id,
     refresh |-> tokens.refresh]
Written(tokens) ==
    [id |-> tokens.id,
     refresh |-> IF tokens.refresh = None THEN cookies.refresh ELSE tokens.refresh]

\* clearTokens.
Cleared_IdOnly == [id |-> None, refresh |-> cookies.refresh]
Cleared == [id |-> None, refresh |-> None]

Stored_Shared(t, signIn) == [u \in Tabs |-> signIn]
Stored(t, signIn) == [storage EXCEPT ![t] = signIn]

Show(t, page) == tab' = [tab EXCEPT ![t] = page]
-----------------------------------------------------------------------------
\* The cookies live for 30 days: a session may be older than the allowlist.
Init ==
    /\ cookies \in {[id |-> None, refresh |-> None]}
                     \cup {[id |-> [user |-> u, n |-> 1],
                            refresh |-> [user |-> u, n |-> 1]] : u \in Users}
    /\ storage = [t \in Tabs |-> None]
    /\ tab = [t \in Tabs |-> AtRest("blank")]
    /\ expired = {} /\ retired = {}
    /\ nextId = 2
    /\ asked = [t \in Tabs |-> Home]
    /\ latest = [t \in Tabs |-> 0]
    /\ lost = FALSE
    /\ out = [at |-> 0, underway |-> {}]
    /\ writer = Nobody
    /\ acts = 0 /\ expiries = 0

\* The user opens a place in a tab, abandoning whatever ran there.
Visit(t, place) ==
    /\ acts < MaxActs
    /\ Show(t, Loading(place))
    /\ asked' = [asked EXCEPT ![t] = place]
    /\ lost' = (lost \/ tab[t].kind \in {"posting", "answered"})
    /\ acts' = acts + 1
    /\ UNCHANGED <<cookies, storage, expired, retired, nextId, latest, out,
                   writer, expiries>>

\* handleVerify, for the forwardAuth request of a loading page.
Verify(t) ==
    LET path == tab[t].path
        rd == OriginalURL(path)
    IN
    /\ tab[t].kind = "loading" /\ path # Authz
    /\ \/ /\ cookies.id = None
          /\ Show(t, SignInPage(rd))
          /\ UNCHANGED <<cookies, writer>>
       \/ /\ cookies.id # None /\ ~Valid(cookies.id)
          /\ cookies.refresh # None
          /\ Show(t, RefreshPage(rd))
          /\ UNCHANGED <<cookies, writer>>
       \/ /\ cookies.id # None /\ ~Valid(cookies.id)
          /\ cookies.refresh = None
          /\ Show(t, SignInPage(rd))
          /\ cookies' = Cleared /\ writer' = Nobody
       \/ /\ Valid(cookies.id) /\ cookies.id.user \notin Allowed
          /\ Show(t, AtRest("forbidden"))
          /\ cookies' = Cleared /\ writer' = Nobody
       \/ /\ Valid(cookies.id) /\ cookies.id.user \in Allowed
          /\ Show(t, [kind |-> "served", path |-> path, user |-> cookies.id.user])
          /\ UNCHANGED <<cookies, writer>>
    /\ UNCHANGED <<storage, expired, retired, nextId, asked, latest, lost,
                   out, acts, expiries>>

AuthorizeRd_Absolute == OriginalURL(Authz)

\* authenticateBrowser, reconstructAuthorizeURL: rd is relative.
AuthorizeRd == Relative(Authz)

\* verifyEntraCookie without a valid id_token.  Not quite handleVerify, which
\* looks at the refresh cookie only if there is an id_token cookie as well.
Detour == IF cookies.refresh # None THEN RefreshPage(AuthorizeRd)
          ELSE SignInPage(AuthorizeRd)

\* handleAuthorizeGET, of a good request, as far as the session goes.
AuthorizeGet(t) ==
    /\ tab[t].kind = "loading" /\ tab[t].path = Authz
    /\ \/ ~Valid(cookies.id) /\ Show(t, Detour)
       \/ /\ Valid(cookies.id) /\ cookies.id.user \notin Allowed
          /\ Show(t, AtRest("forbidden"))
       \/ /\ Valid(cookies.id) /\ cookies.id.user \in Allowed
          /\ Show(t, ConsentPage(cookies.id.user))
    /\ UNCHANGED <<cookies, storage, expired, retired, nextId, asked, latest,
                   lost, out, writer, acts, expiries>>

\* handleAuthorizePOST: "deny" asks for no session, and "approve" for that of
\* the user the page was made for; either then returns to the client.
AuthorizePost(t) ==
    /\ tab[t].kind = "consent"
    /\ \/ Show(t, AtRest("client"))
       \/ ~Valid(cookies.id) /\ Show(t, Detour)
       \/ /\ Valid(cookies.id) /\ cookies.id.user # tab[t].user
          /\ Show(t, SignInPage(AuthorizeRd))
    /\ UNCHANGED <<cookies, storage, expired, retired, nextId, asked, latest,
                   lost, out, writer, acts, expiries>>

\* handleStart and its script: a new sign-in replaces the stored one.
Start(t) ==
    /\ nextId <= MaxIds
    /\ tab[t].kind = "signin"
    /\ storage' = Stored(t, [n |-> nextId, rd |-> HomeIfEmpty(tab[t].rd)])
    /\ latest' = [latest EXCEPT ![t] = nextId]
    /\ Show(t, [kind |-> "idp", signIn |-> nextId])
    /\ nextId' = nextId + 1
    /\ UNCHANGED <<cookies, expired, retired, asked, lost, out, writer, acts,
                   expiries>>

\* Back to the IdP's page of a sign-in that this tab began earlier, whatever
\* that was for.
GoBack(t, signIn) ==
    /\ acts < MaxActs
    /\ tab[t].kind \in Rest \cup {"signin", "idp"}
    /\ 0 < signIn /\ signIn <= latest[t]
    /\ Show(t, [kind |-> "idp", signIn |-> signIn])
    /\ asked' = [asked EXCEPT ![t] = Home]
    /\ acts' = acts + 1
    /\ UNCHANGED <<cookies, storage, expired, retired, nextId, latest, lost,
                   out, writer, expiries>>

\* The IdP authenticates the user and redirects to the callback, or reports
\* an error there.
IdpAnswers(t) ==
    /\ tab[t].kind = "idp"
    /\ \/ \E u \in Users :
            Show(t, [kind |-> "callback", state |-> tab[t].signIn, user |-> u])
       \/ Show(t, AtRest("failed"))
    /\ UNCHANGED <<cookies, storage, expired, retired, nextId, asked, latest,
                   lost, out, writer, acts, expiries>>

StateMatches(t) == tab[t].state = storage[t].n

\* A token response for user u.
IssuedTokens(u, withRefresh) ==
    [id |-> [user |-> u, n |-> nextId],
     refresh |-> IF withRefresh THEN [user |-> u, n |-> nextId] ELSE None]

\* The callback's script up to the token response.
Callback(t) ==
    /\ tab[t].kind = "callback"
    /\ \/ /\ StateMatches(t)
          /\ \E withRefresh \in BOOLEAN :
               /\ withRefresh \/ OmitsRefresh
               /\ Show(t, Posting("callback", storage[t].rd,
                                  IssuedTokens(tab[t].user, withRefresh), tab[t].state))
          /\ nextId' = nextId + 1
       \/ /\ ~StateMatches(t)
          /\ Show(t, AtRest("failed"))
          /\ UNCHANGED nextId
    /\ UNCHANGED <<cookies, storage, expired, retired, asked, latest, lost,
                   out, writer, acts, expiries>>

\* The refresh page's script up to the token response.  That another tab's
\* refresh retires the token just read is one of the ways RefreshFails.
Refresh(t) ==
    /\ tab[t].kind = "refresh"
    /\ cookies.refresh # None /\ cookies.refresh.n \notin retired
    /\ \E withRefresh \in BOOLEAN :
         /\ withRefresh \/ OmitsRefresh
         /\ Show(t, Posting("refresh", tab[t].rd,
                            IssuedTokens(cookies.refresh.user, withRefresh), 0))
    /\ retired' = IF Rotates THEN retired \cup {cookies.refresh.n} ELSE retired
    /\ nextId' = nextId + 1
    /\ UNCHANGED <<cookies, storage, expired, asked, latest, lost, out,
                   writer, acts, expiries>>

\* No refresh cookie, the IdP refuses it, or the request fails.
RefreshFails(t) ==
    /\ tab[t].kind = "refresh"
    /\ Show(t, AfterFailure("refresh", tab[t].rd))
    /\ UNCHANGED <<cookies, storage, expired, retired, nextId, asked, latest,
                   lost, out, writer, acts, expiries>>

\* handleSession.  The nonce is the sign-in's own: PKCE ties code to verifier.
PostSession(t) ==
    LET tokens == tab[t].tokens IN
    /\ tab[t].kind = "posting"
    /\ IF Valid(tokens.id) /\ tokens.id.user \in Allowed
       THEN /\ Show(t, Answered(tab[t].via, tab[t].rd, CarryForward(tokens)))
            /\ UNCHANGED lost
       ELSE /\ Show(t, AfterFailure(tab[t].via, tab[t].rd))
            /\ lost' = TRUE
    /\ UNCHANGED <<cookies, storage, expired, retired, nextId, asked, latest,
                   out, writer, acts, expiries>>

\* The answer sets the cookies; the callback forgets its sign-in; on to rd.
Finish(t) ==
    /\ tab[t].kind = "answered"
    /\ cookies' = Written(tab[t].tokens)
    /\ storage' = IF tab[t].via = "callback" THEN Stored(t, None) ELSE storage
    /\ writer' = IF Valid(tab[t].tokens.id) THEN {t} ELSE Nobody
    /\ Show(t, Loading(tab[t].rd))
    /\ UNCHANGED <<expired, retired, nextId, asked, latest, lost, out, acts,
                   expiries>>

\* The tokens that scripts hold, or were handed and will write.
Underway ==
    UNION {{tab[t].tokens.id.n, tab[t].tokens.refresh.n} :
             t \in {u \in Tabs : tab[u].kind \in {"posting", "answered"}}}

\* handleSignOut.
SignOut(t) ==
    /\ acts < MaxActs
    /\ tab[t].kind \in Rest
    /\ cookies' = Cleared
    /\ Show(t, Loading(Home))
    /\ asked' = [asked EXCEPT ![t] = Home]
    /\ out' = [at |-> nextId, underway |-> Underway]
    /\ writer' = Nobody
    /\ acts' = acts + 1
    /\ UNCHANGED <<storage, expired, retired, nextId, latest, lost,
                   expiries>>

Expire ==
    /\ expiries < MaxExpiries
    /\ expired # 1..nextId - 1
    /\ expired' = 1..nextId - 1
    /\ writer' = Nobody
    /\ expiries' = expiries + 1
    /\ UNCHANGED <<cookies, storage, tab, retired, nextId, asked, latest,
                   lost, out, acts>>

\* The browser drops the id_token cookie and keeps the other.
LoseIdToken ==
    /\ expiries < MaxExpiries
    /\ cookies.id # None
    /\ cookies' = [cookies EXCEPT !.id = None]
    /\ writer' = Nobody
    /\ expiries' = expiries + 1
    /\ UNCHANGED <<storage, tab, expired, retired, nextId, asked, latest,
                   lost, out, acts>>

Script(t) == \/ Verify(t) \/ AuthorizeGet(t) \/ Start(t) \/ IdpAnswers(t)
             \/ Callback(t) \/ Refresh(t) \/ RefreshFails(t)
             \/ PostSession(t) \/ Finish(t)

Next ==
    \/ \E t \in Tabs : \/ \E place \in Places : Visit(t, place)
                       \/ Script(t) \/ AuthorizePost(t)
                       \/ \E signIn \in 1..nextId : GoBack(t, signIn)
                       \/ SignOut(t)
    \/ Expire
    \/ LoseIdToken

Spec == Init /\ [][Next]_vars

\* Pages load, scripts run, and the user goes through with a sign-in and
\* answers the consent page.
FairSpec ==
    Spec /\ \A t \in Tabs : WF_vars(Script(t)) /\ WF_vars(AuthorizePost(t))
-----------------------------------------------------------------------------
\* Types; every page that a sign-in or a refresh returns to is one of the
\* site's paths, so the scripts never navigate elsewhere.
TypeOK ==
    /\ {cookies.id.n, cookies.refresh.n} \subseteq 0..nextId
    /\ \A t \in Tabs :
         /\ storage[t] # None => storage[t].rd \in Paths
         /\ tab[t].kind = "loading" => tab[t].path \in Paths
         /\ tab[t].kind \in {"refresh", "posting", "answered"} => tab[t].rd \in Paths
         /\ tab[t].kind = "signin" => tab[t].rd \in Paths \cup {""}
         /\ asked[t] \in Paths /\ latest[t] \in 0..nextId
    /\ expired \subseteq 1..nextId /\ retired \subseteq 1..nextId
    /\ out.at \in 0..nextId /\ writer \subseteq Tabs
    /\ acts \in 0..MaxActs /\ expiries \in 0..MaxExpiries

\* Sign-ins in different tabs do not disturb each other: the callback of the
\* sign-in a tab began last passes the state check, unless that sign-in was
\* finished before (the user went back to it).
TabsDoNotDisturb ==
    \A t \in Tabs : tab[t].kind = "callback" /\ tab[t].state = latest[t] =>
        StateMatches(t) \/ storage[t] = None

\* With an IdP that always sends a refresh token the two cookies belong to
\* one user, whatever sign-ins and refreshes of other tabs came in between:
\* a later refresh renews the session the browser shows.
OneIdentity ==
    ~OmitsRefresh /\ cookies.id # None /\ cookies.refresh # None =>
        cookies.id.user = cookies.refresh.user

\* With a rotating IdP the refresh cookie is one the IdP still takes, unless
\* a token response is under way in some tab or was lost: answers that
\* arrive out of order never bring a retired refresh token back.
RefreshStaysGood ==
    ~OmitsRefresh /\ cookies.refresh # None /\ cookies.refresh.n \in retired =>
        \/ lost
        \/ \E t \in Tabs : tab[t].kind \in {"posting", "answered"}

\* A sign-out holds: a later session is of tokens issued after it, or of a
\* script that already had its tokens, or their carried-forward refresh token,
\* when the user signed out.  (The code does not order the two: the answer to
\* another tab's session request may write the cookies again.)
SignOutHolds ==
    \A token \in {cookies.id, cookies.refresh} :
        token # None => token.n >= out.at \/ token.n \in out.underway

\* Whoever came for the authorize page gets back to it, whatever detours the
\* session takes, and never ends up on a page of the site instead.
AuthorizeResumed ==
    \A t \in Tabs : asked[t] = Authz =>
        /\ tab[t].kind = "loading" => tab[t].path = Authz
        /\ tab[t].kind # "served"

\* A tab that has just renewed the session is not sent to renew it again, for
\* a page of the site or for an approval, unless something changed the session
\* since.  (Two users who approve in two tabs of one browser do that to each
\* other, possibly without end: each sign-in undoes the other's.)
OwnSessionSticks ==
    \A t \in writer : tab[t].kind \notin {"signin", "refresh"}

\* The bound on identifiers stops the sign-ins.
Exhausted == nextId > MaxIds

\* Every page load ends, at a page, at the client, or at an error the user can
\* see: nothing goes in circles without a new sign-in or refresh each time.
PagesSettle ==
    \A t \in Tabs : tab[t].kind \notin Rest ~> tab[t].kind \in Rest \/ Exhausted

\* README: after sign-in the callback goes to the original URL.
ReturnsWhereAsked ==
    \A t \in Tabs : tab[t].kind = "served" => tab[t].path = asked[t]
=============================================================================
