---------------------------- MODULE BrowserProofs ----------------------------
(***************************************************************************)
(* Theorems about BrowserSession, for any tabs, users, allowlist and site, *)
(* for every kind of identity provider and any bounds.                     *)
(***************************************************************************)
EXTENDS BrowserSession, TLAPS

USE BrowserAssumption

-----------------------------------------------------------------------------
(* Types.                                                                  *)

\* Tokens and sign-ins are numbered below nextId.
Tokens(next) == [user : Users, n : 1..next - 1]
AnyToken(next) == {None} \cup Tokens(next)

PageOK(page, next) ==
    /\ page.kind \in Rest \cup {"loading", "signin", "refresh", "consent",
                                "idp", "callback", "posting", "answered"}
    /\ page.kind = "loading" => page.path \in Paths
    /\ page.kind = "signin" => page.rd \in Paths \cup {""}
    /\ page.kind \in {"refresh", "posting", "answered"} => page.rd \in Paths
    /\ page.kind = "consent" => Authz \in Paths
    /\ page.kind = "idp" => page.signIn \in 1..next - 1
    /\ page.kind = "callback" =>
          page.state \in 1..next - 1 /\ page.user \in Users
    /\ page.kind \in {"posting", "answered"} =>
          page.tokens \in [id : Tokens(next), refresh : AnyToken(next)]

\* What the state looks like between any two steps.
Shapes ==
    /\ cookies \in [id : AnyToken(nextId), refresh : AnyToken(nextId)]
    /\ DOMAIN storage = Tabs /\ DOMAIN tab = Tabs
    /\ asked \in [Tabs -> Paths] /\ latest \in [Tabs -> 0..nextId - 1]
    /\ \A t \in Tabs : PageOK(tab[t], nextId)
    /\ \A t \in Tabs : storage[t] # None =>
          storage[t].rd \in Paths /\ storage[t].n = latest[t]
    /\ nextId \in Nat \ {0}
    /\ expired \subseteq 1..nextId - 1 /\ retired \subseteq 1..nextId - 1
    /\ out.at \in 0..nextId /\ writer \subseteq Tabs
    /\ acts \in 0..MaxActs /\ expiries \in 0..MaxExpiries

LEMMA Shown ==
    ASSUME Shapes, NEW t \in Tabs, NEW page, Show(t, page)
    PROVE  /\ DOMAIN tab' = Tabs /\ tab'[t] = page
           /\ \A u \in Tabs \ {t} : tab'[u] = tab[u]
  BY DEF Shapes, Show

\* What a script or the user does in one tab.
OneTab(t) ==
    \/ \E place \in Places : Visit(t, place)
    \/ Script(t) \/ AuthorizePost(t)
    \/ \E signIn \in 1..nextId : GoBack(t, signIn)
    \/ SignOut(t)

LEMMA GoodPages ==
    ASSUME NEW next
    PROVE  /\ \A kind \in Rest : PageOK(AtRest(kind), next)
           /\ \A path \in Paths : \A user : PageOK([kind |-> "served", path |-> path, user |-> user], next)
           /\ \A path \in Paths :
                 /\ PageOK(Loading(path), next)
                 /\ PageOK(SignInPage(Relative(path)), next)
                 /\ PageOK(RefreshPage(Relative(path)), next)
           /\ \A path : /\ PageOK(SignInPage(OriginalURL(path)), next)
                        /\ PageOK(RefreshPage(OriginalURL(path)), next)
           /\ Authz \in Paths => \A user : PageOK(ConsentPage(user), next)
<1> USE DEF PageOK, Rest
<1>1. \A path : SanitizeRedirect(Relative(path)) = path /\ SanitizeRedirect(OriginalURL(path)) = ""
  BY DEF SanitizeRedirect, OriginalURL, Absolute, Relative
<1>2. \A path \in Paths : HomeIfEmpty(path) \in Paths
  BY DEF HomeIfEmpty, Paths
<1>3. HomeIfEmpty("") \in Paths
  BY DEF HomeIfEmpty, Paths
<1>4. \A kind \in Rest : PageOK(AtRest(kind), next)
  BY DEF AtRest
<1>5. \A path \in Paths : \A user : PageOK([kind |-> "served", path |-> path, user |-> user], next)
  OBVIOUS
<1>6. \A path \in Paths : PageOK(Loading(path), next)
  BY DEF Loading
<1>7. \A path \in Paths : PageOK(SignInPage(Relative(path)), next)
  BY <1>1 DEF SignInPage
<1>8. \A path \in Paths : PageOK(RefreshPage(Relative(path)), next)
  BY <1>1, <1>2 DEF RefreshPage
<1>9. \A path : PageOK(SignInPage(OriginalURL(path)), next)
  BY <1>1 DEF SignInPage
<1>10. \A path : PageOK(RefreshPage(OriginalURL(path)), next)
  BY <1>1, <1>3 DEF RefreshPage
<1>11. Authz \in Paths => \A user : PageOK(ConsentPage(user), next)
  BY DEF ConsentPage
<1> QED BY <1>4, <1>5, <1>6, <1>7, <1>8, <1>9, <1>10, <1>11

\* Numbers only grow, and no faster than by one.
LEMMA NumbersStep ==
    ASSUME nextId \in Nat \ {0}, [Next]_vars
    PROVE  nextId' \in Nat \ {0} /\ nextId' \in {nextId, nextId + 1}
<1>1. CASE nextId' = nextId
  BY <1>1
<1>2. CASE nextId' = nextId + 1
  BY <1>2
<1>3. CASE UNCHANGED vars \/ Expire \/ LoseIdToken
  BY <1>1, <1>3 DEF vars, Expire, LoseIdToken
<1>4. ASSUME NEW t \in Tabs, OneTab(t) PROVE nextId' \in {nextId, nextId + 1}
  <2>1. CASE Start(t) \/ Refresh(t) \/ Callback(t)
    BY <2>1 DEF Start, Refresh, Callback
  <2>2. CASE Verify(t) \/ AuthorizeGet(t) \/ IdpAnswers(t) \/ AuthorizePost(t)
    BY <2>2 DEF Verify, AuthorizeGet, IdpAnswers, AuthorizePost
  <2>3. CASE RefreshFails(t) \/ PostSession(t) \/ Finish(t) \/ SignOut(t)
    BY <2>3 DEF RefreshFails, PostSession, Finish, SignOut
  <2>4. CASE \/ \E place \in Places : Visit(t, place)
            \/ \E signIn \in 1..nextId : GoBack(t, signIn)
    BY <2>4 DEF Visit, GoBack
  <2> QED BY <1>4, <2>1, <2>2, <2>3, <2>4 DEF OneTab, Script
<1> QED BY <1>1, <1>2, <1>3, <1>4 DEF Next, OneTab

LEMMA PageStep ==
    ASSUME Shapes, NEW t \in Tabs, OneTab(t)
    PROVE  \E page : Show(t, page) /\ PageOK(page, nextId')
<1>1. PageOK(tab[t], nextId) /\ nextId \in Nat \ {0}
  BY DEF Shapes
<1>2. Authz \in Paths => /\ PageOK(SignInPage(AuthorizeRd), nextId')
                         /\ PageOK(Detour, nextId')
  BY GoodPages DEF Detour, AuthorizeRd
<1>3. \A via : \A rd \in Paths : PageOK(AfterFailure(via, rd), nextId')
  BY GoodPages DEF AfterFailure, Rest
<1>4. CASE \E place \in Places : Visit(t, place)
  BY <1>4, GoodPages DEF Visit, Paths
<1>5. CASE Verify(t)
  <2>1. tab[t].path \in Paths
    BY <1>1, <1>5 DEF Verify, PageOK
  <2>2. \/ Show(t, SignInPage(OriginalURL(tab[t].path)))
        \/ Show(t, RefreshPage(OriginalURL(tab[t].path)))
        \/ Show(t, AtRest("forbidden"))
        \/ Show(t, [kind |-> "served", path |-> tab[t].path, user |-> cookies.id.user])
    BY <1>5 DEF Verify
  <2> QED BY <2>1, <2>2, GoodPages DEF Rest
<1>6. CASE AuthorizeGet(t)
  <2>1. Authz \in Paths
    BY <1>1, <1>6 DEF AuthorizeGet, PageOK
  <2>2. Show(t, Detour) \/ Show(t, AtRest("forbidden")) \/ Show(t, ConsentPage(cookies.id.user))
    BY <1>6 DEF AuthorizeGet
  <2> QED BY <1>2, <2>1, <2>2, GoodPages DEF Rest
<1>7. CASE AuthorizePost(t)
  <2>1. Authz \in Paths
    BY <1>1, <1>7 DEF AuthorizePost, PageOK
  <2>2. Show(t, Detour) \/ Show(t, AtRest("client")) \/ Show(t, SignInPage(AuthorizeRd))
    BY <1>7 DEF AuthorizePost
  <2> QED BY <1>2, <2>1, <2>2, GoodPages DEF Rest
<1>8. CASE Start(t)
  <2>1. nextId \in 1..(nextId + 1) - 1
    BY <1>1
  <2>2. PageOK([kind |-> "idp", signIn |-> nextId], nextId + 1)
    BY <2>1 DEF PageOK
  <2> QED BY <1>8, <2>2 DEF Start
<1>9. CASE \E signIn \in 1..nextId : GoBack(t, signIn)
  <2>1. PICK signIn \in 1..nextId : GoBack(t, signIn)
    BY <1>9
  <2>2. signIn \in 1..nextId - 1
    <3>1. latest[t] \in 0..nextId - 1
      BY DEF Shapes
    <3>2. 0 < signIn /\ signIn <= latest[t]
      BY <2>1 DEF GoBack
    <3> QED BY <1>1, <3>1, <3>2
  <2>3. PageOK([kind |-> "idp", signIn |-> signIn], nextId)
    BY <2>2 DEF PageOK
  <2> QED BY <2>1, <2>3 DEF GoBack
<1>10. CASE IdpAnswers(t)
  <2>1. tab[t].signIn \in 1..nextId - 1
    BY <1>1, <1>10 DEF IdpAnswers, PageOK
  <2>2. \A u \in Users :
          PageOK([kind |-> "callback", state |-> tab[t].signIn, user |-> u], nextId)
    BY <2>1 DEF PageOK
  <2> QED BY <1>10, <2>2, GoodPages DEF IdpAnswers, Rest
<1>11. ASSUME NEW u \in Users, NEW with, NEW rd \in Paths, NEW via, NEW nonce
       PROVE  PageOK(Posting(via, rd, IssuedTokens(u, with), nonce), nextId + 1)
  <2>1. IssuedTokens(u, with) \in [id : Tokens(nextId + 1), refresh : AnyToken(nextId + 1)]
    BY <1>1 DEF IssuedTokens, Tokens, AnyToken
  <2> QED BY <2>1 DEF PageOK, Posting
<1>12. CASE Callback(t)
  <2>1. tab[t].user \in Users /\ tab[t].state # 0
    BY <1>1, <1>12 DEF Callback, PageOK
  <2>2. StateMatches(t) => storage[t].rd \in Paths
    BY <2>1 DEF StateMatches, Shapes, None
  <2>3. CASE StateMatches(t)
    BY <1>11, <1>12, <2>1, <2>2, <2>3 DEF Callback
  <2>4. CASE ~StateMatches(t)
    BY <1>12, <2>4, GoodPages DEF Callback, Rest
  <2> QED BY <2>3, <2>4
<1>13. CASE Refresh(t)
  <2>1. cookies.refresh.user \in Users
    BY <1>13 DEF Refresh, Shapes, AnyToken, Tokens
  <2>2. tab[t].rd \in Paths
    BY <1>1, <1>13 DEF Refresh, PageOK
  <2> QED BY <1>11, <1>13, <2>1, <2>2 DEF Refresh
<1>14. CASE RefreshFails(t)
  BY <1>1, <1>3, <1>14 DEF RefreshFails, PageOK
<1>15. CASE PostSession(t)
  <2>1. /\ tab[t].rd \in Paths
        /\ tab[t].tokens \in [id : Tokens(nextId), refresh : AnyToken(nextId)]
    BY <1>1, <1>15 DEF PostSession, PageOK
  <2>2. CarryForward(tab[t].tokens) \in [id : Tokens(nextId), refresh : AnyToken(nextId)]
    BY <2>1 DEF CarryForward, Shapes
  <2>3. PageOK(Answered(tab[t].via, tab[t].rd, CarryForward(tab[t].tokens)), nextId)
    BY <2>1, <2>2 DEF PageOK, Answered
  <2> QED BY <1>3, <1>15, <2>1, <2>3 DEF PostSession
<1>16. CASE Finish(t)
  <2>1. tab[t].rd \in Paths
    BY <1>1, <1>16 DEF Finish, PageOK
  <2> QED BY <1>16, <2>1, GoodPages DEF Finish
<1>17. CASE SignOut(t)
  BY <1>17, GoodPages DEF SignOut, Paths
<1> QED
  BY <1>4, <1>5, <1>6, <1>7, <1>8, <1>9, <1>10, <1>12, <1>13, <1>14, <1>15, <1>16, <1>17
     DEF OneTab, Script

LEMMA InitShapes == ASSUME Init PROVE Shapes
<1>1. cookies \in [id : AnyToken(nextId), refresh : AnyToken(nextId)]
  BY DEF Init, AnyToken, Tokens
<1>2. \A t \in Tabs : PageOK(tab[t], nextId)
  BY GoodPages DEF Init, Rest
<1> QED BY <1>1, <1>2 DEF Init, Shapes, Nobody, Paths

LEMMA ShapesStep == ASSUME Shapes, [Next]_vars PROVE Shapes'
<1>1. nextId \in Nat \ {0}
  BY DEF Shapes
<1>2. nextId' \in Nat \ {0} /\ nextId' \in {nextId, nextId + 1}
  BY <1>1, NumbersStep
<1>3. /\ AnyToken(nextId) \subseteq AnyToken(nextId')
      /\ 1..nextId - 1 \subseteq 1..nextId' - 1 /\ 0..nextId - 1 \subseteq 0..nextId' - 1
      /\ 0..nextId \subseteq 0..nextId' /\ None \in AnyToken(nextId')
  <2>1. /\ 1..nextId - 1 \subseteq 1..nextId' - 1 /\ 0..nextId - 1 \subseteq 0..nextId' - 1
        /\ 0..nextId \subseteq 0..nextId'
    <3>1. \A n, m \in Nat : n <= m =>
            1..n - 1 \subseteq 1..m - 1 /\ 0..n - 1 \subseteq 0..m - 1 /\ 0..n \subseteq 0..m
      OBVIOUS
    <3>2. nextId \in Nat /\ nextId' \in Nat /\ nextId <= nextId'
      BY <1>1, <1>2
    <3> QED BY <3>1, <3>2
  <2>2. ASSUME NEW token \in Tokens(nextId) PROVE token \in Tokens(nextId')
    BY <2>1 DEF Tokens
  <2> QED BY <2>1, <2>2 DEF AnyToken
<1>4. ASSUME NEW page, PageOK(page, nextId) PROVE PageOK(page, nextId')
  BY <1>3, <1>4 DEF PageOK, AnyToken, Tokens
<1>5. CASE UNCHANGED vars
  BY <1>5 DEF Shapes, vars
<1>6. CASE Expire
  <2>1. expired' \subseteq 1..nextId' - 1 /\ writer' \subseteq Tabs /\ expiries' \in 0..MaxExpiries
    BY <1>6 DEF Expire, Nobody, Shapes
  <2> QED BY <1>6, <2>1 DEF Expire, Shapes
<1>7. CASE LoseIdToken
  <2>1. /\ cookies' \in [id : AnyToken(nextId), refresh : AnyToken(nextId)]
        /\ writer' \subseteq Tabs /\ expiries' \in 0..MaxExpiries
    BY <1>7, <1>3 DEF LoseIdToken, Nobody, Shapes, AnyToken
  <2> QED BY <1>7, <2>1 DEF LoseIdToken, Shapes
<1>8. ASSUME NEW t \in Tabs, OneTab(t) PROVE Shapes'
  <2>1. DOMAIN tab' = Tabs /\ \A u \in Tabs : PageOK(tab'[u], nextId')
    <3>1. PICK page : Show(t, page) /\ PageOK(page, nextId')
      BY <1>8, PageStep
    <3>2. \A u \in Tabs : PageOK(tab[u], nextId')
      BY <1>4 DEF Shapes
    <3> QED BY <3>1, <3>2, Shown
  <2>2. cookies' \in [id : AnyToken(nextId'), refresh : AnyToken(nextId')]
    <3>1. cookies \in [id : AnyToken(nextId'), refresh : AnyToken(nextId')]
      BY <1>3 DEF Shapes
    <3>2. CASE Finish(t)
      <4>1. tab[t].tokens \in [id : Tokens(nextId), refresh : AnyToken(nextId)]
        BY <3>2 DEF Finish, Shapes, PageOK
      <4> QED BY <1>3, <3>1, <3>2, <4>1 DEF Finish, Written, AnyToken
    <3>3. cookies' \in {cookies, Cleared} \/ Finish(t)
      BY <1>8 DEF OneTab, Script, Visit, Verify, AuthorizeGet, AuthorizePost, Start, GoBack,
         IdpAnswers, Callback, Refresh, RefreshFails, PostSession, Finish, SignOut
    <3> QED BY <1>3, <3>1, <3>2, <3>3 DEF Cleared
  <2>3. /\ DOMAIN storage' = Tabs /\ latest' \in [Tabs -> 0..nextId' - 1]
        /\ \A u \in Tabs : storage'[u] # None =>
              storage'[u].rd \in Paths /\ storage'[u].n = latest'[u]
    <3>1. CASE Start(t)
      <4>1. HomeIfEmpty(tab[t].rd) \in Paths
        BY <3>1 DEF Start, Shapes, PageOK, HomeIfEmpty, Paths
      <4>2. latest' \in [Tabs -> 0..nextId' - 1]
        BY <1>1, <1>3, <3>1 DEF Start, Shapes
      <4> QED BY <3>1, <4>1, <4>2 DEF Start, Stored, Shapes
    <3>2. CASE Finish(t)
      BY <1>3, <3>2 DEF Finish, Stored, Shapes
    <3>3. UNCHANGED <<storage, latest>> \/ Start(t) \/ Finish(t)
      BY <1>8 DEF OneTab, Script, Visit, Verify, AuthorizeGet, AuthorizePost, GoBack,
         IdpAnswers, Callback, Refresh, RefreshFails, PostSession, SignOut
    <3> QED BY <1>3, <3>1, <3>2, <3>3 DEF Shapes
  <2>4. asked' \in [Tabs -> Paths] /\ acts' \in 0..MaxActs
    <3>1. UNCHANGED <<asked, acts>> \/ \E path \in Paths :
              acts < MaxActs /\ acts' = acts + 1 /\ asked' = [asked EXCEPT ![t] = path]
      <4>1. CASE Script(t) \/ AuthorizePost(t)
        BY <4>1 DEF Script, Verify, AuthorizeGet, AuthorizePost, Start, IdpAnswers,
           Callback, Refresh, RefreshFails, PostSession, Finish
      <4>2. CASE \E place \in Places : Visit(t, place)
        BY <4>2 DEF Visit, Paths
      <4>3. CASE (\E signIn \in 1..nextId : GoBack(t, signIn)) \/ SignOut(t)
        <5>1. Home \in Paths
          BY DEF Paths
        <5> QED BY <4>3, <5>1 DEF GoBack, SignOut
      <4> QED BY <1>8, <4>1, <4>2, <4>3 DEF OneTab
    <3> QED BY <3>1 DEF Shapes
  <2>5. retired' \subseteq 1..nextId' - 1
    <3>1. CASE Refresh(t)
      BY <1>3, <3>1 DEF Refresh, Shapes, AnyToken, Tokens
    <3>2. UNCHANGED retired \/ Refresh(t)
      BY <1>8 DEF OneTab, Script, Visit, Verify, AuthorizeGet, AuthorizePost, Start, GoBack,
         IdpAnswers, Callback, RefreshFails, PostSession, Finish, SignOut
    <3> QED BY <1>3, <3>1, <3>2 DEF Shapes
  <2>6. out'.at \in 0..nextId' /\ writer' \subseteq Tabs /\ UNCHANGED <<expired, expiries>>
    <3>1. out' = out \/ out'.at = nextId
      <4>1. out' = out \/ SignOut(t)
        BY <1>8 DEF OneTab, Script, Visit, Verify, AuthorizeGet, AuthorizePost, Start, GoBack,
           IdpAnswers, Callback, Refresh, RefreshFails, PostSession, Finish
      <4> QED BY <4>1 DEF SignOut
    <3>2. writer' \in {writer, Nobody, {t}} /\ UNCHANGED <<expired, expiries>>
      BY <1>8 DEF OneTab, Script, Visit, Verify, AuthorizeGet, AuthorizePost, Start, GoBack,
         IdpAnswers, Callback, Refresh, RefreshFails, PostSession, Finish, SignOut
    <3> QED BY <1>1, <1>3, <3>1, <3>2 DEF Shapes, Nobody
  <2> QED BY <1>2, <1>3, <2>1, <2>2, <2>3, <2>4, <2>5, <2>6 DEF Shapes
<1> QED BY <1>5, <1>6, <1>7, <1>8 DEF Next, OneTab

\* Every page a sign-in or a refresh returns to is one of the site's paths.
THEOREM BrowserTypes == Spec => []TypeOK
<1>1. Init => Shapes
  BY InitShapes
<1>2. Shapes => TypeOK
  <2> SUFFICES ASSUME Shapes PROVE TypeOK
    OBVIOUS
  <2>1. {cookies.id.n, cookies.refresh.n} \subseteq 0..nextId
    BY DEF Shapes, AnyToken, Tokens, None
  <2>2. ASSUME NEW t \in Tabs
        PROVE  /\ storage[t] # None => storage[t].rd \in Paths
               /\ tab[t].kind = "loading" => tab[t].path \in Paths
               /\ tab[t].kind \in {"refresh", "posting", "answered"} => tab[t].rd \in Paths
               /\ tab[t].kind = "signin" => tab[t].rd \in Paths \cup {""}
               /\ asked[t] \in Paths /\ latest[t] \in 0..nextId
    <3>1. asked[t] \in Paths /\ latest[t] \in 0..nextId - 1 /\ PageOK(tab[t], nextId)
      BY DEF Shapes
    <3>2. latest[t] \in 0..nextId
      BY <3>1 DEF Shapes
    <3>3. storage[t] # None => storage[t].rd \in Paths
      BY DEF Shapes
    <3> QED BY <3>1, <3>2, <3>3 DEF PageOK
  <2>3. expired \subseteq 1..nextId /\ retired \subseteq 1..nextId
    BY DEF Shapes
  <2> QED BY <2>1, <2>2, <2>3 DEF Shapes, TypeOK
<1> QED BY <1>1, <1>2, ShapesStep, PTL DEF Spec

-----------------------------------------------------------------------------
(* Tokens on their way from the identity provider to the cookies.          *)

\* The tabs whose script has its tokens and has not written them yet.
HasTokens(page) == page.kind \in {"posting", "answered"}
InFlight == {t \in Tabs : HasTokens(tab[t])}

\* A step either brings tab t new tokens, ...
Issue(t) ==
    /\ ~HasTokens(tab[t])
    /\ \E via, rd, nonce, user : \E with \in BOOLEAN :
          /\ with \/ OmitsRefresh
          /\ Show(t, Posting(via, rd, IssuedTokens(user, with), nonce))
    /\ retired' \in {retired, retired \cup {cookies.refresh.n}}
    /\ UNCHANGED <<cookies, out>>
\* ... or answers its session request, ...
Answer(t) ==
    /\ HasTokens(tab[t]) /\ tab[t].tokens.id.user \in Allowed
    /\ Show(t, Answered(tab[t].via, tab[t].rd, CarryForward(tab[t].tokens)))
    /\ UNCHANGED <<cookies, retired, lost, out>>
\* ... or writes them (Finish), or at most drops tokens, of a tab or of the
\* cookies.
Quiet ==
    /\ \A t \in Tabs : HasTokens(tab'[t]) => tab'[t] = tab[t]
    /\ lost' \/ (\A t \in Tabs : HasTokens(tab[t]) => tab'[t] = tab[t])
    /\ lost => lost'
    /\ cookies' \in {cookies, Cleared, [cookies EXCEPT !.id = None]}
    /\ UNCHANGED retired
    /\ \/ UNCHANGED out
       \/ cookies' = Cleared /\ out' = [at |-> nextId, underway |-> Underway]

LEMMA TokensStep ==
    ASSUME Shapes, [Next]_vars
    PROVE  Quiet \/ \E t \in Tabs : Issue(t) \/ Answer(t) \/ Finish(t)
<1>1. CASE UNCHANGED vars
  BY <1>1 DEF vars, Quiet
<1>2. CASE Expire \/ LoseIdToken
  BY <1>2 DEF Expire, LoseIdToken, Quiet
<1>3. ASSUME NEW t \in Tabs, OneTab(t)
      PROVE  Quiet \/ Issue(t) \/ Answer(t) \/ Finish(t)
  <2>1. PageOK(tab[t], nextId)
    BY DEF Shapes
  <2>2. ASSUME NEW page, Show(t, page), ~HasTokens(page)
        PROVE  /\ \A u \in Tabs : HasTokens(tab'[u]) => tab'[u] = tab[u]
               /\ ~HasTokens(tab[t]) =>
                     \A u \in Tabs : HasTokens(tab[u]) => tab'[u] = tab[u]
    BY <2>2, Shown
  <2>3. /\ \A kind \in Rest : ~HasTokens(AtRest(kind))
        /\ \A path : ~HasTokens(Loading(path))
        /\ \A rd : ~HasTokens(SignInPage(rd)) /\ ~HasTokens(RefreshPage(rd))
        /\ \A user : ~HasTokens(ConsentPage(user))
    BY DEF HasTokens, AtRest, Loading, SignInPage, RefreshPage, ConsentPage, Rest
  <2>4. ~HasTokens(Detour) /\ \A via, rd : ~HasTokens(AfterFailure(via, rd))
    BY <2>3 DEF Detour, AfterFailure, Rest
  <2>5. CASE \E place \in Places : Visit(t, place)
    <3>1. PICK place \in Places : Visit(t, place)
      BY <2>5
    <3>2. lost' = (lost \/ HasTokens(tab[t]))
      BY <3>1 DEF Visit, HasTokens
    <3>3. Show(t, Loading(place)) /\ UNCHANGED <<cookies, retired, out>>
      BY <3>1 DEF Visit
    <3> QED BY <2>2, <2>3, <3>2, <3>3 DEF Quiet
  <2>6. CASE Verify(t)
    <3>1. ~HasTokens(tab[t]) /\ cookies' \in {cookies, Cleared} /\ UNCHANGED <<retired, lost, out>>
      BY <2>6 DEF Verify, HasTokens
    <3>2. \E page : Show(t, page) /\ ~HasTokens(page)
      <4>1. ~HasTokens([kind |-> "served", path |-> tab[t].path, user |-> cookies.id.user])
        BY DEF HasTokens
      <4> QED BY <2>3, <2>6, <4>1 DEF Verify, Rest
    <3> QED BY <2>2, <3>1, <3>2 DEF Quiet
  <2>7. CASE AuthorizeGet(t) \/ AuthorizePost(t)
    <3>1. ~HasTokens(tab[t]) /\ UNCHANGED <<cookies, retired, lost, out>>
      BY <2>7 DEF AuthorizeGet, AuthorizePost, HasTokens
    <3>2. \E page : Show(t, page) /\ ~HasTokens(page)
      BY <2>3, <2>4, <2>7 DEF AuthorizeGet, AuthorizePost, Rest
    <3> QED BY <2>2, <3>1, <3>2 DEF Quiet
  <2>8. CASE Start(t) \/ IdpAnswers(t) \/ \E signIn \in 1..nextId : GoBack(t, signIn)
    <3>1. ~HasTokens(tab[t]) /\ UNCHANGED <<cookies, retired, lost, out>>
      BY <2>8 DEF Start, IdpAnswers, GoBack, HasTokens, Rest
    <3>2. \E page : Show(t, page) /\ ~HasTokens(page)
      <4>1. /\ \A signIn : ~HasTokens([kind |-> "idp", signIn |-> signIn])
            /\ \A n, u : ~HasTokens([kind |-> "callback", state |-> n, user |-> u])
        BY DEF HasTokens
      <4> QED BY <2>3, <2>8, <4>1 DEF Start, IdpAnswers, GoBack, Rest
    <3> QED BY <2>2, <3>1, <3>2 DEF Quiet
  <2>9. CASE Callback(t)
    <3>1. ~HasTokens(tab[t])
      BY <2>9 DEF Callback, HasTokens
    <3>2. CASE StateMatches(t)
      BY <2>9, <3>1, <3>2 DEF Callback, Issue
    <3>3. CASE ~StateMatches(t)
      <4>1. Show(t, AtRest("failed")) /\ UNCHANGED <<cookies, retired, lost, out>>
        BY <2>9, <3>3 DEF Callback
      <4> QED BY <2>2, <2>3, <3>1, <4>1 DEF Quiet, Rest
    <3> QED BY <3>2, <3>3
  <2>10. CASE Refresh(t)
    <3>1. ~HasTokens(tab[t])
      BY <2>10 DEF Refresh, HasTokens
    <3> QED BY <2>10, <3>1 DEF Refresh, Issue
  <2>11. CASE RefreshFails(t)
    <3>1. ~HasTokens(tab[t]) /\ UNCHANGED <<cookies, retired, lost, out>>
      BY <2>11 DEF RefreshFails, HasTokens
    <3> QED BY <2>2, <2>4, <2>11, <3>1 DEF RefreshFails, Quiet
  <2>12. CASE PostSession(t)
    <3>1. UNCHANGED <<cookies, retired, out>> /\ HasTokens(tab[t])
      BY <2>12 DEF PostSession, HasTokens
    <3>2. CASE Valid(tab[t].tokens.id) /\ tab[t].tokens.id.user \in Allowed
      BY <2>12, <3>1, <3>2 DEF PostSession, Answer
    <3>3. CASE ~(Valid(tab[t].tokens.id) /\ tab[t].tokens.id.user \in Allowed)
      <4>1. lost' = TRUE /\ Show(t, AfterFailure(tab[t].via, tab[t].rd))
        BY <2>12, <3>3 DEF PostSession
      <4> QED BY <2>2, <2>4, <3>1, <4>1 DEF Quiet
    <3> QED BY <3>2, <3>3
  <2>13. CASE SignOut(t)
    <3>1. /\ ~HasTokens(tab[t]) /\ UNCHANGED <<retired, lost>>
          /\ cookies' = Cleared /\ out' = [at |-> nextId, underway |-> Underway]
          /\ Show(t, Loading(Home))
      BY <2>13 DEF SignOut, HasTokens, Rest
    <3> QED BY <2>2, <2>3, <3>1 DEF Quiet
  <2> QED
    BY <1>3, <2>5, <2>6, <2>7, <2>8, <2>9, <2>10, <2>11, <2>12, <2>13 DEF OneTab, Script
<1> QED BY <1>1, <1>2, <1>3 DEF Next, OneTab

LEMMA ShapesInvariant == Spec => []Shapes
<1>1. Init => Shapes
  BY InitShapes
<1> QED BY <1>1, ShapesStep, PTL DEF Spec

-----------------------------------------------------------------------------
(* One session, one user.                                                  *)

\* An identity provider that sends both tokens sends them for one user.
PairsUnderway ==
    ~OmitsRefresh => \A t \in InFlight :
        /\ tab[t].tokens.refresh # None
        /\ tab[t].tokens.id.user = tab[t].tokens.refresh.user

\* What a script holds is not changed by other tabs, nor by carrying a refresh
\* token forward when it has one.
LEMMA CarriedForward ==
    ASSUME NEW tokens, tokens.refresh # None
    PROVE  CarryForward(tokens) = tokens
  BY DEF CarryForward

LEMMA PairsStep ==
    ASSUME Shapes, PairsUnderway, OneIdentity, [Next]_vars
    PROVE  PairsUnderway' /\ OneIdentity'
<1> SUFFICES ASSUME ~OmitsRefresh PROVE PairsUnderway' /\ OneIdentity'
  BY DEF PairsUnderway, OneIdentity
<1> USE DEF InFlight, PairsUnderway, OneIdentity
<1>1. CASE Quiet
  BY <1>1 DEF Quiet, Shapes, Cleared
<1>2. ASSUME NEW t \in Tabs, Issue(t) PROVE PairsUnderway' /\ OneIdentity'
  <2>1. PICK via, rd, nonce, user : Show(t, Posting(via, rd, IssuedTokens(user, TRUE), nonce))
    BY <1>2 DEF Issue
  <2>2. nextId # 0
    BY DEF Shapes
  <2>3. LET tokens == tab'[t].tokens
        IN  tokens.refresh # None /\ tokens.id.user = tokens.refresh.user
    BY <2>1, <2>2, Shown DEF Posting, IssuedTokens, None
  <2> QED BY <1>2, <2>1, <2>3, Shown DEF Issue
<1>3. ASSUME NEW t \in Tabs, Answer(t) PROVE PairsUnderway' /\ OneIdentity'
  <2>1. tab'[t].tokens = tab[t].tokens
    BY <1>3, CarriedForward, Shown DEF Answer, Answered
  <2> QED BY <1>3, <2>1, Shown DEF Answer
<1>4. ASSUME NEW t \in Tabs, Finish(t) PROVE PairsUnderway' /\ OneIdentity'
  <2>1. tab[t].tokens.refresh # None /\ tab[t].tokens.id.user = tab[t].tokens.refresh.user
    BY <1>4 DEF Finish, HasTokens
  <2>2. cookies'.id.user = cookies'.refresh.user
    BY <1>4, <2>1 DEF Finish, Written
  <2> QED BY <1>4, <2>2, Shown DEF Finish, Loading, HasTokens
<1> QED BY <1>1, <1>2, <1>3, <1>4, TokensStep

\* With an IdP that always sends a refresh token, the two cookies always belong
\* to one user.
THEOREM OneIdentityHolds == Spec => []OneIdentity
<1>1. Init => PairsUnderway /\ OneIdentity
  BY DEF Init, PairsUnderway, OneIdentity, InFlight, HasTokens, AtRest
<1>2. Shapes /\ PairsUnderway /\ OneIdentity /\ [Next]_vars => PairsUnderway' /\ OneIdentity'
  BY PairsStep
<1> QED BY <1>1, <1>2, ShapesInvariant, PTL DEF Spec

-----------------------------------------------------------------------------
(* The refresh cookie stays good.                                          *)

\* The refresh tokens under way are all different, not in the cookies yet,
\* and not used.
FreshUnderway ==
    ~OmitsRefresh => \A t \in InFlight :
        /\ tab[t].tokens.refresh.n \notin retired
        /\ tab[t].tokens.refresh.n # cookies.refresh.n
        /\ \A u \in InFlight \ {t} :
              tab[u].tokens.refresh.n # tab[t].tokens.refresh.n

LEMMA FreshStep ==
    ASSUME Shapes, PairsUnderway, FreshUnderway, [Next]_vars
    PROVE  FreshUnderway'
<1> SUFFICES ASSUME ~OmitsRefresh PROVE FreshUnderway'
  BY DEF FreshUnderway
<1> USE DEF InFlight, FreshUnderway
<1>1. \A t \in InFlight :
          /\ tab[t].tokens.refresh # None
          /\ tab[t].tokens.refresh.n \in 1..nextId - 1
  BY DEF PairsUnderway, Shapes, PageOK, HasTokens, AnyToken, Tokens
<1>2. CASE Quiet
  <2>1. cookies'.refresh \in {cookies.refresh, None}
    BY <1>2 DEF Quiet, Cleared, Shapes
  <2>2. 0 \notin 1..nextId - 1
    OBVIOUS
  <2> QED BY <1>1, <1>2, <2>1, <2>2 DEF Quiet, None
<1>3. ASSUME NEW t \in Tabs, Issue(t) PROVE FreshUnderway'
  <2>1. PICK via, rd, nonce, user : Show(t, Posting(via, rd, IssuedTokens(user, TRUE), nonce))
    BY <1>3 DEF Issue
  <2>2. tab'[t].tokens.refresh.n = nextId
    BY <2>1, Shown DEF Posting, IssuedTokens
  <2>3. nextId \notin retired' /\ nextId # cookies.refresh.n
    <3>1. cookies.refresh.n \in 0..nextId - 1 /\ retired \subseteq 1..nextId - 1 /\ nextId \in Nat \ {0}
      BY DEF Shapes, AnyToken, Tokens, None
    <3> QED BY <1>3, <3>1 DEF Issue
  <2>4. \A u \in InFlight : tab[u].tokens.refresh.n # nextId
    BY <1>1 DEF Shapes
  <2>5. \A u \in InFlight : tab[u].tokens.refresh.n \notin retired'
    BY <1>3 DEF Issue
  <2> QED BY <1>3, <2>1, <2>2, <2>3, <2>4, <2>5, Shown DEF Issue
<1>4. ASSUME NEW t \in Tabs, Answer(t) PROVE FreshUnderway'
  <2>1. tab'[t].tokens = tab[t].tokens
    BY <1>1, <1>4, CarriedForward, Shown DEF Answer, Answered
  <2> QED BY <1>4, <2>1, Shown DEF Answer
<1>5. ASSUME NEW t \in Tabs, Finish(t) PROVE FreshUnderway'
  <2>1. HasTokens(tab[t]) /\ ~HasTokens(Loading(tab[t].rd)) /\ UNCHANGED retired
    BY <1>5 DEF Finish, HasTokens, Loading
  <2>2. cookies'.refresh = tab[t].tokens.refresh
    BY <1>1, <1>5, <2>1 DEF Finish, Written
  <2> QED BY <1>5, <2>1, <2>2, Shown DEF Finish
<1> QED BY <1>2, <1>3, <1>4, <1>5, TokensStep

LEMMA StaysGoodStep ==
    ASSUME Shapes, PairsUnderway, FreshUnderway, RefreshStaysGood, [Next]_vars
    PROVE  RefreshStaysGood'
<1> SUFFICES ASSUME ~OmitsRefresh, cookies'.refresh # None, cookies'.refresh.n \in retired', ~lost'
      PROVE  InFlight' # {}
  BY DEF RefreshStaysGood, InFlight, HasTokens
<1>1. CASE Quiet
  <2>1. cookies'.refresh = cookies.refresh /\ UNCHANGED retired /\ ~lost
    BY <1>1 DEF Quiet, Shapes, Cleared
  <2>2. InFlight # {}
    BY <2>1 DEF RefreshStaysGood, InFlight, HasTokens
  <2> QED BY <1>1, <2>2 DEF Quiet, InFlight
<1>2. ASSUME NEW t \in Tabs, Issue(t) \/ Answer(t) PROVE InFlight' # {}
  <2>1. PICK page : Show(t, page) /\ page.kind \in {"posting", "answered"}
    <3>1. CASE Issue(t)
      BY <3>1 DEF Issue, Posting
    <3>2. CASE Answer(t)
      BY <3>2 DEF Answer, Answered
    <3> QED BY <1>2, <3>1, <3>2
  <2> QED BY <2>1, Shown DEF InFlight, HasTokens
<1>3. ASSUME NEW t \in Tabs, Finish(t) PROVE FALSE
  <2>1. t \in InFlight /\ UNCHANGED retired
    BY <1>3 DEF Finish, InFlight, HasTokens
  <2>2. cookies'.refresh = tab[t].tokens.refresh
    BY <1>3, <2>1 DEF Finish, Written, PairsUnderway
  <2> QED BY <2>1, <2>2 DEF FreshUnderway
<1> QED BY <1>1, <1>2, <1>3, TokensStep

\* Answers that arrive out of order never bring a retired refresh token back.
THEOREM RefreshCookieStaysGood == Spec => []RefreshStaysGood
<1>1. Init => PairsUnderway /\ FreshUnderway /\ OneIdentity /\ RefreshStaysGood
  BY DEF Init, PairsUnderway, FreshUnderway, OneIdentity, RefreshStaysGood, InFlight,
     HasTokens, AtRest
<1>2. Shapes /\ PairsUnderway /\ FreshUnderway /\ OneIdentity /\ RefreshStaysGood /\ [Next]_vars
        => PairsUnderway' /\ FreshUnderway' /\ OneIdentity' /\ RefreshStaysGood'
  BY PairsStep, FreshStep, StaysGoodStep
<1> QED BY <1>1, <1>2, ShapesInvariant, PTL DEF Spec

-----------------------------------------------------------------------------
(* Signing out.                                                            *)

\* A token was issued since the sign-out or was under way then.
SinceSignOut(token) == token # None => token.n >= out.at \/ token.n \in out.underway

UnderwaySinceSignOut ==
    \A t \in InFlight :
        SinceSignOut(tab[t].tokens.id) /\ SinceSignOut(tab[t].tokens.refresh)

LEMMA SignOutStep ==
    ASSUME Shapes, UnderwaySinceSignOut, SignOutHolds, [Next]_vars
    PROVE  UnderwaySinceSignOut' /\ SignOutHolds'
<1>1. SinceSignOut(cookies.id) /\ SinceSignOut(cookies.refresh)
  BY DEF SignOutHolds, SinceSignOut
<1>2. SUFFICES /\ UnderwaySinceSignOut'
               /\ SinceSignOut(cookies.id)' /\ SinceSignOut(cookies.refresh)'
  BY DEF SignOutHolds, SinceSignOut
<1> USE DEF InFlight, UnderwaySinceSignOut
<1>3. UNCHANGED out => \A token : SinceSignOut(token) => SinceSignOut(token)'
  BY DEF SinceSignOut
<1>4. CASE Quiet /\ UNCHANGED out
  <2>1. {cookies'.id, cookies'.refresh} \subseteq {cookies.id, cookies.refresh, None}
    BY <1>4 DEF Quiet, Shapes, Cleared
  <2>2. SinceSignOut(cookies.id)' /\ SinceSignOut(cookies.refresh)'
    BY <1>1, <1>4, <2>1 DEF SinceSignOut
  <2>3. UnderwaySinceSignOut'
    BY <1>4 DEF Quiet, SinceSignOut
  <2> QED BY <2>2, <2>3
<1>5. CASE Quiet /\ cookies' = Cleared /\ out' = [at |-> nextId, underway |-> Underway]
  <2>1. \A t \in InFlight : {tab[t].tokens.id.n, tab[t].tokens.refresh.n} \subseteq Underway
    BY DEF Underway, HasTokens
  <2> QED BY <1>5, <2>1 DEF Quiet, Cleared, SinceSignOut
<1>6. ASSUME NEW t \in Tabs, Issue(t)
      PROVE  UnderwaySinceSignOut' /\ SinceSignOut(cookies.id)' /\ SinceSignOut(cookies.refresh)'
  <2>1. PICK via, rd, nonce, user, with : Show(t, Posting(via, rd, IssuedTokens(user, with), nonce))
    BY <1>6 DEF Issue
  <2>2. /\ tab'[t].tokens.id.n = nextId
        /\ tab'[t].tokens.refresh = None \/ tab'[t].tokens.refresh.n = nextId
    BY <2>1, Shown DEF Posting, IssuedTokens
  <2>3. nextId >= out.at
    BY DEF Shapes
  <2> QED BY <1>1, <1>6, <2>1, <2>2, <2>3, Shown DEF Issue, SinceSignOut
<1>7. ASSUME NEW t \in Tabs, Answer(t)
      PROVE  UnderwaySinceSignOut' /\ SinceSignOut(cookies.id)' /\ SinceSignOut(cookies.refresh)'
  <2>1. tab'[t].tokens = CarryForward(tab[t].tokens)
    BY <1>7, Shown DEF Answer, Answered
  <2>2. /\ tab[t].tokens.id = CarryForward(tab[t].tokens).id
        /\ CarryForward(tab[t].tokens).refresh \in {tab[t].tokens.refresh, cookies.refresh}
    BY <1>7 DEF Answer, CarryForward, HasTokens, Shapes, PageOK
  <2> QED BY <1>1, <1>7, <2>1, <2>2, Shown DEF Answer, SinceSignOut
<1>8. ASSUME NEW t \in Tabs, Finish(t)
      PROVE  UnderwaySinceSignOut' /\ SinceSignOut(cookies.id)' /\ SinceSignOut(cookies.refresh)'
  <2>1. HasTokens(tab[t]) /\ ~HasTokens(Loading(tab[t].rd)) /\ UNCHANGED out
    BY <1>8 DEF Finish, HasTokens, Loading
  <2>2. /\ cookies'.id = tab[t].tokens.id
        /\ cookies'.refresh \in {tab[t].tokens.refresh, cookies.refresh}
    BY <1>8 DEF Finish, Written
  <2> QED BY <1>1, <1>8, <2>1, <2>2, Shown DEF Finish, SinceSignOut
<1> QED BY <1>4, <1>5, <1>6, <1>7, <1>8, TokensStep DEF Quiet

\* A later session is of tokens issued after the sign-out or under way then.
THEOREM SignOutIsKept == Spec => []SignOutHolds
<1>1. Init => UnderwaySinceSignOut /\ SignOutHolds
  BY DEF Init, UnderwaySinceSignOut, SignOutHolds, InFlight, HasTokens, AtRest
<1>2. Shapes /\ UnderwaySinceSignOut /\ SignOutHolds /\ [Next]_vars
        => UnderwaySinceSignOut' /\ SignOutHolds'
  BY SignOutStep
<1> QED BY <1>1, <1>2, ShapesInvariant, PTL DEF Spec

-----------------------------------------------------------------------------
(* Tabs, and the way back to the authorize page.                           *)

\* The callback of the sign-in a tab began last passes the state check, unless
\* that sign-in was finished before: storage is per tab.
THEOREM TabsKeepTheirSignIns == Spec => []TabsDoNotDisturb
<1>1. Shapes => TabsDoNotDisturb
  BY DEF Shapes, TabsDoNotDisturb, StateMatches
<1> QED BY <1>1, ShapesInvariant, PTL

\* A page on the way to the authorize page, in a tab with the stored sign-in.
Resumes(page, signIn) ==
    /\ page.kind = "loading" => page.path = Authz
    /\ page.kind # "served"
    /\ page.kind \in {"signin", "refresh", "posting", "answered"} => page.rd = Authz
    /\ page.kind \in {"idp", "callback"} => signIn.rd = Authz

AuthorizeRemembered == \A t \in Tabs : asked[t] = Authz => Resumes(tab[t], storage[t])

\* What the user goes for anew, the tab forgets the authorize page for.
LEMMA AskedStep ==
    ASSUME Shapes, NEW t \in Tabs, OneTab(t)
    PROVE  /\ \/ \E place \in Places : Visit(t, place)
              \/ Script(t) \/ AuthorizePost(t)
              \/ asked'[t] = Home
           /\ Script(t) \/ AuthorizePost(t) => UNCHANGED asked
           /\ \A u \in Tabs \ {t} : asked'[u] = asked[u] /\ storage'[u] = storage[u]
<1>1. DOMAIN asked = Tabs /\ DOMAIN storage = Tabs
  BY DEF Shapes
<1>2. CASE Script(t) \/ AuthorizePost(t)
  <2>1. UNCHANGED asked
    BY <1>2 DEF Script, Verify, AuthorizeGet, AuthorizePost, Start, IdpAnswers, Callback,
       Refresh, RefreshFails, PostSession, Finish
  <2>2. \A u \in Tabs \ {t} : storage'[u] = storage[u]
    BY <1>1, <1>2 DEF Script, Verify, AuthorizeGet, AuthorizePost, Start, IdpAnswers, Callback,
       Refresh, RefreshFails, PostSession, Finish, Stored
  <2> QED BY <1>2, <2>1, <2>2
<1>3. CASE \E place \in Places : Visit(t, place)
  <2>1. UNCHANGED storage /\ \A u \in Tabs \ {t} : asked'[u] = asked[u]
    BY <1>1, <1>3 DEF Visit
  <2>2. Script(t) \/ AuthorizePost(t) => UNCHANGED asked
    BY DEF Script, Verify, AuthorizeGet, AuthorizePost, Start, IdpAnswers, Callback,
       Refresh, RefreshFails, PostSession, Finish
  <2> QED BY <1>3, <2>1, <2>2
<1>4. CASE (\E signIn \in 1..nextId : GoBack(t, signIn)) \/ SignOut(t)
  <2>1. UNCHANGED storage /\ asked' = [asked EXCEPT ![t] = Home]
    BY <1>4 DEF GoBack, SignOut
  <2>2. Script(t) \/ AuthorizePost(t) => UNCHANGED asked
    BY DEF Script, Verify, AuthorizeGet, AuthorizePost, Start, IdpAnswers, Callback,
       Refresh, RefreshFails, PostSession, Finish
  <2> QED BY <1>1, <2>1, <2>2
<1> QED BY <1>2, <1>3, <1>4 DEF OneTab

LEMMA ResumesStep ==
    ASSUME Shapes, NEW t \in Tabs, asked[t] = Authz, Resumes(tab[t], storage[t]),
           Script(t) \/ AuthorizePost(t)
    PROVE  Resumes(tab'[t], storage'[t])
<1>1. SUFFICES \E page : Show(t, page) /\ Resumes(page, storage'[t])
  BY Shown
<1>2. /\ \A kind \in Rest \ {"served"} : \A signIn : Resumes(AtRest(kind), signIn)
      /\ \A user, signIn : Resumes(ConsentPage(user), signIn)
      /\ \A signIn : Resumes(Loading(Authz), signIn)
      /\ \A signIn : Resumes(SignInPage(AuthorizeRd), signIn) /\ Resumes(Detour, signIn)
  <2>1. HomeIfEmpty(Authz) = Authz
    BY DEF HomeIfEmpty, Authz
  <2>2. \A signIn : Resumes(SignInPage(AuthorizeRd), signIn) /\ Resumes(RefreshPage(AuthorizeRd), signIn)
    BY <2>1 DEF Resumes, SignInPage, RefreshPage, AuthorizeRd, Relative, SanitizeRedirect
  <2> QED BY <2>2 DEF Resumes, AtRest, ConsentPage, Loading, Detour, Rest
<1>3. \A via, signIn : Resumes(AfterFailure(via, Authz), signIn)
  BY <1>2 DEF AfterFailure, AuthorizeRd, Rest
<1>4. CASE Verify(t)
  BY <1>4 DEF Verify, Resumes
<1>5. CASE AuthorizeGet(t) \/ AuthorizePost(t)
  BY <1>2, <1>5 DEF AuthorizeGet, AuthorizePost, Rest
<1>6. CASE Start(t)
  <2>1. tab[t].rd = Authz
    BY <1>6 DEF Start, Resumes
  <2>2. storage'[t].rd = Authz
    BY <1>6, <2>1 DEF Start, Stored, HomeIfEmpty, Authz, Shapes
  <2>3. Resumes([kind |-> "idp", signIn |-> nextId], storage'[t])
    BY <2>2 DEF Resumes
  <2> QED BY <1>6, <2>3 DEF Start
<1>7. CASE IdpAnswers(t)
  <2>1. storage'[t].rd = Authz
    BY <1>7 DEF IdpAnswers, Resumes
  <2>2. \A u : Resumes([kind |-> "callback", state |-> tab[t].signIn, user |-> u], storage'[t])
    BY <2>1 DEF Resumes
  <2> QED BY <1>2, <1>7, <2>2 DEF IdpAnswers, Rest
<1>8. \A via, tokens, nonce, signIn : Resumes(Posting(via, Authz, tokens, nonce), signIn)
  BY DEF Resumes, Posting
<1>9. CASE Callback(t)
  <2>1. storage[t].rd = Authz
    BY <1>9 DEF Callback, Resumes
  <2> QED BY <1>2, <1>8, <1>9, <2>1 DEF Callback, Rest
<1>10. CASE Refresh(t) \/ RefreshFails(t)
  <2>1. tab[t].rd = Authz
    BY <1>10 DEF Refresh, RefreshFails, Resumes
  <2> QED BY <1>3, <1>8, <1>10, <2>1 DEF Refresh, RefreshFails
<1>11. CASE PostSession(t)
  <2>1. tab[t].rd = Authz
    BY <1>11 DEF PostSession, Resumes
  <2>2. \A via, tokens, signIn : Resumes(Answered(via, Authz, tokens), signIn)
    BY DEF Resumes, Answered
  <2> QED BY <1>3, <1>11, <2>1, <2>2 DEF PostSession
<1>12. CASE Finish(t)
  <2>1. tab[t].rd = Authz
    BY <1>12 DEF Finish, Resumes
  <2> QED BY <1>2, <1>12, <2>1 DEF Finish
<1> QED BY <1>4, <1>5, <1>6, <1>7, <1>9, <1>10, <1>11, <1>12 DEF Script

\* Whoever came for the authorize page gets back to it.
THEOREM AuthorizeIsResumed == Spec => []AuthorizeResumed
<1>1. Init => AuthorizeRemembered
  BY DEF Init, AuthorizeRemembered, Home, Authz
<1>2. Shapes /\ AuthorizeRemembered /\ [Next]_vars => AuthorizeRemembered'
  <2> SUFFICES ASSUME Shapes, AuthorizeRemembered, [Next]_vars PROVE AuthorizeRemembered'
    OBVIOUS
  <2>1. CASE UNCHANGED vars \/ Expire \/ LoseIdToken
    BY <2>1 DEF vars, Expire, LoseIdToken, AuthorizeRemembered
  <2>2. ASSUME NEW t \in Tabs, OneTab(t) PROVE AuthorizeRemembered'
    <3>1. PICK page : Show(t, page)
      BY <2>2, PageStep
    <3>2. SUFFICES asked'[t] = Authz => Resumes(tab'[t], storage'[t])
      BY <2>2, <3>1, Shown, AskedStep DEF AuthorizeRemembered
    <3>3. CASE \E place \in Places : Visit(t, place)
      <4>1. PICK place \in Places : Visit(t, place)
        BY <3>3
      <4>2. asked'[t] = place /\ tab'[t] = Loading(place)
        BY <4>1, Shown DEF Visit, Shapes
      <4> QED BY <4>2 DEF Loading, Resumes
    <3>4. CASE Script(t) \/ AuthorizePost(t)
      BY <2>2, <3>4, AskedStep, ResumesStep DEF AuthorizeRemembered
    <3>5. CASE asked'[t] = Home
      BY <3>5 DEF Home, Authz
    <3> QED BY <2>2, <3>3, <3>4, <3>5, AskedStep
  <2> QED BY <2>1, <2>2 DEF Next, OneTab
<1>3. AuthorizeRemembered => AuthorizeResumed
  BY DEF AuthorizeRemembered, AuthorizeResumed, Resumes
<1> QED BY <1>1, <1>2, <1>3, ShapesInvariant, PTL DEF Spec

-----------------------------------------------------------------------------
(* A renewed session sticks.                                               *)

\* Only tokens of admitted users are answered.
AnsweredAllowed ==
    \A t \in Tabs : tab[t].kind = "answered" => tab[t].tokens.id.user \in Allowed

LEMMA AnsweredStep ==
    ASSUME Shapes, AnsweredAllowed, [Next]_vars
    PROVE  AnsweredAllowed'
<1> USE DEF AnsweredAllowed
<1>1. CASE Quiet
  BY <1>1 DEF Quiet, HasTokens
<1>2. ASSUME NEW t \in Tabs, Issue(t) PROVE AnsweredAllowed'
  BY <1>2, Shown DEF Issue, Posting
<1>3. ASSUME NEW t \in Tabs, Answer(t) PROVE AnsweredAllowed'
  <2>1. CarryForward(tab[t].tokens).id = tab[t].tokens.id
    BY <1>3 DEF Answer, HasTokens, CarryForward, Shapes, PageOK
  <2> QED BY <1>3, <2>1, Shown DEF Answer, Answered
<1>4. ASSUME NEW t \in Tabs, Finish(t) PROVE AnsweredAllowed'
  BY <1>4, Shown DEF Finish, Loading
<1> QED BY <1>1, <1>2, <1>3, <1>4, TokensStep

\* The session that a tab wrote is good, its consent page is made for that
\* session's user, and what it posts comes from a sign-in.
Settled(page) ==
    /\ page.kind \notin {"signin", "refresh"}
    /\ page.kind = "consent" => page.user = cookies.id.user
    /\ page.kind = "posting" => page.via = "callback"

WriterGood ==
    \A t \in writer :
        Valid(cookies.id) /\ cookies.id.user \in Allowed /\ Settled(tab[t])

LEMMA SettledStep ==
    ASSUME Shapes, NEW t \in Tabs, Settled(tab[t]), OneTab(t),
           Valid(cookies.id), cookies.id.user \in Allowed, UNCHANGED cookies
    PROVE  Settled(tab'[t])
<1>1. SUFFICES \E page : Show(t, page) /\ Settled(page)
  BY Shown DEF Settled
<1>2. /\ \A kind \in Rest : Settled(AtRest(kind))
      /\ \A path : Settled(Loading(path))
      /\ \A via, rd, tokens : Settled(Answered(via, rd, tokens))
      /\ Settled(ConsentPage(cookies.id.user))
  BY DEF Settled, AtRest, Loading, Answered, ConsentPage, Rest
<1>3. CASE Start(t) \/ Refresh(t) \/ RefreshFails(t)
  BY <1>3 DEF Start, Refresh, RefreshFails, Settled
<1>4. CASE \E place \in Places : Visit(t, place)
  BY <1>2, <1>4 DEF Visit
<1>5. CASE Verify(t)
  <2>1. Settled([kind |-> "served", path |-> tab[t].path, user |-> cookies.id.user])
    BY DEF Settled
  <2> QED BY <1>5, <2>1 DEF Verify, Valid
<1>6. CASE AuthorizeGet(t)
  BY <1>2, <1>6 DEF AuthorizeGet
<1>7. CASE AuthorizePost(t)
  BY <1>2, <1>7 DEF AuthorizePost, Settled, Rest
<1>8. CASE IdpAnswers(t) \/ \E signIn \in 1..nextId : GoBack(t, signIn)
  <2>1. /\ \A signIn : Settled([kind |-> "idp", signIn |-> signIn])
        /\ \A n, u : Settled([kind |-> "callback", state |-> n, user |-> u])
    BY DEF Settled
  <2> QED BY <1>2, <1>8, <2>1 DEF IdpAnswers, GoBack, Rest
<1>9. CASE Callback(t)
  <2>1. \A rd, tokens, nonce : Settled(Posting("callback", rd, tokens, nonce))
    BY DEF Settled, Posting
  <2> QED BY <1>2, <1>9, <2>1 DEF Callback, Rest
<1>10. CASE PostSession(t)
  <2>1. \A rd : AfterFailure("callback", rd) = AtRest("failed")
    BY DEF AfterFailure
  <2>2. tab[t].via = "callback"
    BY <1>10 DEF PostSession, Settled
  <2> QED BY <1>2, <1>10, <2>1, <2>2 DEF PostSession, Rest
<1>11. CASE Finish(t) \/ SignOut(t)
  BY <1>2, <1>11 DEF Finish, SignOut
<1> QED
  BY <1>3, <1>4, <1>5, <1>6, <1>7, <1>8, <1>9, <1>10, <1>11 DEF OneTab, Script

LEMMA WriterStep ==
    ASSUME Shapes, AnsweredAllowed, WriterGood, [Next]_vars
    PROVE  WriterGood'
<1>1. CASE UNCHANGED vars
  BY <1>1 DEF vars, WriterGood, Valid, Settled
<1>2. CASE Expire \/ LoseIdToken
  BY <1>2 DEF Expire, LoseIdToken, Nobody, WriterGood
<1>3. ASSUME NEW t \in Tabs, OneTab(t) PROVE WriterGood'
  <2>1. CASE Finish(t)
    <3>1. tab[t].tokens.id.user \in Allowed /\ cookies'.id = tab[t].tokens.id /\ UNCHANGED expired
      BY <2>1 DEF Finish, AnsweredAllowed, Written
    <3>2. tab'[t] = Loading(tab[t].rd)
      BY <2>1, Shown DEF Finish
    <3> QED BY <2>1, <3>1, <3>2 DEF Finish, Nobody, WriterGood, Settled, Loading, Valid
  <2>2. CASE writer' = Nobody
    BY <2>2 DEF WriterGood, Nobody
  <2>3. Finish(t) \/ writer' = Nobody \/ UNCHANGED <<writer, cookies, expired>>
    BY <1>3 DEF OneTab, Script, Visit, Verify, AuthorizeGet, AuthorizePost, Start, GoBack,
       IdpAnswers, Callback, Refresh, RefreshFails, PostSession, SignOut
  <2>4. CASE UNCHANGED <<writer, cookies, expired>>
    <3>1. PICK page : Show(t, page)
      BY <1>3, PageStep
    <3>2. t \in writer => Settled(tab'[t])
      BY <1>3, <2>4, SettledStep DEF WriterGood
    <3>3. \A u \in writer \ {t} : tab'[u] = tab[u]
      BY <3>1, Shown DEF Shapes
    <3> QED BY <2>4, <3>2, <3>3 DEF WriterGood, Settled, Valid
  <2> QED BY <2>1, <2>2, <2>3, <2>4
<1> QED BY <1>1, <1>2, <1>3 DEF Next, OneTab

\* A tab that has just renewed the session is not sent to renew it again unless
\* something changed the session since.
THEOREM RenewedSessionSticks == Spec => []OwnSessionSticks
<1>1. Init => AnsweredAllowed /\ WriterGood
  BY DEF Init, AnsweredAllowed, WriterGood, Nobody, AtRest
<1>2. Shapes /\ AnsweredAllowed /\ WriterGood /\ [Next]_vars => AnsweredAllowed' /\ WriterGood'
  BY AnsweredStep, WriterStep
<1>3. WriterGood => OwnSessionSticks
  BY DEF WriterGood, OwnSessionSticks, Settled
<1> QED BY <1>1, <1>2, <1>3, ShapesInvariant, PTL DEF Spec
=============================================================================
