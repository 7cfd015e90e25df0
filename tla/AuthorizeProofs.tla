--------------------------- MODULE AuthorizeProofs ---------------------------
(***************************************************************************)
(* Theorems about Authorize, for any tabs, users, clients and redirect     *)
(* URIs, with their proofs.  A code speaks for the subject who approved    *)
(* it, and nothing that goes back to a client leaves the user's machine    *)
(* unencrypted: both follow from what is true of every consent page that   *)
(* the browser shows or can go back to.  A response answers the request    *)
(* the client made, because every page on the way was derived from it and  *)
(* granting a granted scope again changes nothing; for the same reason it  *)
(* asks for supported scopes, each of them once.  And the browser is only  *)
(* sent where the client lists, or listed while the consent lived.         *)
(***************************************************************************)
EXTENDS Authorize, FiniteSetTheorems, TLAPS

\* Where a response may be sent.
SafeUri(u) ==
    /\ u.scheme = "https" \/ (u.scheme = "http" /\ Loopback(u))
    /\ u.fragment \in {NoPart, ""}
    /\ u.userinfo = NoPart \/ \E uris \in Listings : u \in uris

\* What a client's registration or metadata may hold.
Acceptable(u) == ValidateRedirectURI(u) /\ \E uris \in Listings : u \in uris

BlobOK(blob) ==
    /\ blob.req.bind.client \in Clients
    /\ blob.req.bind.sub \in Allowed
    /\ SafeUri(blob.req.bind.redirect)

PageOK(p) ==
    /\ p.kind \in {"loading", "signin", "refresh"} => p.rd.client \in Clients
    /\ p.kind = "consent" => BlobOK(p.blob)
    /\ p.kind = "client" => SafeUri(p.to)

RegisteredOK ==
    /\ DOMAIN registered = Clients
    /\ \A c \in Clients : \A u \in registered[c] : Acceptable(u)

PagesOK == DOMAIN page = Tabs /\ \A t \in Tabs : PageOK(page[t])

HistoryOK ==
    /\ DOMAIN blobs = Tabs
    /\ \A t \in Tabs : \A consent \in blobs[t] : PageOK(consent)

IInv == RegisteredOK /\ PagesOK /\ HistoryOK /\ CodesForApprover

-----------------------------------------------------------------------------
\* ValidateRedirectURI admits only safe URIs.
LEMMA AcceptableIsSafe == ASSUME NEW u, Acceptable(u) PROVE SafeUri(u)
  BY DEF Acceptable, ValidateRedirectURI, SafeUri

\* The relaxed match of a loopback URI never leads to an unsafe one, whatever
\* of the URI differs from the listed one: it checks the scheme, userinfo and
\* fragment of the candidate itself.
LEMMA MatchIsSafe ==
    ASSUME NEW listed, \A w \in listed : Acceptable(w),
           NEW u, MatchRedirectURI(listed, u)
    PROVE  SafeUri(u)
  <1>1. CASE u \in listed
    BY <1>1, AcceptableIsSafe
  <1>2. ASSUME Loopback(u), u.userinfo = NoPart, u.fragment \in {NoPart, ""},
               NEW w \in listed, w.scheme = u.scheme
        PROVE  SafeUri(u)
    BY <1>2 DEF Acceptable, ValidateRedirectURI, SafeUri
  <1>. QED  BY <1>1, <1>2 DEF MatchRedirectURI

LEMMA AcceptedIsValid ==
    ASSUME NEW uris \in Listings PROVE \A u \in Accepted(uris) : Acceptable(u)
  BY DEF Accepted, Acceptable

LEMMA ResolvedIsSafe ==
    ASSUME RegisteredOK, NEW q, q.client \in Clients,
           MatchRedirectURI(registered[q.client], q.redirect)
    PROVE  SafeUri(q.redirect)
  BY MatchIsSafe DEF RegisteredOK

-----------------------------------------------------------------------------
(***************************************************************************)
(* What the tabs show.                                                     *)
(***************************************************************************)
LEMMA ShowPreserves ==
    ASSUME PagesOK, NEW t \in Tabs, NEW p, PageOK(p), Show(t, p)
    PROVE  PagesOK'
  BY DEF PagesOK, Show

LEMMA AnswerPreserves ==
    ASSUME IInv, NEW t \in Tabs, NEW p, PageOK(p), Answer(t, p)
    PROVE  IInv'
  <1>1. PagesOK'
    BY ShowPreserves DEF IInv, Answer
  <1>2. RegisteredOK' /\ HistoryOK' /\ CodesForApprover'
    BY DEF IInv, Answer, RegisteredOK, HistoryOK, CodesForApprover
  <1>. QED  BY <1>1, <1>2 DEF IInv

LEMMA PlainPages ==
    /\ PageOK(Blank)
    /\ PageOK(ErrorPage)
    /\ \A flow : PageOK(BlockedPage(flow))
  BY DEF PageOK, Blank, ErrorPage, BlockedPage

LEMMA RequestPages ==
    ASSUME NEW q, q.client \in Clients, NEW flow
    PROVE  /\ PageOK(Loading(q, flow))
           /\ PageOK(SignInPage(q, flow))
           /\ PageOK(RefreshPage(q, flow))
           /\ PageOK(Detour(q, flow))
  BY DEF PageOK, Loading, SignInPage, RefreshPage, Detour

LEMMA ClientPages ==
    ASSUME NEW u, SafeUri(u), NEW state, NEW error, NEW code, NEW flow
    PROVE  PageOK(ClientPage(u, state, error, code, flow))
  BY DEF PageOK, ClientPage

LEMMA ConsentPages ==
    ASSUME NEW blob, BlobOK(blob), NEW flow
    PROVE  PageOK(ConsentPage(blob, flow))
  BY DEF PageOK, ConsentPage

\* The browser shows what the form leads to, or stays where it is.
LEMMA FollowPreserves ==
    ASSUME PagesOK, NEW t \in Tabs, NEW p, PageOK(p), Follow(t, p)
    PROVE  PagesOK'
  <1>1. CASE Show(t, p)
    BY <1>1, ShowPreserves
  <1>2. CASE Show(t, BlockedPage(page[t].flow))
    BY <1>2, ShowPreserves, PlainPages
  <1>. QED  BY <1>1, <1>2 DEF Follow

-----------------------------------------------------------------------------
(***************************************************************************)
(* The actions.                                                            *)
(***************************************************************************)
LEMMA InitEstablishes == Init => IInv
  <1> SUFFICES ASSUME Init PROVE IInv
    OBVIOUS
  <1>1. RegisteredOK
    BY AcceptedIsValid DEF Init, RegisteredOK
  <1>2. PagesOK
    BY PlainPages DEF Init, PagesOK
  <1>3. HistoryOK /\ CodesForApprover
    BY DEF Init, HistoryOK, CodesForApprover
  <1>. QED  BY <1>1, <1>2, <1>3 DEF IInv

LEMMA BeginPreserves ==
    ASSUME IInv, NEW t \in Tabs, NEW q \in Requests, Begin(t, q)
    PROVE  IInv'
  <1>1. PageOK(Loading(q, q))
    BY AuthorizeAssumption, RequestPages
  <1>2. PagesOK'
    BY <1>1, ShowPreserves DEF IInv, Begin
  <1>3. RegisteredOK' /\ HistoryOK' /\ CodesForApprover'
    BY DEF IInv, Begin, RegisteredOK, HistoryOK, CodesForApprover
  <1>. QED  BY <1>2, <1>3 DEF IInv

\* The answers of GET that render no consent page.
LEMMA GetAnswersPreserve ==
    ASSUME IInv, NEW t \in Tabs,
           \/ GetRefused(t) \/ GetUnknown(t) \/ GetInvalid(t)
           \/ GetDetour(t) \/ GetForbidden(t) \/ GetFails(t)
    PROVE  IInv'
  <1>1. CASE GetRefused(t) \/ GetUnknown(t) \/ GetForbidden(t) \/ GetFails(t)
    BY <1>1, AnswerPreserves, PlainPages DEF GetRefused, GetUnknown, GetForbidden, GetFails
  <1>2. ASSUME page[t].kind = "loading" PROVE page[t].rd.client \in Clients
    BY <1>2 DEF IInv, PagesOK, PageOK
  <1>3. CASE GetInvalid(t)
    <2>1. SafeUri(page[t].rd.redirect)
      BY <1>2, <1>3, ResolvedIsSafe DEF GetInvalid, Resolved, IInv
    <2>. QED  BY <1>3, <2>1, AnswerPreserves, ClientPages DEF GetInvalid
  <1>4. CASE GetDetour(t)
    BY <1>2, <1>4, AnswerPreserves, RequestPages DEF GetDetour, Resolved
  <1>. QED  BY <1>1, <1>3, <1>4

\* The blob names a resolved client's redirect URI and an allowed user.
LEMMA GetConsentPreserves ==
    ASSUME IInv, NEW t \in Tabs, GetConsent(t)
    PROVE  IInv'
  <1>. DEFINE q == page[t].rd
              blob == [req |-> MintAuthReq(nextId, now, "as",
                                           ConsentOf(q, cookies.user)),
                       state |-> q.state]
              consent == ConsentPage(blob, page[t].flow)
  <1>1. q.client \in Clients
    BY DEF IInv, PagesOK, PageOK, GetConsent, Resolved
  <1>2. SafeUri(q.redirect)
    BY <1>1, ResolvedIsSafe DEF GetConsent, Resolved, IInv
  <1>3. BlobOK(blob)
    BY <1>1, <1>2 DEF BlobOK, MintAuthReq, Artifact, ConsentOf, GetConsent
  <1>4. PageOK(consent)
    BY <1>3, ConsentPages
  <1>5. Show(t, consent) /\ blobs' = [blobs EXCEPT ![t] = @ \cup {consent}]
    BY DEF GetConsent
  <1>6. PagesOK'
    BY <1>4, <1>5, ShowPreserves DEF IInv
  <1>7. HistoryOK'
    BY <1>4, <1>5 DEF IInv, HistoryOK
  <1>8. RegisteredOK' /\ CodesForApprover'
    BY DEF IInv, GetConsent, RegisteredOK, CodesForApprover
  <1>. QED  BY <1>6, <1>7, <1>8 DEF IInv

LEMMA ShownBlob ==
    ASSUME IInv, NEW t \in Tabs, page[t].kind = "consent"
    PROVE  BlobOK(page[t].blob)
  BY DEF IInv, PagesOK, PageOK

LEMMA PostAnswersPreserve ==
    ASSUME IInv, NEW t \in Tabs,
           PostExpired(t) \/ PostDetour(t) \/ PostForbidden(t) \/ PostFails(t) \/ PostDeny(t)
    PROVE  IInv'
  <1>1. CASE PostExpired(t) \/ PostForbidden(t) \/ PostFails(t)
    BY <1>1, AnswerPreserves, PlainPages DEF PostExpired, PostForbidden, PostFails
  <1>2. CASE PostDetour(t)
    <2>. DEFINE rd == Reconstruct(page[t].blob)
    <2>1. rd.client \in Clients
      BY <1>2, ShownBlob DEF PostDetour, Reconstruct, BlobOK
    <2>. QED  BY <1>2, <2>1, AnswerPreserves, RequestPages DEF PostDetour
  <1>3. CASE PostDeny(t)
    <2>1. SafeUri(page[t].blob.req.bind.redirect)
      BY <1>3, ShownBlob DEF PostDeny, BlobOK
    <2>2. PagesOK'
      BY <1>3, <2>1, ClientPages, FollowPreserves DEF PostDeny, IInv
    <2>3. RegisteredOK' /\ HistoryOK' /\ CodesForApprover'
      BY <1>3 DEF IInv, PostDeny, RegisteredOK, HistoryOK, CodesForApprover
    <2>. QED  BY <2>2, <2>3 DEF IInv
  <1>. QED  BY <1>1, <1>2, <1>3

\* The one place where a code is minted.
LEMMA PostApprovePreserves ==
    ASSUME IInv, NEW t \in Tabs, PostApprove(t)
    PROVE  IInv'
  <1>. DEFINE blob == page[t].blob
              code == MintCode(nextId, now, "as", blob.req)
  <1>1. BlobOK(blob)
    BY ShownBlob DEF PostApprove
  <1>2. PagesOK'
    BY <1>1, ClientPages, FollowPreserves DEF BlobOK, PostApprove, IInv
  <1>3. CodesForApprover'
    <2>1. /\ codes' = codes \cup {[code |-> code, approver |-> cookies.user]}
          /\ Sub[cookies.user] = Sub[blob.req.bind.sub]
          /\ cookies.user \in Allowed
      BY DEF PostApprove, Approver
    <2>2. code.bind.sub = blob.req.bind.sub
      BY DEF MintCode, Artifact
    <2>. QED  BY <1>1, <2>1, <2>2 DEF IInv, CodesForApprover, BlobOK
  <1>4. RegisteredOK' /\ HistoryOK'
    BY DEF IInv, PostApprove, RegisteredOK, HistoryOK
  <1>. QED  BY <1>2, <1>3, <1>4 DEF IInv

LEMMA BrowsePreserves ==
    ASSUME IInv, NEW t \in Tabs, Browse(t)
    PROVE  IInv'
  <1>1. ASSUME page[t].kind \in {"signin", "refresh"}
        PROVE  page[t].rd.client \in Clients
    BY <1>1 DEF IInv, PagesOK, PageOK
  <1>2. CASE RefreshFails(t)
    BY <1>1, <1>2, AnswerPreserves, RequestPages
       DEF RefreshFails, AfterFailedRefresh
  <1>3. ASSUME NEW u \in Users, NEW refresh \in BOOLEAN,
               SignIn(t, u, refresh) \/ Refresh(t, u)
        PROVE  IInv'
    <2>1. PagesOK'
      BY <1>1, <1>3, ShowPreserves, PlainPages, RequestPages
         DEF SignIn, Refresh, IInv
    <2>2. RegisteredOK' /\ HistoryOK' /\ CodesForApprover'
      BY <1>3 DEF IInv, SignIn, Refresh, RegisteredOK, HistoryOK, CodesForApprover
    <2>. QED  BY <2>1, <2>2 DEF IInv
  <1>. QED  BY <1>2, <1>3 DEF Browse

LEMMA GoBackPreserves ==
    ASSUME IInv, NEW t \in Tabs, GoBack(t)
    PROVE  IInv'
  <1>1. PagesOK'
    BY ShowPreserves DEF GoBack, IInv, HistoryOK
  <1>2. RegisteredOK' /\ HistoryOK' /\ CodesForApprover'
    BY DEF IInv, GoBack, RegisteredOK, HistoryOK, CodesForApprover
  <1>. QED  BY <1>1, <1>2 DEF IInv

LEMMA ChangeMetadataPreserves ==
    ASSUME IInv, NEW c \in Clients, ChangeMetadata(c)
    PROVE  IInv'
  <1>1. RegisteredOK'
    BY AcceptedIsValid DEF IInv, ChangeMetadata, RegisteredOK
  <1>2. PagesOK' /\ HistoryOK' /\ CodesForApprover'
    BY DEF IInv, ChangeMetadata, PagesOK, HistoryOK, CodesForApprover
  <1>. QED  BY <1>1, <1>2 DEF IInv

LEMMA NextPreserves == IInv /\ [Next]_vars => IInv'
  <1> SUFFICES ASSUME IInv, [Next]_vars PROVE IInv'
    OBVIOUS
  <1>1. CASE Tick \/ ChangeSession \/ UNCHANGED vars
    BY <1>1 DEF IInv, Tick, ChangeSession, vars, RegisteredOK, PagesOK,
                HistoryOK, CodesForApprover
  <1>2. ASSUME NEW t \in Tabs, NEW q \in Requests, Begin(t, q) PROVE IInv'
    BY <1>2, BeginPreserves
  <1>3. ASSUME NEW t \in Tabs, Get(t) \/ Post(t) \/ Browse(t) \/ GoBack(t)
        PROVE  IInv'
    BY <1>3, GetAnswersPreserve, GetConsentPreserves, PostAnswersPreserve,
       PostApprovePreserves, BrowsePreserves, GoBackPreserves DEF Get, Post
  <1>4. ASSUME NEW c \in CimdClients, ChangeMetadata(c) PROVE IInv'
    BY <1>4, AuthorizeAssumption, ChangeMetadataPreserves
  <1>. QED  BY <1>1, <1>2, <1>3, <1>4 DEF Next

LEMMA Invariant == Spec => []IInv
  BY InitEstablishes, NextPreserves, PTL DEF Spec

-----------------------------------------------------------------------------
(***************************************************************************)
(* The theorems.                                                           *)
(***************************************************************************)
\* The confused-deputy guard holds: every code speaks for the subject who
\* approved it, whatever happens to the session that all tabs share.
THEOREM CodesSpeakForApprover == Spec => []CodesForApprover
  <1>1. IInv => CodesForApprover
    BY DEF IInv
  <1>. QED  BY Invariant, <1>1, PTL

\* Responses go to https URIs or to the user's own machine, for any URIs that
\* clients present and any that their requests name.
THEOREM DeliveredSafely == Spec => []SafeDelivery
  <1>1. IInv => SafeDelivery
    BY DEF IInv, PagesOK, PageOK, SafeUri, SafeDelivery
  <1>. QED  BY Invariant, <1>1, PTL

-----------------------------------------------------------------------------
(***************************************************************************)
(* The granted scope: each of the requested ones once.  To grant what was  *)
(* granted changes nothing, so a request that is resumed from its consent  *)
(* blob is granted what it was granted before.                             *)
(***************************************************************************)
\* The elements of a finite set of numbers can be counted off.
LEMMA Ranks ==
    ASSUME NEW S \in SUBSET Nat, IsFiniteSet(S),
           NEW rank, rank = [i \in S |-> Cardinality({j \in S : j <= i})]
    PROVE  /\ Cardinality(S) \in Nat
           /\ \A n \in 1..Cardinality(S) : \E i \in S : rank[i] = n
  <1>1. Cardinality(S) \in Nat
    BY FS_CardinalityType
  <1>2. ASSUME NEW i \in S
        PROVE  /\ IsFiniteSet({j \in S : j <= i})
               /\ Cardinality({j \in S : j <= i}) \in 1..Cardinality(S)
    <2>. DEFINE T == {j \in S : j <= i}
    <2>1. T \in SUBSET S /\ i \in T
      OBVIOUS
    <2>. HIDE DEF T
    <2>2. IsFiniteSet(T) /\ Cardinality(T) <= Cardinality(S)
      BY <2>1, FS_Subset
    <2>3. Cardinality(T) \in Nat /\ (Cardinality(T) = 0 <=> T = {})
      BY <2>2, FS_CardinalityType, FS_EmptySet
    <2>4. Cardinality(T) \in 1..Cardinality(S)
      BY <1>1, <2>1, <2>2, <2>3
    <2>. QED  BY <2>2, <2>4 DEF T
  <1>3. ASSUME NEW i \in S, NEW j \in S, i < j PROVE rank[i] # rank[j]
    <2>. DEFINE Low == {k \in S : k <= i}
                High == {k \in S : k <= j}
    <2>1. Low \in SUBSET High /\ Low # High
      <3>1. i \in Nat /\ j \in Nat /\ \A k \in S : k \in Nat
        OBVIOUS
      <3>2. j \in High /\ j \notin Low
        BY <1>3, <3>1
      <3>3. \A k \in Low : k \in High
        BY <1>3, <3>1
      <3>. QED  BY <3>2, <3>3
    <2>2. IsFiniteSet(High)
      BY <1>2
    <2>3. rank[i] = Cardinality(Low) /\ rank[j] = Cardinality(High)
      OBVIOUS
    <2>. HIDE DEF Low, High
    <2>4. Cardinality(Low) # Cardinality(High)
      BY <2>1, <2>2, FS_Subset
    <2>. QED  BY <2>3, <2>4
  <1>4. rank \in [S -> 1..Cardinality(S)]
    BY <1>2
  <1>5. \A i, j \in S : rank[i] = rank[j] => i = j
    BY <1>3
  <1>6. rank \in Injection(S, 1..Cardinality(S))
    BY <1>4, <1>5 DEF Injection, IsInjective
  <1>7. IsFiniteSet(1..Cardinality(S)) /\ Cardinality(1..Cardinality(S)) = Cardinality(S)
    <2>1. \A n \in Nat : IsFiniteSet(1..n) /\ Cardinality(1..n) = n
      BY FS_Interval
    <2>. QED  BY <1>1, <2>1
  <1>8. rank \in Surjection(S, 1..Cardinality(S))
    BY <1>6, <1>7, FS_Injection
  <1>. QED  BY <1>1, <1>8 DEF Surjection

\* Where Once(s) takes its elements from.
LEMMA OncePicks ==
    ASSUME NEW s, IsSequence(s)
    PROVE  /\ FirstSeen(s) \in SUBSET (1..Len(s)) /\ IsFiniteSet(FirstSeen(s))
           /\ Cardinality(FirstSeen(s)) \in Nat
           /\ \E pick \in [1..Cardinality(FirstSeen(s)) -> FirstSeen(s)] :
                 /\ \A m, n \in 1..Cardinality(FirstSeen(s)) : pick[m] = pick[n] => m = n
                 /\ Once(s) = [n \in 1..Cardinality(FirstSeen(s)) |-> s[pick[n]]]
                 /\ \A n \in 1..Cardinality(FirstSeen(s)) :
                       Cardinality({j \in FirstSeen(s) : j <= pick[n]}) = n
  <1>. DEFINE S == FirstSeen(s)
              N == Cardinality(S)
              rank == [i \in S |-> Cardinality({j \in S : j <= i})]
              pick == [n \in 1..N |-> CHOOSE i \in S : rank[i] = n]
  <1>1. s \in Seq(ToSet(s)) /\ Len(s) \in Nat /\ DOMAIN s = 1..Len(s)
    BY DEF IsSequence
  <1>2. S \in SUBSET (1..Len(s)) /\ S \in SUBSET Nat
    BY <1>1 DEF FirstSeen
  <1>3. IsFiniteSet(S)
    <2>1. IsFiniteSet(1..Len(s))
      BY <1>1, FS_Interval
    <2>. QED  BY <1>2, <2>1, FS_Subset
  <1>4. N \in Nat /\ \A n \in 1..N : \E i \in S : rank[i] = n
    <2>. HIDE DEF S
    <2>. QED  BY <1>2, <1>3, Ranks
  <1>5. \A n \in 1..N : pick[n] \in S /\ rank[pick[n]] = n
    <2>. HIDE DEF S, N, rank
    <2>. QED  BY <1>4
  <1>6. Once(s) = [n \in 1..N |-> s[pick[n]]]
    <2>1. Once(s) = [n \in 1..N |-> s[CHOOSE i \in S : Cardinality({j \in S : j <= i}) = n]]
      BY DEF Once
    <2>2. \A n : (CHOOSE i \in S : Cardinality({j \in S : j <= i}) = n)
                 = (CHOOSE i \in S : rank[i] = n)
      OBVIOUS
    <2>. QED  BY <2>1, <2>2
  <1>7. \A n \in 1..N : Cardinality({j \in S : j <= pick[n]}) = n
    <2>1. \A i \in S : rank[i] = Cardinality({j \in S : j <= i})
      OBVIOUS
    <2>. HIDE DEF S, N, rank, pick
    <2>. QED  BY <1>5, <2>1
  <1>8. pick \in [1..N -> S] /\ \A m, n \in 1..N : pick[m] = pick[n] => m = n
    <2>1. pick \in [1..N -> S]
      <3>. HIDE DEF S, N, rank
      <3>. QED  BY <1>5
    <2>. HIDE DEF S, N, rank, pick
    <2>. QED  BY <1>5, <2>1
  <1>. QED  BY <1>2, <1>3, <1>4, <1>6, <1>7, <1>8

\* Once(s) has what s has, without repeats.
LEMMA OnceIsInjective ==
    ASSUME NEW s, IsSequence(s)
    PROVE  /\ Once(s) \in Seq(ToSet(s)) /\ IsInjective(Once(s))
           /\ s # <<>> => Once(s) # <<>>
  <1>. DEFINE S == FirstSeen(s)
              N == Cardinality(S)
  <1>1. /\ S \in SUBSET (1..Len(s)) /\ IsFiniteSet(S) /\ N \in Nat
        /\ s \in Seq(ToSet(s)) /\ Len(s) \in Nat /\ DOMAIN s = 1..Len(s)
    BY OncePicks DEF IsSequence
  <1>2. PICK pick \in [1..N -> S] :
           /\ \A m, n \in 1..N : pick[m] = pick[n] => m = n
           /\ Once(s) = [n \in 1..N |-> s[pick[n]]]
    BY OncePicks
  <1>3. \A i \in 1..Len(s) : s[i] \in ToSet(s)
    BY <1>1
  <1>4. Once(s) \in Seq(ToSet(s)) /\ DOMAIN Once(s) = 1..N
    <2>. HIDE DEF S, N
    <2>1. Once(s) \in [1..N -> ToSet(s)]
      BY <1>1, <1>2, <1>3
    <2>. QED  BY <1>1, <2>1
  <1>5. \A i, j \in S : s[i] = s[j] => i = j
    <2>1. ASSUME NEW i \in S, NEW j \in S, i < j PROVE s[i] # s[j]
      <3>1. i \in 1..(j - 1)
        BY <1>1, <2>1
      <3>. QED  BY <3>1 DEF FirstSeen
    <2>. QED  BY <1>1, <2>1
  <1>6. IsInjective(Once(s))
    <2>. HIDE DEF S, N
    <2>1. \A m, n \in 1..N : Once(s)[m] = Once(s)[n] => m = n
      BY <1>2, <1>5
    <2>. QED  BY <1>4, <2>1 DEF IsInjective
  <1>7. ASSUME s # <<>> PROVE Once(s) # <<>>
    <2>1. 1 \in S
      <3>1. 1 \in DOMAIN s
        BY <1>1, <1>7
      <3>. QED  BY <3>1 DEF FirstSeen
    <2>2. N # 0
      BY <1>1, <2>1, FS_EmptySet
    <2>3. 1 \in DOMAIN Once(s)
      <3>. HIDE DEF N
      <3>. QED  BY <1>1, <1>4, <2>2
    <2>. QED  BY <2>3
  <1>. QED  BY <1>4, <1>6, <1>7

\* Nothing is lost or moved where nothing repeats.
LEMMA OnceOfInjective ==
    ASSUME NEW s, IsSequence(s), IsInjective(s)
    PROVE  Once(s) = s
  <1>. DEFINE N == Len(s)
  <1>1. s \in Seq(ToSet(s)) /\ N \in Nat /\ DOMAIN s = 1..N
    BY DEF IsSequence
  <1>2. FirstSeen(s) = 1..N
    BY <1>1 DEF FirstSeen, IsInjective
  <1>3. ASSUME NEW n \in Nat PROVE Cardinality(1..n) = n
    BY FS_Interval
  <1>4. Cardinality(FirstSeen(s)) = N
    BY <1>1, <1>2, <1>3
  <1>5. PICK pick \in [1..Cardinality(FirstSeen(s)) -> FirstSeen(s)] :
           /\ Once(s) = [n \in 1..Cardinality(FirstSeen(s)) |-> s[pick[n]]]
           /\ \A n \in 1..Cardinality(FirstSeen(s)) :
                 Cardinality({j \in FirstSeen(s) : j <= pick[n]}) = n
    BY OncePicks
  <1>6. ASSUME NEW n \in 1..N PROVE pick[n] = n
    <2>1. pick[n] \in 1..N
      BY <1>2, <1>4, <1>5
    <2>2. {j \in FirstSeen(s) : j <= pick[n]} = 1..pick[n]
      BY <1>1, <1>2, <2>1
    <2>3. Cardinality({j \in FirstSeen(s) : j <= pick[n]}) = n
      BY <1>4, <1>5
    <2>4. Cardinality(1..pick[n]) = n
      BY <2>2, <2>3
    <2>. QED  BY <1>1, <1>3, <2>1, <2>4
  <1>7. Once(s) = [n \in 1..N |-> s[n]]
    BY <1>4, <1>5, <1>6
  <1>. QED  BY <1>1, <1>7

\* A configuration that lists each scope once.
NoRepeats == IsInjective(ScopesSupported)

LEMMA GrantedTwice ==
    ASSUME NoRepeats, NEW scope, IsSequence(scope)
    PROVE  /\ IsSequence(GrantScope(scope)) /\ IsInjective(GrantScope(scope))
           /\ GrantScope(GrantScope(scope)) = GrantScope(scope)
  <1>. DEFINE granted == GrantScope(scope)
  <1>1. granted # <<>> /\ IsSequence(granted) /\ IsInjective(granted)
    <2>1. CASE scope = <<>>
      BY <2>1, AuthorizeAssumption DEF GrantScope, NoRepeats
    <2>2. CASE scope # <<>>
      <3>1. granted = Once(scope)
        BY <2>2 DEF GrantScope
      <3>2. granted \in Seq(ToSet(granted))
        <4>1. granted \in Seq(ToSet(scope))
          BY <3>1, OnceIsInjective
        <4>. HIDE DEF granted
        <4>. QED  BY <4>1 DEF ToSet
      <3>. QED  BY <2>2, <3>1, <3>2, OnceIsInjective DEF IsSequence
    <2>. QED  BY <2>1, <2>2
  <1>2. Once(granted) = granted
    <2>. HIDE DEF granted
    <2>. QED  BY <1>1, OnceOfInjective
  <1>. QED  BY <1>1, <1>2 DEF GrantScope

-----------------------------------------------------------------------------
(***************************************************************************)
(* What a tab may show next, and what its history is made of.              *)
(***************************************************************************)
Asking == {"loading", "signin", "refresh"}

\* The page p may follow what tab t shows.
Follows(t, p) ==
    \/ p.kind \in {"error", "blocked"}
    \/ \E q \in Requests : p = Loading(q, q)
    \/ \E error \in Errors :
          /\ Resolved(t, error)
          /\ p = ClientPage(page[t].rd.redirect, page[t].rd.state, error, Absent,
                            page[t].flow)
    \/ /\ page[t].kind \in Asking /\ p.kind \in Asking
       /\ p.rd = page[t].rd /\ p.flow = page[t].flow
    \/ /\ Resolved(t, Absent) /\ cookies.user \in Allowed
       /\ p = ConsentPage([req |-> MintAuthReq(nextId, now, "as",
                                               ConsentOf(page[t].rd, cookies.user)),
                           state |-> page[t].rd.state], page[t].flow)
    \/ /\ page[t].kind = "consent" /\ VerifyAuthReq(page[t].blob.req, now)
       /\ \E error, code :
             /\ p = ClientPage(page[t].blob.req.bind.redirect, page[t].blob.state,
                               error, code, page[t].flow)
             /\ error = Absent => code.bind = page[t].blob.req.bind
    \/ /\ page[t].kind = "consent" /\ p.kind \in Asking
       /\ p.rd = Reconstruct(page[t].blob) /\ p.flow = page[t].flow
    \/ p \in blobs[t]

LEMMA ShownNext ==
    ASSUME DOMAIN page = Tabs, NEW s \in Tabs, NEW p, Show(s, p), NEW t \in Tabs
    PROVE  page'[t] = IF t = s THEN p ELSE page[t]
  BY DEF Show

LEMMA GetFollows ==
    ASSUME DOMAIN page = Tabs, NEW s \in Tabs, NEW t \in Tabs, Get(s)
    PROVE  page'[t] = page[t] \/ Follows(t, page'[t])
  <1>1. CASE GetRefused(s) \/ GetUnknown(s) \/ GetForbidden(s) \/ GetFails(s)
    <2>1. Show(s, ErrorPage)
      BY <1>1 DEF GetRefused, GetUnknown, GetForbidden, GetFails, Answer
    <2>. QED  BY <2>1, ShownNext DEF Follows, ErrorPage
  <1>2. CASE GetInvalid(s)
    <2>1. PICK error \in Errors :
             /\ Resolved(s, error)
             /\ Show(s, ClientPage(page[s].rd.redirect, page[s].rd.state, error,
                                   Absent, page[s].flow))
      BY <1>2 DEF GetInvalid, Answer
    <2>. QED  BY <2>1, ShownNext DEF Follows
  <1>3. CASE GetDetour(s)
    <2>1. Show(s, Detour(page[s].rd, page[s].flow)) /\ page[s].kind = "loading"
      BY <1>3 DEF GetDetour, Answer, Resolved
    <2>. QED  BY <2>1, ShownNext
         DEF Follows, Detour, RefreshPage, SignInPage, Asking
  <1>4. CASE GetConsent(s)
    <2>1. /\ Resolved(s, Absent) /\ cookies.user \in Allowed
          /\ Show(s, ConsentPage(
                [req |-> MintAuthReq(nextId, now, "as",
                                     ConsentOf(page[s].rd, cookies.user)),
                 state |-> page[s].rd.state], page[s].flow))
      BY <1>4 DEF GetConsent
    <2>. QED  BY <2>1, ShownNext DEF Follows
  <1>. QED  BY <1>1, <1>2, <1>3, <1>4 DEF Get

LEMMA PostFollows ==
    ASSUME DOMAIN page = Tabs, NEW s \in Tabs, NEW t \in Tabs, Post(s)
    PROVE  page'[t] = page[t] \/ Follows(t, page'[t])
  <1>. DEFINE blob == page[s].blob
  <1>1. CASE PostExpired(s) \/ PostForbidden(s) \/ PostFails(s)
    <2>1. Show(s, ErrorPage)
      BY <1>1 DEF PostExpired, PostForbidden, PostFails, Answer
    <2>. QED  BY <2>1, ShownNext DEF Follows, ErrorPage
  <1>2. CASE PostDetour(s)
    <2>1. /\ page[s].kind = "consent"
          /\ \/ Show(s, SignInPage(Reconstruct(blob), page[s].flow))
             \/ Show(s, RefreshPage(Reconstruct(blob), page[s].flow))
      BY <1>2 DEF PostDetour, Answer, Detour
    <2>. QED  BY <2>1, ShownNext DEF Follows, RefreshPage, SignInPage, Asking
  <1>3. ASSUME NEW error, NEW code, error = Absent => code.bind = blob.req.bind,
               page[s].kind = "consent", VerifyAuthReq(blob.req, now),
               Follow(s, ClientPage(blob.req.bind.redirect, blob.state, error, code,
                                    page[s].flow))
        PROVE  page'[t] = page[t] \/ Follows(t, page'[t])
    <2>. DEFINE to == ClientPage(blob.req.bind.redirect, blob.state, error, code,
                                 page[s].flow)
    <2>1. CASE Show(s, to)
      BY <1>3, <2>1, ShownNext DEF Follows
    <2>2. CASE Show(s, BlockedPage(page[s].flow))
      BY <2>2, ShownNext DEF Follows, BlockedPage
    <2>. QED  BY <1>3, <2>1, <2>2 DEF Follow
  <1>4. CASE PostDeny(s)
    <2>1. "access_denied" # Absent
      BY DEF Absent
    <2>. QED  BY <1>3, <1>4, <2>1 DEF PostDeny
  <1>5. CASE PostApprove(s)
    <2>1. MintCode(nextId, now, "as", blob.req).bind = blob.req.bind
      BY DEF MintCode, Artifact
    <2>. QED  BY <1>3, <1>5, <2>1 DEF PostApprove
  <1>. QED  BY <1>1, <1>2, <1>4, <1>5 DEF Post

LEMMA PageStep ==
    ASSUME IInv, [Next]_vars, NEW t \in Tabs
    PROVE  page'[t] = page[t] \/ Follows(t, page'[t])
  <1>1. DOMAIN page = Tabs
    BY DEF IInv, PagesOK
  <1>2. CASE \/ Tick \/ ChangeSession \/ UNCHANGED vars
             \/ \E c \in CimdClients : ChangeMetadata(c)
    BY <1>2 DEF Tick, ChangeSession, ChangeMetadata, vars
  <1>3. ASSUME NEW s \in Tabs, NEW q \in Requests, Begin(s, q)
        PROVE  page'[t] = page[t] \/ Follows(t, page'[t])
    BY <1>1, <1>3, ShownNext DEF Begin, Follows
  <1>4. ASSUME NEW s \in Tabs, Browse(s)
        PROVE  page'[t] = page[t] \/ Follows(t, page'[t])
    <2>1. /\ page[s].kind \in Asking
          /\ \/ Show(s, ErrorPage)
             \/ Show(s, Loading(page[s].rd, page[s].flow))
             \/ Show(s, SignInPage(page[s].rd, page[s].flow))
      BY <1>4 DEF Browse, SignIn, Refresh, RefreshFails, AfterFailedRefresh, Answer,
                  Asking
    <2>. QED  BY <1>1, <2>1, ShownNext DEF Follows, ErrorPage, Loading, SignInPage, Asking
  <1>5. ASSUME NEW s \in Tabs, GoBack(s)
        PROVE  page'[t] = page[t] \/ Follows(t, page'[t])
    BY <1>1, <1>5, ShownNext DEF GoBack, Follows
  <1>. QED  BY <1>1, <1>2, <1>3, <1>4, <1>5, GetFollows, PostFollows DEF Next

\* Only consent pages enter the history, when they are shown.
LEMMA BlobsStep ==
    ASSUME IInv, [Next]_vars, NEW t \in Tabs
    PROVE  \A c \in blobs'[t] : c \in blobs[t] \/ (c = page'[t] /\ c.kind = "consent")
  <1>1. DOMAIN page = Tabs /\ DOMAIN blobs = Tabs
    BY DEF IInv, PagesOK, HistoryOK
  <1>2. ASSUME NEW s \in Tabs, GetConsent(s)
        PROVE  \A c \in blobs'[t] : c \in blobs[t] \/ (c = page'[t] /\ c.kind = "consent")
    <2>1. PICK blob : /\ Show(s, ConsentPage(blob, page[s].flow))
                      /\ blobs' = [blobs EXCEPT ![s] =
                                       @ \cup {ConsentPage(blob, page[s].flow)}]
      BY <1>2 DEF GetConsent
    <2>2. ConsentPage(blob, page[s].flow).kind = "consent"
      BY DEF ConsentPage
    <2>. QED  BY <1>1, <2>1, <2>2, ShownNext
  <1>3. UNCHANGED blobs \/ \E s \in Tabs : GetConsent(s)
    BY DEF Next, Tick, ChangeSession, ChangeMetadata, Begin, GoBack, vars,
           Get, GetRefused, GetUnknown, GetInvalid, GetDetour, GetForbidden, GetFails,
           Post, PostExpired, PostDeny, PostDetour, PostForbidden, PostFails, PostApprove,
           Browse, SignIn, Refresh, RefreshFails, Answer
  <1>. QED  BY <1>2, <1>3

-----------------------------------------------------------------------------
(***************************************************************************)
(* A flow goes on asking for what it began with, however often it is cut   *)
(* short and resumed.                                                      *)
(***************************************************************************)
\* The query rd asks for the same as the one that the flow began with.
Resumes(rd, flow) ==
    /\ rd.redirect = flow.redirect /\ rd.state = flow.state
    /\ rd.client = flow.client /\ rd.challenge = flow.challenge
    /\ GrantScope(rd.scope) = GrantScope(flow.scope)

Faithful(p) ==
    /\ p.kind \in Asking => p.flow \in Requests /\ Resumes(p.rd, p.flow)
    /\ p.kind = "consent" =>
          /\ p.flow \in Requests
          /\ p.blob.req.bind = ConsentOf(p.flow, p.blob.req.bind.sub)
          /\ p.blob.state = p.flow.state
    /\ p.kind = "client" =>
          /\ p.to = p.flow.redirect /\ p.state = p.flow.state
          /\ p.error = Absent => p.code.bind = ConsentOf(p.flow, p.code.bind.sub)

FaithfulPages ==
    \A t \in Tabs : /\ Faithful(page[t])
                    /\ \A c \in blobs[t] : c.kind = "consent" /\ Faithful(c)

LEMMA ConsentResumes ==
    ASSUME NEW rd, NEW flow, Resumes(rd, flow), NEW u
    PROVE  ConsentOf(rd, u) = ConsentOf(flow, u)
  BY DEF Resumes, ConsentOf

\* The request that a POST without a session resumes is the one it came from.
LEMMA ReconstructResumes ==
    ASSUME NoRepeats, NEW flow \in Requests, NEW blob, NEW u,
           blob.req.bind = ConsentOf(flow, u), blob.state = flow.state
    PROVE  Resumes(Reconstruct(blob), flow)
  <1>1. GrantScope(GrantScope(flow.scope)) = GrantScope(flow.scope)
    BY AuthorizeAssumption, GrantedTwice
  <1>. QED  BY <1>1 DEF Resumes, Reconstruct, ConsentOf

LEMMA FaithfulNext ==
    ASSUME NoRepeats, FaithfulPages, NEW t \in Tabs, NEW p, Follows(t, p)
    PROVE  Faithful(p)
  <1>. DEFINE flow == page[t].flow
  <1>1. CASE p.kind \in {"error", "blocked"}
    BY <1>1 DEF Faithful, Asking
  <1>2. ASSUME NEW q \in Requests, p = Loading(q, q) PROVE Faithful(p)
    BY <1>2 DEF Faithful, Loading, Resumes, Asking
  <1>3. ASSUME page[t].kind \in Asking
        PROVE  flow \in Requests /\ Resumes(page[t].rd, flow)
    BY <1>3 DEF FaithfulPages, Faithful
  <1>4. ASSUME NEW error \in Errors, Resolved(t, error),
               p = ClientPage(page[t].rd.redirect, page[t].rd.state, error, Absent, flow)
        PROVE  Faithful(p)
    <2>1. p.kind = "client" /\ p.to = page[t].rd.redirect /\ p.state = page[t].rd.state
          /\ p.error = error /\ p.flow = flow
      BY <1>4 DEF ClientPage
    <2>2. Resumes(page[t].rd, flow)
      BY <1>3, <1>4 DEF Resolved, Asking
    <2>3. error # Absent
      BY DEF Errors, Absent
    <2>. QED  BY <2>1, <2>2, <2>3 DEF Faithful, Resumes, Asking
  <1>5. CASE /\ page[t].kind \in Asking /\ p.kind \in Asking
             /\ p.rd = page[t].rd /\ p.flow = page[t].flow
    BY <1>3, <1>5 DEF Faithful, Asking
  <1>6. CASE /\ Resolved(t, Absent) /\ cookies.user \in Allowed
             /\ p = ConsentPage([req |-> MintAuthReq(nextId, now, "as",
                                               ConsentOf(page[t].rd, cookies.user)),
                                 state |-> page[t].rd.state], page[t].flow)
    <2>1. /\ p.kind = "consent" /\ p.flow = flow /\ p.blob.state = page[t].rd.state
          /\ p.blob.req.bind = ConsentOf(page[t].rd, cookies.user)
      BY <1>6 DEF ConsentPage, MintAuthReq, Artifact
    <2>2. flow \in Requests /\ Resumes(page[t].rd, flow)
      BY <1>3, <1>6 DEF Resolved, Asking
    <2>3. p.blob.req.bind = ConsentOf(flow, cookies.user)
      BY <2>1, <2>2, ConsentResumes
    <2>4. p.blob.req.bind.sub = cookies.user
      BY <2>3 DEF ConsentOf
    <2>. QED  BY <2>1, <2>2, <2>3, <2>4 DEF Faithful, Resumes, Asking
  <1>7. ASSUME page[t].kind = "consent"
        PROVE  /\ flow \in Requests /\ page[t].blob.state = flow.state
               /\ page[t].blob.req.bind = ConsentOf(flow, page[t].blob.req.bind.sub)
    BY <1>7 DEF FaithfulPages, Faithful
  <1>8. ASSUME page[t].kind = "consent", NEW error, NEW code,
               p = ClientPage(page[t].blob.req.bind.redirect, page[t].blob.state,
                              error, code, flow),
               error = Absent => code.bind = page[t].blob.req.bind
        PROVE  Faithful(p)
    <2>1. /\ p.kind = "client" /\ p.to = page[t].blob.req.bind.redirect
          /\ p.state = page[t].blob.state /\ p.error = error /\ p.code = code
          /\ p.flow = flow
      BY <1>8 DEF ClientPage
    <2>2. page[t].blob.req.bind.redirect = flow.redirect
      BY <1>7, <1>8 DEF ConsentOf
    <2>3. error = Absent => code.bind = ConsentOf(flow, code.bind.sub)
      BY <1>7, <1>8
    <2>. QED  BY <1>7, <1>8, <2>1, <2>2, <2>3 DEF Faithful, Asking
  <1>9. CASE /\ page[t].kind = "consent" /\ p.kind \in Asking
             /\ p.rd = Reconstruct(page[t].blob) /\ p.flow = flow
    BY <1>7, <1>9, ReconstructResumes DEF Faithful, Asking
  <1>10. CASE p \in blobs[t]
    BY <1>10 DEF FaithfulPages
  <1>. QED  BY <1>1, <1>2, <1>4, <1>5, <1>6, <1>8, <1>9, <1>10 DEF Follows

LEMMA FaithfulInvariant == ASSUME NoRepeats PROVE Spec => []FaithfulPages
  <1>1. Init => FaithfulPages
    BY DEF Init, FaithfulPages, Faithful, Blank, Asking
  <1>2. IInv /\ FaithfulPages /\ [Next]_vars => FaithfulPages'
    <2> SUFFICES ASSUME IInv, FaithfulPages, [Next]_vars, NEW t \in Tabs
                 PROVE  /\ Faithful(page'[t])
                        /\ \A c \in blobs'[t] : c.kind = "consent" /\ Faithful(c)
      BY DEF FaithfulPages
    <2>1. Faithful(page'[t])
      <3>1. CASE page'[t] = page[t]
        BY <3>1 DEF FaithfulPages
      <3>2. PICK p : p = page'[t]
        OBVIOUS
      <3>3. CASE Follows(t, p)
        BY <3>2, <3>3, FaithfulNext
      <3>. QED  BY <3>1, <3>2, <3>3, PageStep
    <2>. QED  BY <2>1, BlobsStep DEF FaithfulPages
  <1>. QED  BY <1>1, <1>2, Invariant, PTL DEF Spec

\* With each supported scope configured once, a response that a tab brings back
\* to the client answers the request that the client opened it with, for any
\* requests and however often the flow was resumed.
THEOREM ResponsesAnswer == ASSUME NoRepeats PROVE Spec => []AnswersItsRequest
  <1>1. FaithfulPages => AnswersItsRequest
    BY DEF FaithfulPages, Faithful, AnswersItsRequest
  <1>. QED  BY <1>1, FaithfulInvariant, PTL

-----------------------------------------------------------------------------
(***************************************************************************)
(* Types.  A consent asks for supported scopes, each of them once.         *)
(***************************************************************************)
\* A sequence without repeats is as long as it has elements.
LEMMA InjectiveLength ==
    ASSUME NEW T, NEW s \in Seq(T), IsInjective(s)
    PROVE  IsFiniteSet(ToSet(s)) /\ Cardinality(ToSet(s)) = Len(s)
  <1>. DEFINE D == 1..Len(s)
  <1>1. Len(s) \in Nat /\ DOMAIN s = D /\ s = [i \in D |-> s[i]]
    OBVIOUS
  <1>2. IsFiniteSet(D) /\ Cardinality(D) = Len(s)
    <2>1. \A n \in Nat : IsFiniteSet(1..n) /\ Cardinality(1..n) = n
      BY FS_Interval
    <2>. QED  BY <1>1, <2>1
  <1>3. s \in [D -> ToSet(s)] /\ \A x \in ToSet(s) : \E i \in D : s[i] = x
    BY <1>1 DEF ToSet
  <1>. HIDE DEF D
  <1>4. s \in Surjection(D, ToSet(s)) /\ s \in Injection(D, ToSet(s))
    BY <1>1, <1>3 DEF Surjection, Injection, IsInjective
  <1>. QED  BY <1>2, <1>4, FS_Surjection

\* What is granted is a choice of the supported scopes.
LEMMA GrantedIsScope ==
    ASSUME NoRepeats, NEW scope, IsSequence(scope), ScopeIsSupported(scope)
    PROVE  GrantScope(scope) \in Scopes
  <1>. DEFINE granted == GrantScope(scope)
              S == ToSet(ScopesSupported)
  <1>1. granted \in Seq(S) /\ IsInjective(granted) /\ granted # <<>>
    <2>1. CASE scope = <<>>
      BY <2>1, AuthorizeAssumption DEF GrantScope, NoRepeats, IsSequence
    <2>2. CASE scope # <<>>
      <3>1. /\ Once(scope) \in Seq(ToSet(scope)) /\ IsInjective(Once(scope))
            /\ Once(scope) # <<>>
        BY <2>2, OnceIsInjective
      <3>2. ToSet(scope) \subseteq S
        BY DEF ScopeIsSupported
      <3>3. granted = Once(scope)
        BY <2>2 DEF GrantScope
      <3>. HIDE DEF granted, S
      <3>. QED  BY <3>1, <3>2, <3>3
    <2>. QED  BY <2>1, <2>2
  <1>2. ScopesSupported \in Seq(S) /\ IsInjective(ScopesSupported)
    BY AuthorizeAssumption DEF IsSequence, NoRepeats
  <1>3. IsFiniteSet(S) /\ Cardinality(S) = Len(ScopesSupported)
    <2>1. IsFiniteSet(ToSet(ScopesSupported))
          /\ Cardinality(ToSet(ScopesSupported)) = Len(ScopesSupported)
      BY <1>2, InjectiveLength
    <2>. QED  BY <2>1
  <1>. HIDE DEF granted, S
  <1>4. Cardinality(ToSet(granted)) = Len(granted)
    BY <1>1, InjectiveLength
  <1>5. ToSet(granted) \subseteq S
    BY <1>1 DEF ToSet
  <1>6. Cardinality(ToSet(granted)) <= Cardinality(S)
    BY <1>3, <1>5, FS_Subset
  <1>7. Len(granted) \in 1..Len(ScopesSupported) /\ granted \in [1..Len(granted) -> S]
    BY <1>1, <1>2, <1>3, <1>4, <1>6
  <1>. QED  BY <1>4, <1>7 DEF Scopes, granted, S

LEMMA ScopesAreSequences == ASSUME NEW s \in Scopes PROVE IsSequence(s)
  <1>1. PICK n \in 1..Len(ScopesSupported) : s \in [1..n -> ToSet(ScopesSupported)]
    BY DEF Scopes
  <1>2. Len(ScopesSupported) \in Nat
    BY AuthorizeAssumption DEF IsSequence
  <1>3. n \in Nat /\ DOMAIN s = 1..n
    BY <1>1, <1>2
  <1>4. s \in [1..n -> ToSet(s)]
    BY <1>1, <1>3 DEF ToSet
  <1>. QED  BY <1>3, <1>4 DEF IsSequence

\* A request that no check fails asks for supported scopes.
LEMMA PassedIsSupported ==
    ASSUME NEW q, RequestError(q) = Absent
    PROVE  ScopeIsSupported(q.scope)
  <1>. DEFINE failed == {n \in DOMAIN Checks(q) : ~Checks(q)[n].ok}
  <1>1. DOMAIN Checks(q) = 1..4 /\ Checks(q)[4].ok = ScopeIsSupported(q.scope)
    BY DEF Checks
  <1>2. \A n \in 1..4 : Checks(q)[n].error # Absent
    BY DEF Checks, Absent
  <1>3. CASE failed = {}
    BY <1>1, <1>3
  <1>4. CASE failed # {}
    <2>1. failed \in SUBSET (1..4)
      BY <1>1
    <2>. HIDE DEF failed
    <2>2. \E x \in failed : \A y \in failed : x =< y
      <3>1. CASE 1 \in failed
        BY <2>1, <3>1
      <3>2. CASE 1 \notin failed /\ 2 \in failed
        BY <2>1, <3>2
      <3>3. CASE 1 \notin failed /\ 2 \notin failed /\ 3 \in failed
        BY <2>1, <3>3
      <3>4. CASE 1 \notin failed /\ 2 \notin failed /\ 3 \notin failed
        <4>1. \A y \in failed : y = 4
          BY <2>1, <3>4
        <4>. QED  BY <1>4, <4>1
      <3>. QED  BY <3>1, <3>2, <3>3, <3>4
    <2>3. Min(failed) \in 1..4
      BY <2>1, <2>2 DEF Min
    <2>4. RequestError(q) = Checks(q)[Min(failed)].error
      BY <1>4 DEF RequestError, failed
    <2>. QED  BY <1>2, <2>3, <2>4
  <1>. QED  BY <1>3, <1>4

\* What is on a page, and what a resumed request will ask for.
Scoped(p) ==
    /\ p.kind \in AtRest \cup Asking \cup {"consent", "blocked"}
    /\ p.kind \in Asking => IsSequence(p.rd.scope)
    /\ p.kind = "consent" => p.blob.req.bind.scope \in Scopes

ScopedPages ==
    \A t \in Tabs : /\ Scoped(page[t])
                    /\ \A c \in blobs[t] : c.kind = "consent" /\ Scoped(c)

Sessions == [user : Users \cup {Absent}, valid : BOOLEAN, refresh : BOOLEAN]

Counted ==
    /\ now \in 1..MaxTime /\ nextId \in Nat
    /\ registered \in [Clients -> Listings \cup {{}}]
    /\ cookies \in Sessions
    /\ flows \in 0..MaxFlows /\ changes \in 0..MaxChanges

\* What becomes of the session is a session.
LEMMA SessionTypes ==
    /\ NoSession \in Sessions
    /\ \A u \in Users, refresh \in BOOLEAN : Session(u, refresh) \in Sessions
    /\ \A s \in Sessions : s.refresh \in BOOLEAN /\ [s EXCEPT !.valid = FALSE] \in Sessions
  <1>1. NoSession \in Sessions
    BY Zenon DEF NoSession, Sessions
  <1>2. ASSUME NEW u \in Users, NEW refresh \in BOOLEAN PROVE Session(u, refresh) \in Sessions
    BY Zenon DEF Session, Sessions
  <1>3. ASSUME NEW s \in Sessions
        PROVE  s.refresh \in BOOLEAN /\ [s EXCEPT !.valid = FALSE] \in Sessions
    BY Zenon DEF Sessions
  <1>. QED  BY <1>1, <1>2, <1>3

LEMMA ScopedNext ==
    ASSUME NoRepeats, ScopedPages, NEW t \in Tabs, NEW p, Follows(t, p)
    PROVE  Scoped(p)
  <1>1. CASE p.kind \in {"error", "blocked"}
    BY <1>1 DEF Scoped, Asking, AtRest
  <1>2. ASSUME NEW q \in Requests, p = Loading(q, q) PROVE Scoped(p)
    BY <1>2, AuthorizeAssumption DEF Scoped, Loading, Asking
  <1>3. CASE p.kind = "client"
    BY <1>3 DEF Scoped, Asking, AtRest
  <1>4. CASE page[t].kind \in Asking /\ p.kind \in Asking /\ p.rd = page[t].rd
    BY <1>4 DEF ScopedPages, Scoped, Asking
  <1>5. CASE /\ Resolved(t, Absent) /\ cookies.user \in Allowed
             /\ p = ConsentPage([req |-> MintAuthReq(nextId, now, "as",
                                               ConsentOf(page[t].rd, cookies.user)),
                                 state |-> page[t].rd.state], page[t].flow)
    <2>1. p.kind = "consent" /\ p.blob.req.bind.scope = GrantScope(page[t].rd.scope)
      BY <1>5 DEF ConsentPage, MintAuthReq, Artifact, ConsentOf
    <2>2. IsSequence(page[t].rd.scope)
      BY <1>5 DEF ScopedPages, Scoped, Resolved, Asking
    <2>3. ScopeIsSupported(page[t].rd.scope)
      BY <1>5, PassedIsSupported DEF Resolved
    <2>. QED  BY <2>1, <2>2, <2>3, GrantedIsScope DEF Scoped, Asking
  <1>6. CASE /\ page[t].kind = "consent" /\ p.kind \in Asking
             /\ p.rd = Reconstruct(page[t].blob)
    <2>1. page[t].blob.req.bind.scope \in Scopes
      BY <1>6 DEF ScopedPages, Scoped
    <2>2. p.rd.scope = page[t].blob.req.bind.scope
      BY <1>6 DEF Reconstruct
    <2>. QED  BY <1>6, <2>1, <2>2, ScopesAreSequences DEF Scoped, Asking
  <1>7. CASE p \in blobs[t]
    BY <1>7 DEF ScopedPages
  <1>. QED  BY <1>1, <1>2, <1>3, <1>4, <1>5, <1>6, <1>7 DEF Follows, ClientPage

LEMMA CountedStep ==
    ASSUME IInv, Counted, [Next]_vars
    PROVE  Counted'
  <1>. USE AuthorizeAssumption DEF Counted
  <1>1. CASE Tick
    BY <1>1 DEF Tick
  <1>2. ASSUME NEW t \in Tabs, NEW q \in Requests, Begin(t, q) PROVE Counted'
    BY <1>2 DEF Begin
  <1>3. ASSUME NEW t \in Tabs, Get(t) PROVE Counted'
    BY <1>3 DEF Get, GetRefused, GetUnknown, GetInvalid, GetDetour, GetForbidden, GetFails,
                GetConsent, Answer
  <1>4. ASSUME NEW t \in Tabs, Post(t) PROVE Counted'
    BY <1>4 DEF Post, PostExpired, PostDeny, PostDetour, PostForbidden, PostFails, PostApprove,
                Answer
  <1>5. ASSUME NEW t \in Tabs, Browse(t) PROVE Counted'
    <2>1. cookies.refresh \in BOOLEAN
      BY SessionTypes
    <2>2. /\ UNCHANGED <<now, nextId, registered, flows, changes>>
          /\ cookies' = cookies \/ \E u \in Users, refresh \in BOOLEAN :
                                      cookies' = Session(u, refresh)
      <3>1. CASE RefreshFails(t)
        BY <3>1 DEF RefreshFails, Answer
      <3>2. ASSUME NEW u \in Users, Refresh(t, u)
            PROVE  /\ UNCHANGED <<now, nextId, registered, flows, changes>>
                   /\ cookies' = Session(u, TRUE)
        BY <3>2 DEF Refresh
      <3>3. ASSUME NEW u \in Users, NEW refresh \in BOOLEAN, SignIn(t, u, refresh)
            PROVE  /\ UNCHANGED <<now, nextId, registered, flows, changes>>
                   /\ cookies' = cookies \/ cookies' = Session(u, refresh \/ cookies.refresh)
        BY <3>3 DEF SignIn
      <3>4. \A refresh \in BOOLEAN : (refresh \/ cookies.refresh) \in BOOLEAN
        BY <2>1
      <3>. QED  BY <1>5, <3>1, <3>2, <3>3, <3>4 DEF Browse
    <2>. QED  BY <2>2, SessionTypes
  <1>6. CASE ChangeSession
    <2>1. /\ UNCHANGED <<now, nextId, registered, flows>>
          /\ changes < MaxChanges /\ changes' = changes + 1
      BY <1>6 DEF ChangeSession
    <2>2. \/ \E u \in Users, refresh \in BOOLEAN : cookies' = Session(u, refresh)
          \/ cookies' = [cookies EXCEPT !.valid = FALSE]
          \/ cookies' = NoSession
      BY <1>6 DEF ChangeSession
    <2>3. cookies' \in Sessions
      BY <2>2, SessionTypes
    <2>. QED  BY <2>1, <2>3
  <1>7. ASSUME NEW t \in Tabs, GoBack(t) PROVE Counted'
    BY <1>7 DEF GoBack
  <1>8. ASSUME NEW c \in CimdClients, ChangeMetadata(c) PROVE Counted'
    BY <1>8 DEF ChangeMetadata, Accepted
  <1>9. CASE UNCHANGED vars
    BY <1>9 DEF vars
  <1>. QED  BY <1>1, <1>2, <1>3, <1>4, <1>5, <1>6, <1>7, <1>8, <1>9 DEF Next

\* Types, with each supported scope configured once: what a user is asked to
\* approve, on any page in any tab's history, is a choice of the supported
\* scopes, however often the request was resumed.
THEOREM TypeCorrect == ASSUME NoRepeats PROVE Spec => []TypeOK
  <1>1. Init => ScopedPages /\ Counted
    <2>1. Init => ScopedPages
      BY DEF Init, ScopedPages, Scoped, Blank, Asking, AtRest
    <2>2. Init => Counted
      BY AuthorizeAssumption, SessionTypes DEF Init, Counted, Accepted
    <2>. QED  BY <2>1, <2>2
  <1>2. IInv /\ ScopedPages /\ Counted /\ [Next]_vars => ScopedPages' /\ Counted'
    <2> SUFFICES ASSUME IInv, ScopedPages, Counted, [Next]_vars
                 PROVE  ScopedPages' /\ Counted'
      OBVIOUS
    <2>1. ASSUME NEW t \in Tabs
          PROVE  Scoped(page'[t]) /\ \A c \in blobs'[t] : c.kind = "consent" /\ Scoped(c)
      <3>1. Scoped(page'[t])
        <4>1. CASE page'[t] = page[t]
          BY <4>1 DEF ScopedPages
        <4>2. ASSUME NEW p, p = page'[t], Follows(t, p) PROVE Scoped(p)
          BY <4>2, ScopedNext
        <4>. QED  BY <4>1, <4>2, PageStep
      <3>. QED  BY <3>1, BlobsStep DEF ScopedPages
    <2>. QED  BY <2>1, CountedStep DEF ScopedPages
  <1>3. ScopedPages /\ Counted => TypeOK
    BY DEF ScopedPages, Scoped, Counted, Sessions, TypeOK, Asking
  <1>. QED  BY <1>1, <1>2, <1>3, Invariant, PTL DEF Spec

-----------------------------------------------------------------------------
(***************************************************************************)
(* A consent blob outlasts the metadata it was checked against, by the     *)
(* time it lives.                                                          *)
(***************************************************************************)
Clocks ==
    /\ now \in Nat
    /\ DOMAIN grace = Clients
    /\ \A c \in Clients : grace[c] \in [Redirects -> Nat]

\* The client still lists the redirect URI, or the blob ends in its grace time.
BlobListed(req) ==
    /\ req.bind.client \in Clients /\ req.bind.redirect \in Redirects
    /\ req.exp \in Nat /\ req.exp <= now + AuthReqTTL
    /\ \/ MatchRedirectURI(registered[req.bind.client], req.bind.redirect)
       \/ req.exp <= grace[req.bind.client][req.bind.redirect]

Listed(p) ==
    /\ p.kind \in Asking => /\ p.rd.client \in Clients /\ p.rd.redirect \in Redirects
                            /\ p.flow.client = p.rd.client
    /\ p.kind = "consent" => BlobListed(p.blob.req) /\ p.flow.client = p.blob.req.bind.client

ListedPages ==
    Clocks /\ \A t \in Tabs : /\ Listed(page[t])
                              /\ \A c \in blobs[t] : c.kind = "consent" /\ Listed(c)

LEMMA TTLs == AuthReqTTL \in Nat
  BY ArtifactsAssumption

\* What the world does to the blobs that are out: time passes, and clients
\* edit their metadata.
LEMMA WorldStep ==
    ASSUME Clocks, RegisteredOK, [Next]_vars
    PROVE  Clocks' /\ \A req : BlobListed(req) => BlobListed(req)'
  <1>. SUFFICES Clocks' /\ (\A req : BlobListed(req) => BlobListed(req)')
    OBVIOUS
  <1>1. CASE Tick
    <2>1. now' = now + 1 /\ UNCHANGED <<registered, grace>>
      BY <1>1 DEF Tick
    <2>. QED  BY <2>1, TTLs DEF Clocks, BlobListed
  <1>2. ASSUME NEW c \in CimdClients, ChangeMetadata(c)
        PROVE  Clocks' /\ (\A req : BlobListed(req) => BlobListed(req)')
    <2>1. c \in Clients /\ now' = now
      BY <1>2, AuthorizeAssumption DEF ChangeMetadata
    <2>2. PICK uris :
             /\ registered' = [registered EXCEPT ![c] = Accepted(uris)]
             /\ grace' = [grace EXCEPT ![c] =
                   [u \in Redirects |-> IF MatchRedirectURI(registered[c], u)
                                        THEN now + AuthReqTTL ELSE grace[c][u]]]
      BY <1>2 DEF ChangeMetadata
    <2>3. Clocks'
      BY <2>1, <2>2, TTLs DEF Clocks
    <2>4. ASSUME NEW req, BlobListed(req) PROVE BlobListed(req)'
      <3>. DEFINE d == req.bind.client
                  u == req.bind.redirect
      <3>1. d \in Clients /\ u \in Redirects /\ req.exp \in Nat /\ req.exp <= now + AuthReqTTL
        BY <2>4 DEF BlobListed
      <3>2. CASE d = c
        <4>1. grace'[d][u] = IF MatchRedirectURI(registered[d], u)
                             THEN now + AuthReqTTL ELSE grace[d][u]
          BY <2>1, <2>2, <3>1, <3>2 DEF Clocks
        <4>2. req.exp <= grace'[d][u]
          BY <2>4, <3>1, <4>1 DEF BlobListed
        <4>. QED  BY <2>1, <3>1, <4>2 DEF BlobListed
      <3>3. CASE d # c
        <4>1. registered'[d] = registered[d] /\ grace'[d] = grace[d]
          BY <2>2, <3>1, <3>3 DEF Clocks, RegisteredOK
        <4>. QED  BY <2>1, <2>4, <4>1 DEF BlobListed
      <3>. QED  BY <3>2, <3>3
    <2>. QED  BY <2>3, <2>4
  <1>3. CASE UNCHANGED <<now, registered, grace>>
    BY <1>3 DEF Clocks, BlobListed
  <1>4. \/ Tick \/ UNCHANGED <<now, registered, grace>>
        \/ \E c \in CimdClients : ChangeMetadata(c)
    BY DEF Next, ChangeSession, Begin, GoBack, vars,
           Get, GetRefused, GetUnknown, GetInvalid, GetDetour, GetForbidden, GetFails, GetConsent,
           Post, PostExpired, PostDeny, PostDetour, PostForbidden, PostFails, PostApprove,
           Browse, SignIn, Refresh, RefreshFails, Answer
  <1>. QED  BY <1>1, <1>2, <1>3, <1>4

LEMMA ListedNext ==
    ASSUME ListedPages, NEW t \in Tabs, NEW p, Follows(t, p)
    PROVE  Listed(p)
  <1>. DEFINE q == page[t].rd
  <1>1. CASE p.kind \in {"error", "blocked"}
    BY <1>1 DEF Listed, Asking
  <1>2. ASSUME NEW r \in Requests, p = Loading(r, r) PROVE Listed(p)
    <2>1. r.client \in Clients /\ r.redirect \in Redirects
      BY AuthorizeAssumption DEF Redirects
    <2>. QED  BY <1>2, <2>1 DEF Listed, Loading
  <1>3. ASSUME page[t].kind \in Asking
        PROVE  /\ q.client \in Clients /\ q.redirect \in Redirects
               /\ page[t].flow.client = q.client
    BY <1>3 DEF ListedPages, Listed
  <1>4. CASE p.kind = "client"
    BY <1>4 DEF Listed, Asking
  <1>5. CASE /\ page[t].kind \in Asking /\ p.kind \in Asking
             /\ p.rd = q /\ p.flow = page[t].flow
    BY <1>3, <1>5 DEF Listed, Asking
  <1>6. CASE /\ Resolved(t, Absent) /\ cookies.user \in Allowed
             /\ p = ConsentPage([req |-> MintAuthReq(nextId, now, "as",
                                                     ConsentOf(q, cookies.user)),
                                 state |-> q.state], page[t].flow)
    <2>1. /\ p.kind = "consent" /\ p.flow = page[t].flow
          /\ p.blob.req.bind.client = q.client /\ p.blob.req.bind.redirect = q.redirect
          /\ p.blob.req.exp = now + AuthReqTTL
      BY <1>6 DEF ConsentPage, MintAuthReq, Artifact, ConsentOf
    <2>2. MatchRedirectURI(registered[q.client], q.redirect) /\ page[t].kind \in Asking
      BY <1>6 DEF Resolved, Asking
    <2>3. p.blob.req.exp \in Nat /\ p.blob.req.exp <= now + AuthReqTTL
      BY <2>1, TTLs DEF ListedPages, Clocks
    <2>. QED  BY <1>3, <2>1, <2>2, <2>3 DEF Listed, BlobListed, Asking
  <1>7. CASE /\ page[t].kind = "consent" /\ p.kind \in Asking
             /\ p.rd = Reconstruct(page[t].blob) /\ p.flow = page[t].flow
    <2>1. BlobListed(page[t].blob.req) /\ p.flow.client = page[t].blob.req.bind.client
      BY <1>7 DEF ListedPages, Listed
    <2>2. /\ p.rd.client = page[t].blob.req.bind.client
          /\ p.rd.redirect = page[t].blob.req.bind.redirect
      BY <1>7 DEF Reconstruct
    <2>. QED  BY <1>7, <2>1, <2>2 DEF Listed, BlobListed, Asking
  <1>8. CASE p \in blobs[t]
    BY <1>8 DEF ListedPages
  <1>. QED  BY <1>1, <1>2, <1>4, <1>5, <1>6, <1>7, <1>8 DEF Follows, ClientPage

LEMMA ListedInvariant == Spec => []ListedPages
  <1>1. Init => ListedPages
    BY DEF Init, ListedPages, Clocks, Listed, Blank, Asking
  <1>2. IInv /\ ListedPages /\ [Next]_vars => ListedPages'
    <2> SUFFICES ASSUME IInv, ListedPages, [Next]_vars PROVE ListedPages'
      OBVIOUS
    <2>1. Clocks' /\ \A req : BlobListed(req) => BlobListed(req)'
      BY WorldStep DEF IInv, ListedPages
    <2>2. ASSUME NEW p, Listed(p) PROVE Listed(p)'
      BY <2>1, <2>2 DEF Listed
    <2>3. ASSUME NEW t \in Tabs
          PROVE  /\ \A p : p = page'[t] => Listed(p)'
                 /\ \A c \in blobs'[t] : c.kind = "consent" /\ Listed(c)'
      <3>1. \A p : p = page'[t] => Listed(p)
        <4>1. CASE page'[t] = page[t]
          BY <4>1 DEF ListedPages
        <4>2. ASSUME NEW p, p = page'[t], Follows(t, p) PROVE Listed(p)
          BY <4>2, ListedNext
        <4>. QED  BY <4>1, <4>2, PageStep
      <3>2. \A c \in blobs'[t] : c.kind = "consent" /\ Listed(c)
        BY <3>1, BlobsStep DEF ListedPages
      <3>. QED  BY <2>2, <3>1, <3>2
    <2>. QED  BY <2>1, <2>3 DEF ListedPages, Listed, BlobListed
  <1>. QED  BY <1>1, <1>2, Invariant, PTL DEF Spec

\* The browser is only ever sent to a redirect URI that the client lists, or
\* listed no longer than a consent request lives, for any metadata and any edits.
THEOREM RedirectsAreListed == Spec => OnlyListedRedirects
  <1>. DEFINE Sent == \A t \in Tabs :
                        page'[t] # page[t] /\ page'[t].kind = "client" =>
                          \/ MatchRedirectURI(registered[page'[t].client], page'[t].to)
                          \/ now <= grace[page'[t].client][page'[t].to]
  <1>1. IInv /\ ListedPages /\ [Next]_vars => Sent
    <2> SUFFICES ASSUME IInv, ListedPages, [Next]_vars,
                        NEW t \in Tabs, page'[t] # page[t], page'[t].kind = "client"
                 PROVE  \/ MatchRedirectURI(registered[page'[t].client], page'[t].to)
                        \/ now <= grace[page'[t].client][page'[t].to]
      OBVIOUS
    <2>1. PICK p : p = page'[t] /\ p.kind = "client" /\ Follows(t, p)
      BY PageStep
    <2>2. ASSUME NEW error \in Errors, Resolved(t, error),
                 p = ClientPage(page[t].rd.redirect, page[t].rd.state, error, Absent,
                                page[t].flow)
          PROVE  MatchRedirectURI(registered[p.client], p.to)
      <3>1. p.client = page[t].flow.client /\ p.to = page[t].rd.redirect
        BY <2>2 DEF ClientPage
      <3>2. page[t].flow.client = page[t].rd.client
        BY <2>2 DEF ListedPages, Listed, Resolved, Asking
      <3>. QED  BY <2>2, <3>1, <3>2 DEF Resolved
    <2>3. ASSUME page[t].kind = "consent", VerifyAuthReq(page[t].blob.req, now),
                 NEW error, NEW code,
                 p = ClientPage(page[t].blob.req.bind.redirect, page[t].blob.state,
                                error, code, page[t].flow)
          PROVE  \/ MatchRedirectURI(registered[p.client], p.to)
                 \/ now <= grace[p.client][p.to]
      <3>1. p.client = page[t].flow.client /\ p.to = page[t].blob.req.bind.redirect
        BY <2>3 DEF ClientPage
      <3>2. /\ BlobListed(page[t].blob.req) /\ Clocks
            /\ page[t].flow.client = page[t].blob.req.bind.client
        BY <2>3 DEF ListedPages, Listed
      <3>3. p.client \in Clients /\ p.to \in Redirects
        BY <3>1, <3>2 DEF BlobListed
      <3>4. grace[p.client][p.to] \in Nat
        BY <3>2, <3>3 DEF Clocks
      <3>5. now \in Nat /\ page[t].blob.req.exp \in Nat /\ now <= page[t].blob.req.exp
        BY <2>3, <3>2 DEF VerifyAuthReq, ValidateWithLeeway, Clocks, BlobListed
      <3>. QED  BY <3>1, <3>2, <3>4, <3>5 DEF BlobListed
    <2>4. p \notin blobs[t]
      BY <2>1 DEF ListedPages
    <2>5. \A q : Loading(q, q).kind # "client"
      BY DEF Loading
    <2>6. \A blob, flow : ConsentPage(blob, flow).kind # "client"
      BY DEF ConsentPage
    <2>7. \/ MatchRedirectURI(registered[p.client], p.to)
          \/ now <= grace[p.client][p.to]
      BY <2>1, <2>2, <2>3, <2>4, <2>5, <2>6 DEF Follows, Asking
    <2>. QED  BY <2>1, <2>7
  <1>2. Spec => [][Sent]_vars
    BY <1>1, Invariant, ListedInvariant, PTL DEF Spec
  <1>. QED  BY <1>2 DEF OnlyListedRedirects
=============================================================================
