# oidc-proxy in TLA+

This directory is a verification development of oidc-proxy: TLA+ modules
translated from the Go sources and from the scripts of the HTML pages, TLC
configurations that check them on small instances, and TLAPS proofs of what
matters most for every instance. Paths below are relative to `src/`.

## The system

oidc-proxy is one Go process, run in any number of replicas, with two jobs.
For browsers it is a Traefik forwardAuth target (`/verify`) and the host of the
pages that sign a user in at an OpenID Connect provider. For MCP agents it is an
OAuth 2.1 authorization server and the token check of a resource server. It has
no database: sessions are cookies, and every OAuth artifact is a sealed token.

| Component (source) | State it keeps | Operations | What is hard, and what must hold |
| --- | --- | --- | --- |
| Token endpoint (`internal/web/mcp.go`) | none but the replay guard | redeem a code, rotate a refresh token | requests race between the guard's get and set; retries; a code is redeemed once, rotation never widens or drifts |
| Replay guard (`internal/mcpauth/store.go`) | per replica: jti's seen, LRU with expiry | `SeenBefore` | expiry against the artifact's, eviction, restarts; what is burned stays burned while it lives |
| Artifacts (`internal/mcpauth/artifacts.go`, `pkce.go`) | none; keys are shared | mint and verify consent blob, code, access and refresh token | clocks differ between replicas; kinds must not be confused; tokens work on every replica |
| Authorization endpoint (`mcp.go`, `mcp_templates.go`) | none; the consent blob carries it | GET (consent page), POST (mint the code) | the session and the client's metadata change under the open page; codes name their approver, responses go where the client may receive them, and the page's own policy lets them out |
| Browser session (`handlers.go`, `session.go`, `templates.go`) | cookies shared by tabs, sessionStorage per tab | verify, sign in, start, callback, refresh, session, sign out | scripts of several tabs interleave; sign-ins do not mix, the newest refresh token survives, redirects end |
| CIMD resolver (`internal/mcpauth/cimd.go`) | LRU cache of documents and failures | resolve | concurrent fetches finish in any order, documents change, hosts fail; staleness and load are bounded |
| Verification cache (`internal/cache/cache.go`, `internal/token/token.go`) | LRU cache of verified tokens | verify | the lifetime is computed before the entry is stored; nobody gets another's identity |
| Rate limiter (`internal/web/ratelimit.go`) | LRU cache of counters | allow | counters are shared by pointer and replaced; nobody is refused too early, and the excess is bounded |
| Configuration, start-up and keys (`internal/config/config.go`, `cmd/oidc-proxy/main.go`, `mcpauth.New`, `keys.go`) | read once, when a replica starts | start | replicas with different environments answer the steps of one flow; nothing half-configured runs, a replaced key ends what it signed, clients recover |
| Registration and discovery (`mcp.go`, `mcpauth.go`) | none; the client_id carries it | register, metadata documents, challenges | what one replica says is checked by another, or after a change |
| URL rules (`cimd.go`, `mcpauth.go`, `internal/utils/http.go`) | none | | spelling: case, port, userinfo, fragments, trailing slashes |
| SSRF guard (`cimd.go`) | none | | a predicate on an address; not modelled |

How they interact: a client that `/mcp-verify` turns away follows its challenge to
the two metadata documents, registers or presents a metadata URL, and opens the
browser. `/oauth2/authorize` asks the limiter, then the resolver, then
the verification cache (through the session cookies), and sends the browser to
the sign-in or refresh page with itself as `rd` when there is no session; it
mints a blob, then a code, which the client brings to `/oauth2/token`, possibly
on another replica; `/mcp-verify` accepts the access token. All four caches
(guard, limiter, verification, CIMD) are the same library type.

## Modules

```
TtlCache ──┬── TokenEndpoint ── TokenEndpointProofs ── TokenLineageProofs
           │     ├─ EXTENDS Artifacts
           │     └─ implements SingleUse
           ├── RateLimiter ── RateLimiterProofs
           ├── VerifyCache ── VerifyCacheProofs
           └── CimdResolver ── CimdProofs
                 └─ EXTENDS Urls
Artifacts, Urls ── Authorize ── AuthorizeProofs
Keys, Urls ── Deployment ── DeploymentProofs
BrowserSession ── BrowserProofs
```

Each `MC*` module gives values to the constants of the module it is named after.
Operators whose name ends in a suffix such as `_Bug` or `_Lax` are plausible
mistakes in the definition of the same name. They are used nowhere: put in its
place, each makes TLC find a property violated, which shows that the property
depends on that piece of code.

**TtlCache** is jellydator/ttlcache as the proxy uses it: a value with `items` and
an LRU list. A hit moves the key to the front and leaves its expiry; an expired
item keeps its place until capacity evicts it; capacity 0 is no limit.

**Artifacts** has one operator per Mint and Verify function. A token is a record
whose `bind` holds the claims a consent fixes. Signatures are not modelled: a
token verifies when a replica minted it, and then its claims are checked. The
fields `by`, `parent` and `root` are history. `Leeway` is `clockSkewLeeway`.

**TokenEndpoint** is `POST /oauth2/token` on several replicas. A process is a
request: `Begin…` stands for parsing and the Verify function, `GuardGet` and
`GuardSet` for the two halves of `SeenBefore`, `IssueGrant` or `Fail` for the
rest. `SealAuthReq` and `SealCode` stand for the consent that comes before (module
Authorize), `Restart` loses a replica's guard and its requests, and each replica
reads `now + Skew[r]`. `McpVerify` is `/mcp-verify`, which changes nothing.

**SingleUse** is what the code grant promises, without guard, clocks or requests: a
code opens at most one rotation family, and none after it lapsed. TokenEndpoint
implements it (`PromiseKept`) when a replica serves one request at a time; with
two at a time it does not, and `RaceIsBounded` says by how much.

**Authorize** is `/oauth2/authorize` and a browser with several tabs. `Get…` and
`Post…` are the ways the two handlers end, in the order of their checks. The
session, client metadata and the tabs change in between. A tab's page carries
`flow`, the request its client opened it with, which no code reads and which the
properties compare with what the client gets back.

A consent page has a `formAction`, the origins that its security policy lets the
form lead to; `Follow` is the browser that keeps to it, over redirects too. A user
is an identity, a subject with the e-mail it had when it signed in: `Sub` maps two
of them to one person, because the code compares subjects in one place and checks
e-mails in another. `Accepted` is what registration or a metadata document lets
through of the redirect URIs that a client presents.

**Urls** holds the rules about URLs, on records as `url.Parse` makes them.
**Keys** is what `loadKeys` derives from the environment, and signing, sealing and
checking with it; cryptography is perfect.

**Deployment** is a roll-out. An operator changes the environment, replicas restart
with it one by one (or stay down, if it does not boot), and one client goes around
the whole MCP flow, each request answered by any replica: call, challenge,
metadata, registration, consent, code, tokens, refresh. Time, single use and the
browser are left to the other modules. A token carries two history fields: `shown`,
what its consent page displayed, and `origin`, the signing key under which its
code was redeemed.

**BrowserSession** is `/verify` and the sign-in pages, and `/oauth2/authorize` as far
as the session goes. A script's run is split where
it awaits: `Callback` or `Refresh` up to the IdP's answer, `PostSession` for
`handleSession` with the cookies of that moment, `Finish` when its answer sets
the cookies. Reading the refresh cookie and redeeming it is one step; that it
was retired in between is one of the ways `RefreshFails`. The IdP is external.
`LoseIdToken` is a browser that drops one of the two cookies, once: the case in
which `/verify` and `/oauth2/authorize` disagree about where to send it.

**CimdResolver**, **VerifyCache** and **RateLimiter** split their one operation at the
points where the code holds no lock: lookup, fetch (or verify, or add), store. In
RateLimiter counters are objects, because a request may hold one that the cache
has already replaced. CimdResolver computes lifetimes as the code does, in
fixed-width nanoseconds, and validates URL, host and document. A fetch is over
within `Timeout`, because the HTTP client has one; `Wrap` stands for the width of
an int64 and `Second` for its nanoseconds. What is not modelled is a goroutine that
stalls for a tick outside its fetch.

## Runs

Time is a counter of ticks; lifetimes are one to three ticks, so that artifacts
are met before, at and after their expiry, within and beyond the leeway.
In TokenEndpoint and RateLimiter `Prompt = TRUE` means that no tick passes while a
request is being served. Where it is FALSE (TokenSkew), as in VerifyCache, requests
stall for as long as they like; CimdResolver has `Timeout`, which is less than a
tick in its run (0) and anything in its theorems. `Max…` constants bound
clock, identifiers, restarts and the user's actions; at the bounds the models
stop, so most runs disable the deadlock check, and no module has a lock or a
queue that could deadlock. TokenEndpoint's TypeOK is checked as a part of
GuardInv; in the three cache modules TypeOK only says how the state is to be read.

| Run | Question | Instance |
| --- | --- | --- |
| TokenSerial | Does a replica that serves one request at a time keep SingleUse? Are rotated refresh tokens rejected up to their expiry? Does the refresh lifetime slide and no more? | 1 replica, 1 request, leeway 1 |
| TokenSkew | Does the guard hold with skewed clocks, stalled requests and a capacity of one: what does it take to open a code twice? Do long-lived tokens work on every replica? | 2 replicas one tick apart, both mint codes, the one behind redeems them, with right and wrong verifiers |
| TokenLineage | Does whatever is issued or let through go back to one approved consent? What can two racing requests and a restart do? | 2 consents, 2 resources under one key, 2 requests at a time on one replica, symmetric, 1 restart, 8 ids |
| Authorize | Do codes name their approver, and do clients get the answer to their own request, unobserved? Are redirects confined to what the client lists, or listed within the blob's lifetime? Does the flow end? | 1 tab, 3 identities of 2 people, one with an e-mail that is not allowed, 12 requests, each wrong in one way or right, clients that present bad URIs among good ones, 3 ticks, 2 changes by the rest of the world, fair |
| BrowserTabs | Do tabs disturb each other? Does a sign-out hold? Does an approval get its detours over with? | 2 tabs, 2 users and one not allowed, rotating IdP, 3 user actions, 1 expiry or lost cookie |
| BrowserSettles | Does every page load and every approval end? | 2 tabs, a user no longer allowed, IdP that may omit the refresh token, 1 expiry or lost cookie, fair |
| Rollout | What survives a roll-out, what must not, and does the client recover? | 2 replicas, symmetric, 2 roll-outs of 11 environments (below), fair |
| Limiter | How much gets through in a window? Is anybody refused too early? | 2 requests, 2 clients, capacity 1, limit 2, counters that stop at 4 (`MaxCount`) |
| VerifyCache | Does everybody get their own identity? When does an entry die with its token? | 2 calls, capacity 1, tokens of different lifetime and junk, key outages |
| Cimd | Whose document is served, how stale, how long is a failure held, how often is a host asked? | 2 requests, capacity 1, 2 trusted client_ids of which one serves the other's document, 1 untrusted and 2 malformed; 4 versions (capped, default, floor and overflowing lifetime), a bad one or an outage; 3 ticks |

Two of anything is where the races start: every race in this code is between one
request that has read and one that writes. Authorize needs one tab, because all
that tabs share is the session, and `ChangeSession` changes it in every way
another tab could. Capacity one makes every second key an eviction. One restart, and one tick between the clocks, tell the replicas apart.
In TokenLineage the 8 ids allow three families: RaceIsBounded is tight without a
restart (two of one code), and its bound for one restart (four) is not reached.
TokenSerial and TokenSkew have no restart, so SlidingWindow says nothing of a guard
that was emptied; in TokenSkew all tokens come from the replica that is behind, and
that those of the other are good everywhere too is the theorem LongLivedWorkEverywhere.
WindowBound is tight: with two requests and limit 2 a client gets 5 through. `MaxCount`
is far enough past the limit for a limit that is one too high to show.

The environments of Rollout differ from the first one in what an operator would
change: the signing key (with derived, or with pinned kid and encryption key; the
pinned ones come without metadata URLs, so that the client must register), more
required scopes, fewer supported ones with a blank entry, resource and issuer
moved, a resource spelt in capitals, and three mistakes: a required scope that is
not supported, one with a blank inside, an issuer with a path. Two roll-outs lead
from the first one through any other to any third, with replicas of up to three
environments in between. `AskedTwice` is tight: two consent pages do happen.

Two runs end in a counterexample to a sentence of the repository that the code does
not keep:

| Run | The sentence | What happens |
| --- | --- | --- |
| TokenRefreshReuse | "a reused (already-rotated) token is rejected" (`internal/web/mcp.go:441`) | The guard keeps the jti RefreshTTL from its use, the token is accepted until RefreshTTL and 60 s after its minting: rotated in its first minute, it can be rotated again at the very end. One replica, no restart, no eviction. |
| BrowserReturns | "window.location = \<original URL\>" (`README.md:65`) | `/verify` sends an absolute `rd`, which the pages discard: the visitor lands on `/`. |

The models contain more disagreements between code and text. They have no run of
their own: they are small, or a property states what holds instead.

- A guard entry does outlive its code (`store.go:28-29`), by the code's age at its
  use. Harmless; that it lives long enough is `CodesGuarded`.
- A code is refused as "issued in the future" by a replica whose clock is behind
  the minter's, as codes get no leeway (`artifacts.go:348`), while `README.md:203-205`
  promises replicas without a shared store. `LongLivedPortable` is about access
  and refresh tokens only.
- A request that stalls between `VerifyCode` and `SeenBefore` (`mcp.go:381-387`) until
  both the code and its guard entry have expired opens a second family; "burn the
  code on first use" says the comment. It takes a code redeemed at once and a
  retry sent in its last instant: the exception in `ReopenedOnlyByEviction`.
- A call that stalls between computing a lifetime and storing (`cache.go:52-54`)
  leaves an entry that outlives its token, against `cache.go:20-21`: the exception
  in `EntryWithinToken`.
- `VERIFY_CACHE_SIZE=0` is no limit, against `README.md:133`.
- `max-age=3600, no-store` is cached for an hour, against `cimd.go:192-194`, as the
  first directive that names a lifetime decides (`CacheTTL`).
- A max-age beyond int64 nanoseconds wraps before it is clamped (`cimd.go:206`),
  against `README.md:309` (`Duration`). The result is in the band all the same.
- With a path in `MCP_ISSUER` the metadata advertises `<issuer>/oauth2/...`
  (`mcpauth.go:244-247`), and `server.go:68-81` serves `/oauth2/...` only, so the
  client gets a 404 (`NotFound`) unless the edge strips the prefix; `README.md:279`
  offers the path-suffixed metadata for such issuers.
- A refresh token for a resource that is no longer configured is rotated for as
  long as the client likes, while every access token it yields is a 401:
  `tokenRefresh` copies the resource (`mcp.go:450-457`). "The token we mint is
  always usable" (`mcp.go:213-216`) is about the authorization only, as
  `MintedUsable` has it.
- "fall short start getting `403` until they expire" (`README.md:316-320`): the
  shortfall outlives the access token, because a refresh copies the scope
  (`mcp.go:455`). A client that steps up recovers, as the text goes on to say.
- An entry of `MCP_REQUIRED_SCOPES` with a blank inside boots if the same entry is
  supported, and no token ever satisfies it (`config.go:96`, `mcpauth.go:220-223`).
- A path in `MCP_RESOURCE` with an empty segment inside (`/a//b`) boots, and no
  client finds its metadata: the mux redirects to the path without the segment,
  and `handlePRM` expects the one with it (`mcp.go:51`, `mcpauth.go:133`). The
  model treats segments `.` and `..`, which the mux resolves too, as ordinary.
- `tokenRefresh` does not ask the allowlist again; `/mcp-verify` does, which is what
  `README.md:313-314` promises.
- For a redirect host with `;`, `,` or a quote in it a code is minted that the
  browser never delivers (`mcp_templates.go:74`): said there to be intended, and
  FlowEnds makes the exception.
- `mcp.go:553` says that it mirrors the branches of `handleVerify`; with a refresh
  cookie and no id_token cookie the one goes to refresh and the other to sign-in.

## Fairness

Authorize, BrowserSettles and Rollout assume some. In the first two it is weak fairness per tab of the
server's answer, of the scripts, and of the user, who eventually acts on a page
that waits for it (presses sign in, approves or denies). The first two are what a
browser and an HTTP server do; the last is the precondition of the claim. No
fairness is assumed of success: a refresh may fail every time. FlowEnds is
checked for one tab and a bounded number of changes by others on purpose. Two
users who insist on approving in two tabs of one browser send each other back to
sign-in forever: each sign-in invalidates the other's consent page.
`OwnSessionSticks` says that nothing else does.

In Rollout every replica is eventually restarted with the target environment, and
the client keeps trying, wherever the load balancer sends it; the operator need
not do anything. That is what a roll-out is, and without a client there is
nothing to recover. Recovers asks nothing of configurations that are not `Usable`:
one that does not boot, or one of the mistakes above that boot: an issuer with a
path, an empty segment in the resource's, a blank in a required scope.

## Proofs

Eight modules prove theorems about the specifications, for any values of the
constants that satisfy the modules' assumptions (`...Assumption`: types, and which
fields a record has) and regardless of the `Max...` bounds. Where a theorem needs
more, it says so as a hypothesis of its own:

| Hypothesis | Meaning | Theorems |
| --- | --- | --- |
| `Prompt` | no request is in progress for a whole tick | WindowSlides, RacesAreBounded, RefusalsAreEarned, WindowsAreBounded |
| `[]NeverFull` | no guard has burned more jti's since its start than it holds | RacesAreBounded, PromiseIsKept |
| `Serial` | one request at a time, answered at once, no restart, equal clocks | PromiseIsKept |
| `~SignMayFail` | signing with a loaded key succeeds | BurnedToRotate |
| `OneService` | one resource, replicas' clocks within the leeway of each other | LongLivedWorkEverywhere |
| `NoRepeats` | no scope is configured twice | ResponsesAnswer, TypeCorrect of Authorize |

Each hypothesis holds in the run that checks the same property, and each is needed.
`Prompt`: a limiter request that stalls for a window counts in one that is over; a
token request that stalls mints from what has expired. `[]NeverFull`: what the guard
evicts opens again, which is the exception in ReopenedOnlyByEviction. `Serial`: SingleUse
says that a code is redeemed once and before it lapses; each of the four can break
that: two requests at once, stalling, a restart, skewed clocks. `SignMayFail`: a token is
burned before its successor is signed. `NoRepeats`: `MCP_SCOPES_SUPPORTED` is not
deduplicated, so a request without a scope is granted a repeated one twice, and once
if it was resumed through `rd` on the way.

### Token endpoint

`TokenEndpointProofs`, with `Prompt` and `SignMayFail` either way:

- `TypeCorrect`: `Spec => []TypeOK`, with jti's unique across replicas and kinds;
- `GuardInvariant`: `Spec => []GuardInv`, the inductive invariant;
- `CodesGuarded`: `Spec => []GuardCoversCodes`;
- `RefreshesGuarded`: `Spec => []GuardCoversRefreshes`.

GuardCoversCodes is not inductive. A guard entry
is stamped with the time of use plus the full lifetime, an artifact with the time
of minting plus the lifetime; that the first is the later one needs that a request
in progress holds an artifact already issued by its own replica's clock
(RequestsVerified, from VerifyCode's zero leeway), that expiry is issue time plus
lifetime (MintedByNow), and that an entry is renewed, never shortened, when the
same jti is set again (EntriesOutlast). This is why the mutant that gives codes a
leeway breaks the guard, and why RefreshesGuarded is confined to the minting
replica and to the nominal lifetime: refresh tokens do have a leeway, which is the
finding TokenRefreshReuse. The proof has a lemma per cache operation, one per
kind of step, and one step per action.

`TokenLineageProofs` builds on GuardInv:

- `LineageIsKept`: `Spec => []LineageKept`;
- `FamiliesAreSessions`: `Spec => []FamilyIsOneSession`;
- `LetThroughIsApproved`: `Spec => []LetThroughAsApproved`;
- `BurnedToRotate`: `Spec => []RefreshBurnedOnlyByRotation`, unless signing fails;
- `WindowSlides`: `Spec => []SlidingWindow`, unless requests stall;
- `LongLivedWorkEverywhere`: `Spec => []LongLivedPortable`, for one service;
- `ReopenedByEvictionOnly`: `Spec => []ReopenedOnlyByEviction`;
- `RacesAreBounded`: `Spec /\ []NeverFull => []RaceIsBounded`, unless requests stall;
- `PromiseIsKept`: `Spec /\ []NeverFull => PromiseKept`, the refinement of SingleUse.

The first three share `LineageInv`: every artifact names a parent that was issued
and has the same claims and root, and so does what a request in progress is about
to mint from. For BurnedToRotate a request that has set the guard must still hold
the token it burned, and for WindowSlides what a request holds must still be good
(StillGood), which is where the hypotheses come in.

How often a code is redeemed is a matter of counting. A guard has everything that
was burned on it until it must evict (BurnedFirst); for the proofs it does not
matter which entry goes then, so nothing depends on the order of the LRU list. Hence
a request slot that has let go of a burned code cannot get hold of it again while it
lives (MayOpenStep), and the slots that may still open a family for it and
the families it has opened are together never more than the slots (OncePerSlot): a
slot that opens one stops being one that may (FewerOpeners). A restart gives every slot
of its replica one more chance (RaceInv, OneStartMore). With one slot and no restart
that is one family per code, and the refinement follows action by action: an
approval is one of SingleUse (ApproveRefined), a tick that passes a code's expiry
lapses it (LapseRefined), the first grant redeems it (RedeemRefined, FirstGrant),
and all else stutters (PromiseStutters, PromiseStep).

### Authorization endpoint

`AuthorizeProofs`:

- `CodesSpeakForApprover`: `Spec => []CodesForApprover`;
- `DeliveredSafely`: `Spec => []SafeDelivery`;
- `ResponsesAnswer`: `Spec => []AnswersItsRequest`, unless scopes repeat;
- `TypeCorrect`: `Spec => []TypeOK`, unless scopes repeat: what is granted are
  supported scopes, each once;
- `RedirectsAreListed`: `Spec => OnlyListedRedirects`, an action property.

None is inductive: what a page can lead to was decided when it was rendered, and
the browser can go back to it after everything has changed. For the first two the
invariant says of every consent page that is shown or can be gone back to that its
blob names an allowed identity and a safe URI (PagesOK, HistoryOK), which comes from
the registered URIs (RegisteredOK, AcceptedIsValid) through the relaxed match of
loopback ones (MatchIsSafe), which checks userinfo and fragment of the candidate. For ResponsesAnswer it says that every page on the way
derives from the request the flow began with (FaithfulPages): a request resumed
through `rd` is not the original one but asks for the same consent, because
granting what was granted changes nothing (GrantedTwice). That is the one fact about
sequences that needs an argument: `Once` numbers the first occurrences in a
sequence, so that its properties are about ranks in a finite set and not about a
loop (Ranks, OncePicks, OnceIsInjective, OnceOfInjective). TypeCorrect rests on it
too: every page on the way asks for supported scopes (ScopedPages), so a grant is
a sequence of them without repeats, and no longer than there are any
(InjectiveLength, GrantedIsScope). For RedirectsAreListed a
blob lives no longer than the grace that its URI has from the moment it is delisted
(ListedPages).

### Roll-outs

`DeploymentProofs`, from where the system may start:

- `TypeCorrect`: `Spec => []TypeOK`, of which the point is that nothing runs that
  does not boot;
- `KeyRotationCutsOff`: `Spec => []RotationCutsOff`;
- `LetThroughAsShown`: `Spec => []ServedAsApproved`;
- `MintedIsUsable`: `Spec => MintedUsable`, an action property;
- `AskedTwiceAtMost`: `Spec => []AskedTwice`;
- `RecoversInSteps`: a bound on the steps that recovery takes, for which no run has
  a property of its own: the part of Recovers that is not about fairness.

The first four share an invariant, `IInv`: whatever the client has in hand names the
resource and scope its page showed (InHandOK, TokensOK), and both tokens of a pair
were signed with the key their session began under (PairOK). The last is needed
because a refresh signs with the key of the replica that answers it: that this is
the old key follows from the refresh token having verified there (VerifiedIsOwn).
SignedVerifies and IssuedVerifies are the other direction, for MintedIsUsable.

For AskedTwiceAtMost, `AskingInv` says how far the client is after one consent page
and after two: after one, what it has in hand is of that configuration, or it has
started over and asks for enough (AskedOnce); after two, what it has in hand carries
what is required as well, so that nobody is asked again (AskedAgain). It says so of every
configuration that all replicas happen to run, not of the target alone, because the
target can change, and change back before a replica has noticed.

RecoversInSteps is about a `Rank` from 1 to 37: ten for each of three things that can
be left over from another configuration (a flow under way, a scope to ask for, a
client_id), plus the steps to being served if there were none. When all replicas
run one usable configuration, every step of the client serves it or lowers its
rank; no step adds anything stale (NothingStale), and one that starts over gets rid
of something (StaleStartsOver). What Recovers adds is that some step is always
possible and fairness takes it, which is for TLC.

### Browser session

`BrowserProofs`, for any number of tabs, users and sign-ins:

- `BrowserTypes` (TypeOK), `OneIdentityHolds` (OneIdentity), `RefreshCookieStaysGood`
  (RefreshStaysGood), `SignOutIsKept` (SignOutHolds), `TabsKeepTheirSignIns`
  (TabsDoNotDisturb), `AuthorizeIsResumed` (AuthorizeResumed), `RenewedSessionSticks`
  (OwnSessionSticks): each `Spec => []` the property.

The cookies are written by the answer to a request that was sent earlier, so each
property of the cookies needs the same of every answer under way: that its two
tokens are one user's (PairsUnderway), that it is no older than the newest unless its
tab is still at it (FreshUnderway), that it was fetched since the last sign-out
(UnderwaySinceSignOut). What a page will do needs what its storage says:
`Shapes` ties each page to the state and redirect it left in its tab,
AuthorizeRemembered says that a detour from the authorize page carries it, and
AnsweredAllowed and WriterGood that whoever wrote the cookies last was let in.

### Caches

`VerifyCacheProofs`: `IdentityIsOwn` (OwnIdentity) and `EntriesStayWithinToken`
(EntryWithinToken). What a call is about to store belongs to the token it was given
(CallsOnToken); that an entry dies with its token needs the moment at which its
lifetime was computed (LifetimeRight).

`CimdProofs`: `DocumentsAreOwn` (OwnDocument), `DocumentsAreRecent`
(StalenessBounded), `FailuresAreForgotten` (FailureForgotten) and `HostsAreSpared`
(FetchesBounded). A cached document was judged good for its own URL (ResolverInv);
it expires within MaxTTL of its store, which comes within Timeout of the moment its
host still served it (Timely). The lifetime is in the band whatever a header says,
wrapped or not: the proof takes `Wrap` as any number. For HostsAreSpared
(Polite): after a slot has fetched, the cache has an answer for the URL that
outlives the shortest lifetime, or else the full cache crowded it out and the count
began again; so each slot has at most one fetch per window, and the fetches are
counted by an injection into the slots.

`RateLimiterProofs`: `LimiterInvariant`, `RefusalsAreEarned` (RefusedOnlyWhenSpent, an
action property) and `WindowsAreBounded` (WindowBound). Counters are objects, and the
invariant says who points to which: a counter belongs to one client (Owned), what it
counts was admitted in its window (Spent), and the counters that a client can have
alive at once are as many as request slots, each from one slot's first hit
(Windows). That is so at the instant at which a window begins; by the next one a
single counter is left, and the hit that made it is gone (Started, RoomAtRest), so
that the window after can add no more than the limit less one to what this one let
through. PastBounded carries the bound over to windows that are over.

### Model-checked only

The liveness properties FlowEnds, PagesSettle and Recovers: they are about fairness
and ENABLED, which are out of the prover's reach. Every invariant and every action
property that a passing run checks is a theorem, as is the refinement.

## Not modelled

The SSRF guard is a predicate on the address being dialled: what it refuses is one
of the ways in which a fetch of CimdResolver fails. The parsing of URLs, PEM,
base64, JSON and JOSE, and of forwarded headers, is abstracted to its results.
Cookie attributes and the access_token cookie (written with the id_token's, never
read) are left out, and so are layout and wording of the pages. Cross-origin
requests and forged artifacts are excluded by assumption. An id_token too large for a cookie would be lost at
every sign-in and the browser would be sent around for as long as the user signs
in; only the one-time loss is modelled. The "Try again" link of the failure
page is a new visit. In Deployment all users are allowed.
In BrowserSession the verification of an id_token depends on the token and the clock
only: OwnSessionSticks says nothing of an outage of the IdP's keys, which VerifyCache
has. Of the loopback match (`MatchRedirectURI`) SafeDelivery checks what is delivered
to; which parts of a loopback URI may differ is stated once, in the rule. In the same
way StalenessBounded bounds the age of a document whichever directive decides, and
whether its lifetime overflows or not: that it is the right one is not stated. A refresh whose answer is lost is
an answer like any other: the client has nothing left to show.

The abstractions that join the modules: Authorize and TokenEndpoint see one
configuration, Deployment sees no time; BrowserSession takes an authorize request
to be good, Authorize takes the sign-in and refresh pages to end as BrowserSettles
shows that they do.

## Plan

Done: the token endpoint, the caches, the authorization endpoint, the browser
session and roll-outs of the whole MCP flow, each with its runs, and a theorem for
each safety property that the runs check. To do, in this order:

1. What the liveness runs rest on, as RecoversInSteps does it for Recovers: a rank
   that every step of a tab lowers while nobody else acts, for FlowEnds and for
   PagesSettle.
2. The hypotheses that a weaker one might replace: `Prompt` in RacesAreBounded (count
   what stalled past the lifetime) and in WindowsAreBounded (count one limit more per
   stalled request), `[]NeverFull` in PromiseIsKept (a code that opens again must
   have been evicted within its lifetime).
3. No cache holds more than its capacity, from lemmas about TtlCache alone.
