---------------------------- MODULE CimdResolver ----------------------------
(***************************************************************************)
(* Resolving an https client_id: the fetched, validated and cached client  *)
(* metadata documents of internal/mcpauth/cimd.go.                         *)
(*                                                                         *)
(* resolve() looks the URL up, fetches it on a miss, and stores what came  *)
(* back, good or bad.  Requests for one URL are not merged, so they        *)
(* interleave; meanwhile the document changes, its host fails, and callers *)
(* give up (the context of a cancelled request fails its fetch).           *)
(*                                                                         *)
(* Instants are seconds; durations are int64 nanoseconds as in the code,   *)
(* scaled down: Second of them to a second, Wrap in place of 2^64.         *)
(***************************************************************************)
EXTENDS TtlCache, Urls, Integers, FiniteSetsExt

CONSTANTS
    Procs,              \* requests being resolved at a time
    ClientIds,          \* client_ids with "://" in them, as parsed URLs
    AllowedHosts,       \* MCP_CIMD_ALLOWED_HOSTS; empty: any host
    Subdomains,         \* pairs of a host name and a domain it is below
    Documents,          \* per client_id: what its host may serve, see Document
    MinTTL, MaxTTL, NegativeTTL,    \* cimdMinTTL and so on
    DefaultTTL,         \* MCP_CIMD_CACHE_TTL
    CacheSize,
    Second, Wrap,
    Timeout,            \* by when a fetch is over, in seconds (CIMDOptions.Timeout)
    MaxTime, MaxChanges \* bounds of the model

\* A document: the client_id it names, its redirect URIs, and whether it has a
\* name and no authentication method but "none"; with the directives of the
\* Cache-Control header it comes with, in order.
Document(ver, client, redirects, usable, cc) ==
    [ver |-> ver, client |-> client, redirects |-> redirects,
     usable |-> usable, cc |-> cc]

Directive == [name : {"no-store", "no-cache", "max-age", "other"}, secs : Nat]

ASSUME CimdAssumption ==
    /\ IsFiniteSet(Procs)
    /\ \A u \in ClientIds : \A d \in Documents[u] : d.cc \in Seq(Directive)
    /\ \A entry \in AllowedHosts : entry.below \in BOOLEAN
    /\ {MinTTL, MaxTTL, NegativeTTL, DefaultTTL} \subseteq Nat
    /\ MinTTL <= MaxTTL
    /\ CacheSize \in Nat \ {0}
    /\ Second \in Nat \ {0} /\ Wrap \in Nat \ {0}
    /\ {Timeout, MaxTime, MaxChanges} \subseteq Nat

VARIABLES
    now,
    doc,        \* per URL: what its host answers now; Down for a failure
    cache,      \* URL -> a document, or Down for a remembered failure
    pc, url, got,   \* per request: step, the URL, what the fetch brought,
    since,      \* and when it began
    served,     \* the last answer that any request got (history)
    lastUp,     \* per URL and answer: when it was last what the host answers
    lastFail,   \* per URL: when a fetch last failed
    fetches,    \* the fetches within the last Window, see FetchOf, of each URL
                \* since others last pushed it out of the cache (history)
    changes     \* how often a host changed its answer

reqs == <<pc, url, got, since>>
history == <<lastUp, lastFail, fetches, changes>>
vars == <<now, doc, cache, reqs, served, history>>

Down == [ver |-> 0, cc |-> <<>>]
Answers(u) == Documents[u] \union {Down}
AnyAnswer == UNION {Answers(u) : u \in ClientIds}
Never == -100

\* The instants up to t within the shortest lifetime of a cache entry.
ShortestTTL == Min({MinTTL, NegativeTTL})
Window(t) == (t - ShortestTTL)..t

\* The n-th fetch of a URL by one request slot at one instant.
FetchOf(u, t, p, n) == [url |-> u, at |-> t, by |-> p, nth |-> n]
FetchesAt(u, times) == {f \in fetches : f.url = u /\ f.at \in times}

Init ==
    /\ now = 0
    /\ doc \in {f \in [ClientIds -> AnyAnswer] : \A u \in ClientIds : f[u] \in Answers(u)}
    /\ cache = EmptyCache
    /\ pc = [p \in Procs |-> "idle"]
    /\ url = [p \in Procs |-> NoUrl]
    /\ got = [p \in Procs |-> Down]
    /\ since = [p \in Procs |-> 0]
    /\ served = [url |-> NoUrl, doc |-> Down, at |-> 0]
    /\ lastUp = [u \in ClientIds |-> [d \in Answers(u) |-> Never]]
    /\ lastFail = [u \in ClientIds |-> Never]
    /\ fetches = {}
    /\ changes = 0

Busy == {p \in Procs : pc[p] # "idle"}

\* The HTTP client gives up, and so fails the fetch, before it takes longer.
Tick ==
    /\ now < MaxTime
    /\ \A p \in Busy : now < since[p] + Timeout
    /\ now' = now + 1
    /\ fetches' = {f \in fetches : f.at \in Window(now + 1)}
    /\ UNCHANGED <<doc, cache, reqs, served, lastUp, lastFail, changes>>

\* The owner publishes another document, or the host fails or comes back.
Change(u, d) ==
    /\ changes < MaxChanges
    /\ d # doc[u]
    /\ changes' = changes + 1
    /\ lastUp' = [lastUp EXCEPT ![u][doc[u]] = now]
    /\ doc' = [doc EXCEPT ![u] = d]
    /\ UNCHANGED <<now, cache, reqs, served, lastFail, fetches>>

-----------------------------------------------------------------------------
(* How long a document is cached.                                          *)

\* What n nanoseconds are in a two's complement Duration.
Duration(n) ==
    LET m == n % Wrap
    IN IF m < Wrap \div 2 THEN m ELSE m - Wrap

Clamp(d, lo, hi) == IF d < lo THEN lo ELSE IF d > hi THEN hi ELSE d

Band(d) == Clamp(d, MinTTL * Second, MaxTTL * Second)

\* Directives are read from left to right and the first one that says
\* anything about a lifetime decides.
CacheTTL(cc) ==
    LET deciding == {i \in DOMAIN cc : cc[i].name # "other"}
    IN IF deciding = {} THEN Band(DefaultTTL * Second)
       ELSE IF cc[Min(deciding)].name = "max-age"
            THEN Band(Duration(cc[Min(deciding)].secs * Second))
            ELSE MinTTL * Second

-----------------------------------------------------------------------------
(* resolve().                                                              *)

\* The trust policy: entries are hosts, or a domain and whatever is below it.
HostAllowed(u) ==
    \/ AllowedHosts = {}
    \/ \E entry \in AllowedHosts :
          u.host = entry.host \/ (entry.below /\ <<u.host, entry.host>> \in Subdomains)

\* Decided before the cache or the network is touched.
Resolvable(u) == ValidateCIMDURL(u) /\ HostAllowed(u)

Validate_AnyClient(d, clientId) ==
    d.usable /\ d.redirects # {} /\ \A u \in d.redirects : ValidateRedirectURI(u)

\* validate(), of a document that was served for clientId.
Validate(d, clientId) ==
    /\ d.client = clientId
    /\ d.usable
    /\ d.redirects # {} /\ \A u \in d.redirects : ValidateRedirectURI(u)

Idle(p) ==
    /\ pc' = [pc EXCEPT ![p] = "idle"]
    /\ url' = [url EXCEPT ![p] = NoUrl]
    /\ got' = [got EXCEPT ![p] = Down]
    /\ since' = [since EXCEPT ![p] = 0]

Serve(u, d) == served' = [url |-> u, doc |-> d, at |-> now]

\* A remembered document, or a remembered failure, answers at once.
LookupHit(p, u) ==
    /\ pc[p] = "idle"
    /\ Resolvable(u)
    /\ Hit(cache, u, now)
    /\ cache' = AfterGet(cache, u, now)
    /\ Serve(u, ValueOf(cache, u))
    /\ UNCHANGED <<now, doc, reqs, history>>

LookupMiss(p, u) ==
    /\ pc[p] = "idle"
    /\ Resolvable(u)
    /\ ~Hit(cache, u, now)
    /\ pc' = [pc EXCEPT ![p] = "fetch"]
    /\ url' = [url EXCEPT ![p] = u]
    /\ since' = [since EXCEPT ![p] = now]
    /\ UNCHANGED <<now, doc, cache, got, served, history>>

\* The fetch ends with what the host answers at that moment, if that is a good
\* document, or fails on our side: a timeout, an address that dialGuard refuses,
\* or the caller hung up and its context was cancelled.
Fetch(p, outcome) ==
    /\ pc[p] = "fetch"
    /\ \/ outcome = Down
       \/ outcome = doc[url[p]] /\ outcome # Down /\ Validate(outcome, url[p])
    /\ pc' = [pc EXCEPT ![p] = "store"]
    /\ got' = [got EXCEPT ![p] = outcome]
    /\ LET earlier == {f \in FetchesAt(url[p], {now}) : f.by = p}
       IN fetches' = fetches \union {FetchOf(url[p], now, p, Cardinality(earlier) + 1)}
    /\ lastFail' = IF outcome = Down THEN [lastFail EXCEPT ![url[p]] = now]
                   ELSE lastFail
    /\ UNCHANGED <<now, doc, cache, url, since, served, lastUp, changes>>

\* Seconds as the header asks for them, whatever the band.
Unclamped(cc) ==
    LET deciding == {i \in DOMAIN cc : cc[i].name # "other"}
    IN IF deciding = {} THEN DefaultTTL
       ELSE IF cc[Min(deciding)].name = "max-age" THEN cc[Min(deciding)].secs ELSE 0

\* The lifetime, in seconds, of what a fetch brought.
Lifetime_Same(d) == CacheTTL(d.cc) \div Second
Lifetime_Uncapped(d) ==
    IF d = Down THEN NegativeTTL ELSE Max({MinTTL, Unclamped(d.cc)})
Lifetime_NoFloor(d) ==
    IF d = Down THEN NegativeTTL ELSE Min({MaxTTL, Unclamped(d.cc)})
Lifetime(d) == IF d = Down THEN NegativeTTL ELSE CacheTTL(d.cc) \div Second

Store(p) ==
    /\ pc[p] = "store"
    /\ cache' = CacheSet(cache, url[p], got[p], Lifetime(got[p]), now, CacheSize)
    /\ Serve(url[p], got[p])
    /\ fetches' = {f \in fetches : f.url \notin Evicted(cache, url[p], CacheSize)}
    /\ Idle(p)
    /\ UNCHANGED <<now, doc, lastUp, lastFail, changes>>

Next ==
    \/ Tick
    \/ \E u \in ClientIds : \E d \in Answers(u) : Change(u, d)
    \/ \E p \in Procs :
          \/ \E u \in ClientIds : LookupHit(p, u) \/ LookupMiss(p, u)
          \/ \E outcome \in AnyAnswer : Fetch(p, outcome)
          \/ Store(p)

Spec == Init /\ [][Next]_vars

-----------------------------------------------------------------------------
(* Properties.                                                             *)

TypeOK ==
    /\ now \in 0..MaxTime
    /\ \A u \in ClientIds : doc[u] \in Answers(u)
    /\ ItemsOK(cache, ClientIds, AnyAnswer) /\ LruOK(cache)
    /\ pc \in [Procs -> {"idle", "fetch", "store"}]
    /\ \A p \in Busy : /\ url[p] \in ClientIds /\ Resolvable(url[p])
                       /\ since[p] \in (now - Timeout)..now
    /\ got \in [Procs -> AnyAnswer]
    /\ served.doc \in AnyAnswer

LastUp(u, d) == IF doc[u] = d THEN now ELSE lastUp[u][d]

\* A client is judged by a document its host did serve, and no longer ago
\* than the longest time a document is fetched and cached: a redirect URI its
\* owner took out stops working within that time, whatever the header said.
StalenessBounded ==
    served.doc # Down =>
        served.at - LastUp(served.url, served.doc) <= MaxTTL + Timeout

\* Whatever is published where, and whichever request fetched it: a client is
\* only ever judged by a document made for it, at a URL and a host that may
\* vouch for clients, whose redirect URIs are all ones that a registration
\* would have been granted.
OwnDocument ==
    served.doc # Down =>
        /\ served.doc.client = served.url
        /\ served.url.scheme = "https" /\ HostAllowed(served.url)
        /\ \A u \in served.doc.redirects : u.scheme = "https" \/ Loopback(u)

\* A failure is held against a client for NegativeTTL, from when it is stored,
\* and no longer: whoever is refused is refused for a fetch that failed that recently.  This is how
\* a client whose host recovers is served again.
FailureForgotten ==
    served.doc = Down /\ served.url # NoUrl =>
        served.at - lastFail[served.url] <= NegativeTTL + Timeout

\* "a hot client_id cannot turn every authorize into an outbound fetch": a
\* host sees at most one fetch per request slot within the shortest lifetime,
\* unless the cache is full and other client_ids push that one out of it.
FetchesBounded ==
    \A u \in ClientIds :
        Cardinality(FetchesAt(u, Window(now))) <= Cardinality(Procs)
=============================================================================
