----------------------------- MODULE CimdProofs -----------------------------
(***************************************************************************)
(* Theorems about CimdResolver, for any requests, client_ids, documents,   *)
(* trust policy, lifetimes and cache size: a client is judged only by its  *)
(* own document, by one that is not too old, and not by an old failure;    *)
(* and a host is not fetched from more often than it should be.            *)
(***************************************************************************)
EXTENDS CimdResolver, FiniteSetTheorems, TLAPS

LEMMA MinOfNaturals ==
    ASSUME NEW S \in SUBSET Nat, S # {}
    PROVE  Min(S) \in S /\ \A y \in S : Min(S) <= y
<1> DEFINE Less == {pair \in Nat \X Nat : pair[1] < pair[2]}
<1>1. IsWellFoundedOn(Less, Nat)
  BY NatLessThanWellFounded DEF OpToRel
<1>2. \A x, y \in S : y < x => <<y, x>> \in Less
  OBVIOUS
<1> HIDE DEF Less
<1>3. PICK x \in S : \A y \in S : <<y, x>> \notin Less
  BY <1>1, WFMin
<1>4. ASSUME NEW y \in S PROVE x <= y
  <2>1. ~(y < x)
    BY <1>2, <1>3
  <2> QED BY <2>1
<1> QED BY <1>4 DEF Min

USE CimdAssumption

-----------------------------------------------------------------------------
(* What the state looks like between any two steps.                        *)

\* A document that may be used for client u, or a failure.
Usable(d, u) == d = Down \/ Validate(d, u)

Clocks ==
    /\ now \in Nat
    /\ DOMAIN doc = ClientIds /\ \A u \in ClientIds : doc[u] \in Answers(u)
    /\ lastFail \in [ClientIds -> Int] /\ \A u \in ClientIds : lastFail[u] <= now
    /\ DOMAIN lastUp = ClientIds
    /\ \A u \in ClientIds : /\ lastUp[u] \in [Answers(u) -> Int]
                            /\ \A d \in Answers(u) : lastUp[u][d] <= now

Requests ==
    /\ DOMAIN pc = Procs /\ DOMAIN url = Procs /\ DOMAIN got = Procs /\ DOMAIN since = Procs
    /\ \A p \in Procs :
          /\ pc[p] \in {"idle", "fetch", "store"}
          /\ pc[p] # "idle" => /\ url[p] \in ClientIds /\ Resolvable(url[p])
                               /\ since[p] \in Nat /\ since[p] <= now /\ now <= since[p] + Timeout
          /\ pc[p] = "store" => got[p] \in Answers(url[p]) /\ Usable(got[p], url[p])

Entries ==
    \A u \in Keys(cache) :
        /\ u \in ClientIds /\ Resolvable(u)
        /\ ValueOf(cache, u) \in Answers(u) /\ Usable(ValueOf(cache, u), u)

\* The last answer, if there was one.
Judged ==
    \/ served.url = NoUrl /\ served.doc = Down
    \/ /\ served.url \in ClientIds /\ Resolvable(served.url)
       /\ served.doc \in Answers(served.url) /\ Usable(served.doc, served.url)
       /\ served.at \in Nat /\ served.at <= now

ResolverInv == Clocks /\ Requests /\ Entries /\ Judged

LEMMA ClocksStep == ASSUME Clocks, Requests, [Next]_vars PROVE Clocks'
<1> USE DEF Clocks
<1>1. CASE Tick
  BY <1>1 DEF Tick
<1>2. ASSUME NEW u \in ClientIds, NEW d \in Answers(u), Change(u, d) PROVE Clocks'
  <2>1. now' = now /\ lastFail' = lastFail
    BY <1>2 DEF Change
  <2>2. doc' = [doc EXCEPT ![u] = d] /\ lastUp' = [lastUp EXCEPT ![u][doc[u]] = now]
    BY <1>2 DEF Change
  <2>3. DOMAIN doc' = ClientIds /\ \A v \in ClientIds : doc'[v] \in Answers(v)
    BY <2>2
  <2>4. DOMAIN lastUp' = ClientIds
    BY <2>2
  <2>5. ASSUME NEW v \in ClientIds
        PROVE  /\ lastUp'[v] \in [Answers(v) -> Int]
               /\ \A e \in Answers(v) : lastUp'[v][e] <= now
    BY <2>2
  <2> QED BY <2>1, <2>3, <2>4, <2>5
<1>3. ASSUME NEW p \in Procs, NEW outcome \in AnyAnswer, Fetch(p, outcome) PROVE Clocks'
  <2>1. url[p] \in ClientIds
    BY <1>3 DEF Requests, Fetch
  <2>2. lastFail' = lastFail \/ lastFail' = [lastFail EXCEPT ![url[p]] = now]
    BY <1>3 DEF Fetch
  <2>3. lastFail' \in [ClientIds -> Int] /\ \A u \in ClientIds : lastFail'[u] <= now
    <3>1. now \in Int /\ now <= now
      OBVIOUS
    <3> QED BY <2>1, <2>2, <3>1
  <2> QED BY <1>3, <2>3 DEF Fetch
<1>4. ASSUME NEW p \in Procs, Store(p) PROVE Clocks'
  BY <1>4 DEF Store
<1>5. ASSUME NEW p \in Procs, NEW u \in ClientIds, LookupHit(p, u) \/ LookupMiss(p, u)
      PROVE  Clocks'
  BY <1>5 DEF LookupHit, LookupMiss, history
<1>6. CASE UNCHANGED vars
  BY <1>6 DEF vars, history
<1> QED BY <1>1, <1>2, <1>3, <1>4, <1>5, <1>6 DEF Next

LEMMA RequestsStep == ASSUME Clocks, Requests, [Next]_vars PROVE Requests'
<1> USE DEF Requests
<1> now \in Nat /\ Timeout \in Nat
  BY DEF Clocks
<1>1. CASE (\E u \in ClientIds : \E d \in Answers(u) : Change(u, d)) \/ UNCHANGED vars
  BY <1>1 DEF Change, vars, reqs
<1>6. CASE Tick
  <2>1. now' = now + 1 /\ UNCHANGED <<pc, url, got, since>>
    BY <1>6 DEF Tick, reqs
  <2>2. \A p \in Procs : pc[p] # "idle" => now < since[p] + Timeout
    BY <1>6 DEF Tick, Busy
  <2> QED BY <2>1, <2>2
<1>2. ASSUME NEW p \in Procs, NEW u \in ClientIds, LookupHit(p, u) PROVE Requests'
  BY <1>2 DEF LookupHit, reqs
<1>3. ASSUME NEW p \in Procs, NEW u \in ClientIds, LookupMiss(p, u) PROVE Requests'
  BY <1>3 DEF LookupMiss
<1>4. ASSUME NEW p \in Procs, NEW outcome \in AnyAnswer, Fetch(p, outcome) PROVE Requests'
  <2>1. url[p] \in ClientIds /\ UNCHANGED url
    BY <1>4 DEF Fetch
  <2>2. outcome \in Answers(url[p]) /\ Usable(outcome, url[p])
    BY <1>4, <2>1 DEF Fetch, Clocks, Answers, Usable
  <2> QED BY <1>4, <2>1, <2>2 DEF Fetch
<1>5. ASSUME NEW p \in Procs, Store(p) PROVE Requests'
  BY <1>5 DEF Store, Idle
<1> QED BY <1>1, <1>2, <1>3, <1>4, <1>5, <1>6 DEF Next

\* What a Store leaves in the cache.
LEMMA StoredItems ==
    ASSUME NEW p \in Procs, Store(p)
    PROVE  \A u \in Keys(cache') :
              \/ /\ u = url[p] /\ ValueOf(cache', u) = got[p]
                 /\ cache'.items[u].exp = now + Lifetime(got[p])
              \/ u \in Keys(cache) /\ cache'.items[u] = cache.items[u]
  BY DEF Store, CacheSet, Keys, ValueOf

\* Nothing else writes an entry.
LEMMA ItemsStep ==
    ASSUME [Next]_vars
    PROVE  cache'.items = cache.items \/ \E p \in Procs : Store(p)
<1>1. ASSUME NEW p \in Procs, NEW u \in ClientIds, LookupHit(p, u)
      PROVE  cache'.items = cache.items
  BY <1>1 DEF LookupHit, AfterGet
<1> QED BY <1>1 DEF Next, Tick, Change, LookupMiss, Fetch, vars

LEMMA EntriesStep == ASSUME Requests, Entries, [Next]_vars PROVE Entries'
<1> USE DEF Entries
<1>1. CASE cache'.items = cache.items
  BY <1>1 DEF Keys, ValueOf
<1>2. ASSUME NEW p \in Procs, Store(p) PROVE Entries'
  <2>1. /\ url[p] \in ClientIds /\ Resolvable(url[p])
        /\ got[p] \in Answers(url[p]) /\ Usable(got[p], url[p])
    BY <1>2 DEF Requests, Store
  <2> QED BY <1>2, <2>1, StoredItems DEF ValueOf
<1>3. cache'.items = cache.items \/ \E p \in Procs : Store(p)
  BY ItemsStep
<1> QED BY <1>1, <1>2, <1>3

\* An answer comes from the cache or from the request's own fetch.
LEMMA ServedStep ==
    ASSUME [Next]_vars
    PROVE  \/ UNCHANGED served /\ now' \in {now, now + 1}
           \/ \E p \in Procs, u \in ClientIds :
                LookupHit(p, u) /\ Hit(cache, u, now) /\ UNCHANGED now
                /\ served' = [url |-> u, doc |-> ValueOf(cache, u), at |-> now]
           \/ \E p \in Procs :
                Store(p) /\ UNCHANGED now
                /\ served' = [url |-> url[p], doc |-> got[p], at |-> now]
<1>1. CASE UNCHANGED vars \/ Tick \/ \E u \in ClientIds : \E d \in Answers(u) : Change(u, d)
  BY <1>1 DEF vars, Tick, Change
<1>2. ASSUME NEW p \in Procs, NEW u \in ClientIds, LookupHit(p, u)
      PROVE  /\ Hit(cache, u, now) /\ UNCHANGED now
             /\ served' = [url |-> u, doc |-> ValueOf(cache, u), at |-> now]
  BY <1>2 DEF LookupHit, Serve
<1>3. ASSUME NEW p \in Procs, Store(p)
      PROVE  /\ UNCHANGED now
             /\ served' = [url |-> url[p], doc |-> got[p], at |-> now]
  BY <1>3 DEF Store, Serve
<1>4. ASSUME NEW p \in Procs, \/ \E u \in ClientIds : LookupMiss(p, u)
                             \/ \E outcome \in AnyAnswer : Fetch(p, outcome)
      PROVE  UNCHANGED <<served, now>>
  BY <1>4 DEF LookupMiss, Fetch
<1> QED BY <1>1, <1>2, <1>3, <1>4 DEF Next

LEMMA JudgedStep ==
    ASSUME Clocks, Requests, Entries, Judged, [Next]_vars
    PROVE  Judged'
<1> USE DEF Judged
<1>1. CASE UNCHANGED served /\ now' \in {now, now + 1}
  <2>1. now <= now'
    BY <1>1 DEF Clocks
  <2> QED BY <1>1, <2>1 DEF Clocks
<1>2. ASSUME NEW u \in ClientIds, Hit(cache, u, now), UNCHANGED now,
             served' = [url |-> u, doc |-> ValueOf(cache, u), at |-> now]
      PROVE  Judged'
  BY <1>2 DEF Entries, Hit, Clocks
<1>3. ASSUME NEW p \in Procs, Store(p), UNCHANGED now,
             served' = [url |-> url[p], doc |-> got[p], at |-> now]
      PROVE  Judged'
  BY <1>3 DEF Requests, Store, Clocks
<1> QED BY <1>1, <1>2, <1>3, ServedStep

LEMMA ResolverInvariant == Spec => []ResolverInv
<1>1. Init => ResolverInv
  <2> SUFFICES ASSUME Init PROVE ResolverInv
    OBVIOUS
  <2>1. Clocks
    BY DEF Init, Clocks, Never
  <2>2. Requests /\ Judged
    BY DEF Init, Requests, Judged
  <2>3. Entries
    BY DEF Init, Entries, EmptyCache, Keys
  <2> QED BY <2>1, <2>2, <2>3 DEF ResolverInv
<1>2. ResolverInv /\ [Next]_vars => ResolverInv'
  BY ClocksStep, RequestsStep, EntriesStep, JudgedStep DEF ResolverInv
<1> QED BY <1>1, <1>2, PTL DEF Spec

\* A client is only ever judged by a document made for it, at a URL and a host
\* that may vouch for clients.
THEOREM DocumentsAreOwn == Spec => []OwnDocument
<1>1. ResolverInv => OwnDocument
  BY DEF ResolverInv, Judged, Usable, OwnDocument, Validate, ValidateRedirectURI,
     Resolvable, ValidateCIMDURL
<1> QED BY <1>1, ResolverInvariant, PTL

-----------------------------------------------------------------------------
(* How long what a fetch brought is remembered.                            *)

LEMMA DurationTypes == ASSUME NEW n \in Int PROVE Duration(n) \in Int
  BY DEF Duration

\* Whatever a header says, the lifetime of a document is within the band.
LEMMA LifetimeBounds ==
    ASSUME NEW u \in ClientIds, NEW d \in Answers(u)
    PROVE  /\ Lifetime(d) \in Int
           /\ d # Down => MinTTL <= Lifetime(d) /\ Lifetime(d) <= MaxTTL
           /\ d = Down => Lifetime(d) = NegativeTTL
<1>1. CASE d = Down
  BY <1>1 DEF Lifetime
<1>2. CASE d # Down
  <2> DEFINE cc == d.cc
             deciding == {i \in DOMAIN cc : cc[i].name # "other"}
             low == MinTTL * Second
             top == MaxTTL * Second
  <2>1. cc \in Seq(Directive)
    BY <1>2 DEF Answers
  <2>2. low \in Int /\ top \in Int /\ low <= top /\ DefaultTTL * Second \in Int
    <3>1. /\ MinTTL \in Nat /\ MaxTTL \in Nat /\ MinTTL <= MaxTTL
          /\ DefaultTTL \in Nat /\ Second \in Nat
      OBVIOUS
    <3>2. \A a, b, c \in Nat : a <= b => a * c \in Int /\ b * c \in Int /\ a * c <= b * c
      OBVIOUS
    <3> QED BY <3>1, <3>2
  <2>3. ASSUME NEW t \in Int PROVE Band(t) \in low..top
    BY <2>2 DEF Band, Clamp
  <2>4. CacheTTL(cc) \in low..top
    <3>1. CASE deciding = {}
      BY <2>2, <2>3, <3>1 DEF CacheTTL
    <3>2. CASE deciding # {}
      <4>1. deciding \in SUBSET Nat
        BY <2>1
      <4>2. Min(deciding) \in DOMAIN cc
        BY <3>2, <4>1, MinOfNaturals
      <4>3. cc[Min(deciding)].secs \in Nat
        <5>1. \A i \in DOMAIN cc : cc[i] \in Directive
          BY <2>1
        <5> QED BY <4>2, <5>1 DEF Directive
      <4>4. cc[Min(deciding)].secs * Second \in Int
        BY <4>3
      <4>5. Band(Duration(cc[Min(deciding)].secs * Second)) \in low..top
        BY <2>3, <4>4, DurationTypes
      <4> QED BY <2>2, <3>2, <4>5 DEF CacheTTL
    <3> QED BY <3>1, <3>2
  <2>5. ASSUME NEW x \in low..top
        PROVE  x \div Second \in MinTTL..MaxTTL
    <3>1. /\ x \in Int /\ Second \in Nat \ {0} /\ MinTTL \in Nat /\ MaxTTL \in Nat
          /\ MinTTL * Second <= x /\ x <= MaxTTL * Second
      BY <2>2
    <3>2. \A a, b \in Nat, c \in Nat \ {0}, y \in Int :
             a * c <= y /\ y <= b * c => y \div c \in Int /\ a <= y \div c /\ y \div c <= b
      OBVIOUS
    <3> QED BY <3>1, <3>2
  <2> HIDE DEF low, top
  <2>6. Lifetime(d) = CacheTTL(cc) \div Second
    BY <1>2 DEF Lifetime
  <2> QED BY <1>2, <2>4, <2>5, <2>6
<1> QED BY <1>1, <1>2

-----------------------------------------------------------------------------
(* How old what a client is judged by may be.  A request stores what its   *)
(* fetch brought within Timeout of its beginning.                          *)

\* What a request is about to store is what the host answered, or a failure,
\* no earlier than the request began.
JustFetched ==
    \A p \in Procs : pc[p] = "store" =>
        IF got[p] = Down THEN since[p] <= lastFail[url[p]]
        ELSE since[p] <= LastUp(url[p], got[p])

\* An entry ends within its bound after the document was up, or the fetch failed.
EntriesTimely ==
    \A u \in Keys(cache) :
        LET d == ValueOf(cache, u)
        IN /\ cache.items[u].exp \in Int
           /\ IF d = Down THEN cache.items[u].exp <= lastFail[u] + NegativeTTL + Timeout
              ELSE cache.items[u].exp <= LastUp(u, d) + MaxTTL + Timeout

Timely == JustFetched /\ EntriesTimely /\ StalenessBounded /\ FailureForgotten

\* The past only comes nearer.
LEMMA HistoryStep ==
    ASSUME Clocks, Requests, [Next]_vars
    PROVE  \A u \in ClientIds :
              /\ lastFail[u] <= lastFail'[u]
              /\ \A d \in Answers(u) : LastUp(u, d) \in Int /\ LastUp(u, d)' \in Int
                                       /\ LastUp(u, d) <= LastUp(u, d)'
<1> SUFFICES ASSUME NEW u \in ClientIds, NEW d \in Answers(u)
             PROVE  /\ lastFail[u] <= lastFail'[u]
                    /\ LastUp(u, d) \in Int /\ LastUp(u, d)' \in Int
                    /\ LastUp(u, d) <= LastUp(u, d)'
  BY DEF Answers
<1>1. Clocks'
  BY ClocksStep
<1>2. /\ now \in Int /\ now' \in Int /\ now <= now'
      /\ lastUp[u][d] \in Int /\ lastUp[u][d] <= now
      /\ lastUp'[u][d] \in Int /\ lastUp'[u][d] <= now'
      /\ lastFail[u] \in Int /\ lastFail[u] <= now
  BY <1>1, ServedStep DEF Clocks
<1>3. lastFail[u] <= lastFail'[u]
  <2>1. lastFail' = lastFail \/ \E p \in Procs : lastFail' = [lastFail EXCEPT ![url[p]] = now]
    BY DEF Next, Tick, Change, LookupHit, LookupMiss, Fetch, Store, vars, history
  <2>2. lastFail'[u] \in {lastFail[u], now}
    BY <2>1 DEF Clocks
  <2> QED BY <1>2, <2>2
<1>4. ASSUME UNCHANGED <<doc, lastUp>> PROVE LastUp(u, d) <= LastUp(u, d)'
  <2>1. CASE doc[u] = d
    BY <1>2, <1>4, <2>1 DEF LastUp
  <2>2. CASE doc[u] # d
    BY <1>2, <1>4, <2>2 DEF LastUp
  <2> QED BY <2>1, <2>2
<1>5. ASSUME NEW v \in ClientIds, NEW e \in Answers(v), Change(v, e)
      PROVE  LastUp(u, d) <= LastUp(u, d)'
  <2>1. /\ doc' = [doc EXCEPT ![v] = e] /\ lastUp' = [lastUp EXCEPT ![v][doc[v]] = now]
        /\ now' = now
    BY <1>5 DEF Change
  <2>2. DOMAIN doc = ClientIds /\ DOMAIN lastUp = ClientIds /\ DOMAIN lastUp[u] = Answers(u)
    BY DEF Clocks
  <2>3. CASE doc[u] = d
    <3>1. doc'[u] = d \/ (v = u /\ lastUp'[u][d] = now)
      BY <2>1, <2>2, <2>3
    <3> QED BY <1>2, <2>1, <2>3, <3>1 DEF LastUp
  <2>4. CASE doc[u] # d
    <3>1. lastUp'[u][d] = lastUp[u][d]
      BY <2>1, <2>2, <2>4
    <3> QED BY <1>2, <2>1, <2>4, <3>1 DEF LastUp
  <2> QED BY <2>3, <2>4
<1>6. UNCHANGED <<doc, lastUp>> \/ \E v \in ClientIds : \E e \in Answers(v) : Change(v, e)
  BY DEF Next, Tick, LookupHit, LookupMiss, Fetch, Store, vars, history
<1>7. LastUp(u, d) \in Int /\ LastUp(u, d)' \in Int
  BY <1>2 DEF LastUp
<1> QED BY <1>2, <1>3, <1>4, <1>5, <1>6, <1>7

LEMMA JustFetchedStep ==
    ASSUME ResolverInv, JustFetched, [Next]_vars
    PROVE  JustFetched'
<1> USE DEF JustFetched
<1>1. Clocks /\ Requests /\ Clocks'
  BY ClocksStep DEF ResolverInv
\* That what was brought, d of u, came no earlier than t.
<1> DEFINE After(t, u, d) == IF d = Down THEN t <= lastFail[u] ELSE t <= LastUp(u, d)
<1>2. ASSUME NEW p \in Procs, pc[p] = "store", NEW t, t = since[p], NEW u, u = url[p],
             NEW d, d = got[p]
      PROVE  After(t, u, d)'
  <2>1. /\ u \in ClientIds /\ d \in Answers(u) /\ t \in Int
        /\ lastFail[u] \in Int /\ lastFail'[u] \in Int
    BY <1>1, <1>2 DEF Requests, Clocks
  <2>2. After(t, u, d)
    BY <1>2
  <2>3. /\ lastFail[u] <= lastFail'[u]
        /\ LastUp(u, d) \in Int /\ LastUp(u, d)' \in Int /\ LastUp(u, d) <= LastUp(u, d)'
    BY <1>1, <2>1, HistoryStep
  <2>4. CASE d = Down
    BY <2>1, <2>2, <2>3, <2>4
  <2>5. CASE d # Down
    <3>1. t <= LastUp(u, d)
      BY <2>2, <2>5
    <3>2. t <= LastUp(u, d)'
      BY <2>1, <2>3, <3>1
    <3> QED BY <2>5, <3>2
  <2> QED BY <2>4, <2>5
<1>3. ASSUME NEW p \in Procs, pc[p] = "store", UNCHANGED <<since[p], url[p], got[p]>>
      PROVE  (IF got[p] = Down THEN since[p] <= lastFail[url[p]]
              ELSE since[p] <= LastUp(url[p], got[p]))'
  <2>1. PICK t, u, d : t = since[p] /\ u = url[p] /\ d = got[p]
    OBVIOUS
  <2>2. After(t, u, d)'
    BY <1>2, <1>3, <2>1
  <2>3. t = since'[p] /\ u = url'[p] /\ d = got'[p]
    BY <1>3, <2>1
  <2> QED BY <2>2, <2>3 DEF LastUp
<1>4. CASE \/ Tick \/ UNCHANGED vars \/ \E u \in ClientIds : \E d \in Answers(u) : Change(u, d)
  <2>1. UNCHANGED <<pc, url, got, since>>
    BY <1>4 DEF Tick, Change, vars, reqs
  <2> QED BY <1>3, <2>1
<1>5. ASSUME NEW p \in Procs, NEW u \in ClientIds, LookupHit(p, u) PROVE JustFetched'
  <2>1. UNCHANGED <<pc, url, got, since>>
    BY <1>5 DEF LookupHit, reqs
  <2> QED BY <1>3, <2>1
<1>6. ASSUME NEW p \in Procs,
             Store(p) \/ \E u \in ClientIds : LookupMiss(p, u)
      PROVE  JustFetched'
  <2>1. pc'[p] # "store"
    BY <1>1, <1>6 DEF Store, LookupMiss, Idle, Requests
  <2>2. \A q \in Procs \ {p} : UNCHANGED <<pc[q], url[q], got[q], since[q]>>
    BY <1>1, <1>6 DEF Store, LookupMiss, Idle, Requests
  <2> QED BY <1>3, <2>1, <2>2
<1>7. ASSUME NEW p \in Procs, NEW outcome \in AnyAnswer, Fetch(p, outcome)
      PROVE  JustFetched'
  <2>1. \A q \in Procs \ {p} : UNCHANGED <<pc[q], url[q], got[q], since[q]>>
    BY <1>1, <1>7 DEF Fetch, Requests
  <2>2. PICK u : u = url[p]
    OBVIOUS
  <2>3. /\ u \in ClientIds /\ url'[p] = u /\ got'[p] = outcome
        /\ since'[p] = since[p] /\ since[p] <= now
    BY <1>1, <1>7, <2>2 DEF Fetch, Requests
  <2>4. /\ outcome = Down => lastFail'[u] = now
        /\ outcome # Down => LastUp(u, outcome)' = now
    BY <1>1, <1>7, <2>2, <2>3 DEF Fetch, Clocks, LastUp
  <2>5. (IF got[p] = Down THEN since[p] <= lastFail[url[p]]
         ELSE since[p] <= LastUp(url[p], got[p]))'
    BY <2>3, <2>4 DEF LastUp
  <2> QED BY <1>3, <2>1, <2>5
<1> QED BY <1>4, <1>5, <1>6, <1>7 DEF Next

LEMMA EntriesTimelyStep ==
    ASSUME ResolverInv, JustFetched, EntriesTimely, [Next]_vars
    PROVE  EntriesTimely'
<1>1. Clocks /\ Requests /\ Entries /\ Clocks'
  BY ClocksStep DEF ResolverInv
\* That an entry for u and d ends in time.
<1> DEFINE Within(exp, u, d) ==
             IF d = Down THEN exp <= lastFail[u] + NegativeTTL + Timeout
             ELSE exp <= LastUp(u, d) + MaxTTL + Timeout
<1>2. ASSUME NEW u \in Keys(cache), NEW d, d = ValueOf(cache, u),
             NEW exp, exp = cache.items[u].exp
      PROVE  exp \in Int /\ Within(exp, u, d)'
  <2>1. u \in ClientIds /\ d \in Answers(u)
    BY <1>1, <1>2 DEF Entries
  <2>2. exp \in Int /\ lastFail[u] \in Int /\ lastFail'[u] \in Int
    BY <1>1, <1>2, <2>1 DEF EntriesTimely, Clocks
  <2>3. LastUp(u, d) \in Int /\ LastUp(u, d)' \in Int /\ LastUp(u, d) <= LastUp(u, d)'
    BY <1>1, <2>1, HistoryStep
  <2>4. lastFail[u] <= lastFail'[u]
    BY <1>1, <2>1, HistoryStep
  <2>5. Within(exp, u, d)
    BY <1>2 DEF EntriesTimely
  <2>6. CASE d = Down
    BY <2>2, <2>4, <2>5, <2>6
  <2>7. CASE d # Down
    BY <2>2, <2>3, <2>5, <2>7
  <2> QED BY <2>2, <2>6, <2>7
<1>3. CASE cache'.items = cache.items
  <2>1. Keys(cache') = Keys(cache) /\ \A u : ValueOf(cache', u) = ValueOf(cache, u)
    BY <1>3 DEF ValueOf, Keys
  <2> QED BY <1>2, <1>3, <2>1 DEF EntriesTimely
<1>4. ASSUME NEW p \in Procs, Store(p) PROVE EntriesTimely'
  <2>1. PICK u, d : u = url[p] /\ d = got[p]
    OBVIOUS
  <2>2. /\ pc[p] = "store" /\ u \in ClientIds /\ d \in Answers(u)
        /\ since[p] \in Nat /\ now <= since[p] + Timeout
        /\ UNCHANGED <<now, doc, lastUp, lastFail>>
    BY <1>1, <1>4, <2>1 DEF Requests, Store
  <2>3. /\ Lifetime(d) \in Int
        /\ d # Down => Lifetime(d) <= MaxTTL
        /\ d = Down => Lifetime(d) = NegativeTTL
    BY <2>2, LifetimeBounds
  <2>4. IF d = Down THEN since[p] <= lastFail'[u] ELSE since[p] <= LastUp(u, d)'
    BY <2>1, <2>2 DEF JustFetched, LastUp
  <2>5. ASSUME NEW exp, exp = now + Lifetime(d) PROVE exp \in Int /\ Within(exp, u, d)'
    <3>1. now \in Int /\ Timeout \in Nat /\ NegativeTTL \in Nat /\ MaxTTL \in Nat
      BY <1>1 DEF Clocks
    <3>2. CASE d = Down
      <4>1. lastFail'[u] \in Int
        BY <1>1, <2>2 DEF Clocks
      <4> QED BY <2>2, <2>3, <2>4, <2>5, <3>1, <3>2, <4>1
    <3>3. CASE d # Down
      <4>1. since[p] <= LastUp(u, d)' /\ LastUp(u, d)' \in Int
        BY <1>1, <2>2, <2>4, <3>3, HistoryStep
      <4>2. exp \in Int /\ exp <= now + MaxTTL
        BY <2>3, <2>5, <3>1, <3>3
      <4> QED BY <2>2, <3>1, <3>3, <4>1, <4>2
    <3> QED BY <3>2, <3>3
  <2>6. ASSUME NEW v \in Keys(cache'), NEW e, e = ValueOf(cache', v),
               NEW exp, exp = cache'.items[v].exp
        PROVE  exp \in Int /\ Within(exp, v, e)'
    <3>1. CASE v = u /\ e = d /\ exp = now + Lifetime(d)
      <4>1. exp \in Int /\ Within(exp, u, d)'
        BY <2>5, <3>1
      <4> QED BY <3>1, <4>1
    <3>2. CASE v \in Keys(cache) /\ cache'.items[v] = cache.items[v]
      <4>1. e = ValueOf(cache, v) /\ exp = cache.items[v].exp
        BY <2>6, <3>2 DEF ValueOf
      <4> QED BY <1>2, <3>2, <4>1
    <3> QED BY <1>4, <2>1, <2>6, <3>1, <3>2, StoredItems
  <2> QED BY <2>6 DEF EntriesTimely
<1>5. cache'.items = cache.items \/ \E p \in Procs : Store(p)
  BY ItemsStep
<1> QED BY <1>3, <1>4, <1>5

\* What is served ends within its bound.
LEMMA ServedTimely ==
    ASSUME ResolverInv, Timely, [Next]_vars
    PROVE  StalenessBounded' /\ FailureForgotten'
<1>1. Clocks /\ Requests /\ Entries /\ Judged /\ Clocks'
  BY ClocksStep DEF ResolverInv
<1>2. ASSUME NEW u \in ClientIds, NEW d \in Answers(u), NEW at \in Int,
             served' = [url |-> u, doc |-> d, at |-> at],
             IF d = Down THEN at <= lastFail[u] + NegativeTTL + Timeout
             ELSE at <= LastUp(u, d) + MaxTTL + Timeout
      PROVE  StalenessBounded' /\ FailureForgotten'
  <2>1. /\ LastUp(u, d) \in Int /\ LastUp(u, d)' \in Int /\ LastUp(u, d) <= LastUp(u, d)'
        /\ lastFail[u] <= lastFail'[u] /\ lastFail[u] \in Int /\ lastFail'[u] \in Int
    BY <1>1, HistoryStep DEF Clocks
  <2>2. CASE d = Down
    BY <1>2, <2>1, <2>2 DEF StalenessBounded, FailureForgotten
  <2>3. CASE d # Down
    <3>1. at - LastUp(u, d)' <= MaxTTL + Timeout
      BY <1>2, <2>1, <2>3
    <3> QED BY <1>2, <2>3, <3>1 DEF StalenessBounded, FailureForgotten, LastUp
  <2> QED BY <2>2, <2>3
<1>3. CASE UNCHANGED served
  <2>1. CASE served.url = NoUrl /\ served.doc = Down
    BY <1>3, <2>1 DEF StalenessBounded, FailureForgotten
  <2>2. CASE /\ served.url \in ClientIds /\ served.doc \in Answers(served.url)
             /\ served.at \in Nat /\ served.url # NoUrl
    <3>1. /\ LastUp(served.url, served.doc) \in Int /\ LastUp(served.url, served.doc)' \in Int
          /\ LastUp(served.url, served.doc) <= LastUp(served.url, served.doc)'
      BY <1>1, <1>3, <2>2, HistoryStep DEF LastUp
    <3>2. /\ lastFail[served.url] <= lastFail'[served.url]
          /\ lastFail[served.url] \in Int /\ lastFail'[served.url] \in Int
      BY <1>1, <2>2, HistoryStep DEF Clocks
    <3>3. FailureForgotten'
      BY <1>3, <2>2, <3>2 DEF Timely, FailureForgotten
    <3>4. StalenessBounded'
      BY <1>3, <2>2, <3>1 DEF Timely, StalenessBounded
    <3> QED BY <3>3, <3>4
  <2>3. ~Resolvable(NoUrl)
    BY DEF Resolvable, ValidateCIMDURL, NoUrl, Url
  <2> QED BY <1>1, <2>1, <2>2, <2>3 DEF Judged
<1>4. ASSUME NEW u \in ClientIds, Hit(cache, u, now),
             served' = [url |-> u, doc |-> ValueOf(cache, u), at |-> now]
      PROVE  StalenessBounded' /\ FailureForgotten'
  <2> DEFINE d == ValueOf(cache, u)
  <2>1. u \in Keys(cache) /\ now <= cache.items[u].exp
    BY <1>4 DEF Hit
  <2>2. d \in Answers(u) /\ now \in Int
    BY <1>1, <2>1 DEF Entries, Clocks
  <2>3. /\ cache.items[u].exp \in Int
        /\ IF d = Down THEN cache.items[u].exp <= lastFail[u] + NegativeTTL + Timeout
           ELSE cache.items[u].exp <= LastUp(u, d) + MaxTTL + Timeout
    BY <2>1 DEF Timely, EntriesTimely
  <2>4. LastUp(u, d) \in Int /\ lastFail[u] \in Int
    BY <1>1, <2>2, HistoryStep DEF Clocks
  <2>5. IF d = Down THEN now <= lastFail[u] + NegativeTTL + Timeout ELSE now <= LastUp(u, d) + MaxTTL + Timeout
    <3> DEFINE exp == cache.items[u].exp
    <3> HIDE DEF d
    <3>1. CASE d = Down
      <4>1. exp <= lastFail[u] + NegativeTTL + Timeout
        BY <2>3, <3>1
      <4>2. lastFail[u] + NegativeTTL + Timeout \in Int
        BY <2>4
      <4> QED BY <2>1, <2>2, <2>3, <3>1, <4>1, <4>2
    <3>2. CASE d # Down
      <4>1. exp <= LastUp(u, d) + MaxTTL + Timeout
        BY <2>3, <3>2
      <4>2. LastUp(u, d) + MaxTTL + Timeout \in Int
        BY <2>4
      <4> QED BY <2>1, <2>2, <2>3, <3>2, <4>1, <4>2
    <3> QED BY <3>1, <3>2
  <2> QED BY <1>2, <1>4, <2>2, <2>5
<1>5. ASSUME NEW p \in Procs, Store(p), served' = [url |-> url[p], doc |-> got[p], at |-> now]
      PROVE  StalenessBounded' /\ FailureForgotten'
  <2>1. PICK u, d : u = url[p] /\ d = got[p]
    OBVIOUS
  <2>2. /\ u \in ClientIds /\ d \in Answers(u) /\ now \in Int
        /\ since[p] \in Int /\ now <= since[p] + Timeout
    BY <1>1, <1>5, <2>1 DEF Requests, Store, Clocks
  <2>3. IF d = Down THEN since[p] <= lastFail[u] ELSE since[p] <= LastUp(u, d)
    BY <1>5, <2>1 DEF Timely, JustFetched, Store
  <2>4. LastUp(u, d) \in Int /\ lastFail[u] \in Int
    BY <1>1, <2>2, HistoryStep DEF Clocks
  <2>5. IF d = Down THEN now <= lastFail[u] + NegativeTTL + Timeout
        ELSE now <= LastUp(u, d) + MaxTTL + Timeout
    BY <2>2, <2>3, <2>4
  <2> QED BY <1>2, <1>5, <2>1, <2>2, <2>5
<1> QED BY <1>3, <1>4, <1>5, ServedStep

LEMMA TimelyInvariant == Spec => []Timely
<1>1. Init => Timely
  BY DEF Init, Timely, JustFetched, EntriesTimely, StalenessBounded, FailureForgotten,
     EmptyCache, Keys
<1>2. ResolverInv /\ Timely /\ [Next]_vars => Timely'
  BY JustFetchedStep, EntriesTimelyStep, ServedTimely DEF Timely
<1> QED BY <1>1, <1>2, ResolverInvariant, PTL DEF Spec

\* A client is judged by a document that its host served at most MaxTTL and
\* the time of one fetch ago.
THEOREM DocumentsAreRecent == Spec => []StalenessBounded
<1>1. Timely => StalenessBounded
  BY DEF Timely
<1> QED BY <1>1, TimelyInvariant, PTL

\* A failure is held against a client for NegativeTTL and the time of one fetch
\* at most.
THEOREM FailuresAreForgotten == Spec => []FailureForgotten
<1>1. Timely => FailureForgotten
  BY DEF Timely
<1> QED BY <1>1, TimelyInvariant, PTL

-----------------------------------------------------------------------------
(* How often a host is asked.  What a request fetched is either still with  *)
(* it, on the way to the cache, or its answer is live for the shortest      *)
(* lifetime after the fetch, and then the same slot does not fetch again.   *)

\* The fetches that are counted are recent.
Recent ==
    \A f \in fetches :
        /\ f.url \in ClientIds /\ f.by \in Procs
        /\ f.at \in Nat /\ f.at <= now /\ now <= f.at + ShortestTTL

Answered ==
    \A f \in fetches :
        \/ pc[f.by] = "store" /\ url[f.by] = f.url
        \/ f.url \in Keys(cache) /\ f.at + ShortestTTL <= cache.items[f.url].exp

\* A slot that looks a URL up has no fetch of it that still counts.
NotAgain ==
    \A p \in Procs : pc[p] = "fetch" =>
        \A f \in fetches : ~(f.by = p /\ f.url = url[p])

OncePerSlot == \A f, g \in fetches : f.url = g.url /\ f.by = g.by => f = g

Polite == Recent /\ Answered /\ NotAgain /\ OncePerSlot

LEMMA ShortestBounds ==
    ShortestTTL \in Nat /\ ShortestTTL <= MinTTL /\ ShortestTTL <= NegativeTTL
  BY MinOfNaturals DEF ShortestTTL

LEMMA PoliteTick ==
    ASSUME Clocks, Polite, Tick
    PROVE  Polite'
<1> USE DEF Polite
<1>1. /\ now \in Nat /\ now' = now + 1 /\ UNCHANGED <<cache, pc, url>>
      /\ fetches' = {f \in fetches : f.at \in Window(now + 1)}
  BY DEF Tick, reqs, Clocks
<1>2. fetches' \subseteq fetches
  BY <1>1
<1>3. Recent'
  <2>1. \A f \in fetches' : f.at \in Nat /\ now + 1 - ShortestTTL <= f.at /\ f.at <= now + 1
    BY <1>1, ShortestBounds DEF Window, Recent
  <2> QED BY <1>1, <1>2, <2>1, ShortestBounds DEF Recent
<1>4. Answered' /\ NotAgain' /\ OncePerSlot'
  BY <1>1, <1>2 DEF Answered, NotAgain, OncePerSlot
<1> QED BY <1>3, <1>4

LEMMA PoliteLookup ==
    ASSUME ResolverInv, EntriesTimely, Polite, NEW p \in Procs, NEW u \in ClientIds,
           LookupHit(p, u) \/ LookupMiss(p, u)
    PROVE  Polite'
<1> USE DEF Polite
<1>1. UNCHANGED <<now, fetches>> /\ cache'.items = cache.items
  BY DEF LookupHit, LookupMiss, AfterGet, history
<1>2. Keys(cache') = Keys(cache)
  BY <1>1 DEF Keys
<1>3. Recent' /\ OncePerSlot'
  BY <1>1 DEF Recent, OncePerSlot
<1>4. CASE LookupHit(p, u)
  BY <1>1, <1>2, <1>3, <1>4 DEF LookupHit, reqs, Answered, NotAgain
<1>5. CASE LookupMiss(p, u)
  <2>1. /\ pc[p] = "idle" /\ pc' = [pc EXCEPT ![p] = "fetch"] /\ url' = [url EXCEPT ![p] = u]
        /\ ~Hit(cache, u, now) /\ DOMAIN pc = Procs /\ DOMAIN url = Procs /\ now \in Nat
    BY <1>5 DEF LookupMiss, ResolverInv, Requests, Clocks
  <2>2. ASSUME NEW f \in fetches, f.by = p, f.url = u PROVE FALSE
    <3>1. u \in Keys(cache) /\ f.at + ShortestTTL <= cache.items[u].exp
      BY <2>1, <2>2 DEF Answered
    <3>2. cache.items[u].exp \in Int
      BY <3>1 DEF EntriesTimely
    <3>3. f.at \in Nat /\ now <= f.at + ShortestTTL
      BY DEF Recent
    <3>4. now <= cache.items[u].exp
      BY <2>1, <3>1, <3>2, <3>3, ShortestBounds
    <3> QED BY <2>1, <3>1, <3>4 DEF Hit
  <2>3. NotAgain'
    BY <1>1, <2>1, <2>2 DEF NotAgain
  <2>4. Answered'
    <3>1. \A f \in fetches : pc[f.by] = "store" => UNCHANGED <<pc[f.by], url[f.by]>>
      BY <2>1 DEF Recent
    <3> QED BY <1>1, <1>2, <3>1 DEF Answered
  <2> QED BY <1>3, <2>3, <2>4
<1> QED BY <1>4, <1>5

LEMMA PoliteFetch ==
    ASSUME ResolverInv, Polite, NEW p \in Procs, NEW outcome, Fetch(p, outcome)
    PROVE  Polite'
<1> USE DEF Polite
<1>1. /\ UNCHANGED <<now, cache, url>> /\ now \in Nat /\ url[p] \in ClientIds
      /\ pc[p] = "fetch" /\ pc' = [pc EXCEPT ![p] = "store"] /\ DOMAIN pc = Procs
  BY DEF Fetch, ResolverInv, Requests, Clocks
<1>2. PICK f : fetches' = fetches \union {f} /\ f.url = url[p] /\ f.by = p /\ f.at = now
  <2>1. PICK n : fetches' = fetches \union {FetchOf(url[p], now, p, n)}
    BY DEF Fetch
  <2>2. /\ FetchOf(url[p], now, p, n).url = url[p] /\ FetchOf(url[p], now, p, n).at = now
        /\ FetchOf(url[p], now, p, n).by = p
    BY DEF FetchOf
  <2> QED BY <2>1, <2>2
<1>3. Recent'
  BY <1>1, <1>2, ShortestBounds DEF Recent
<1>4. Answered'
  BY <1>1, <1>2 DEF Answered, Recent
<1>5. NotAgain'
  <2>1. \A q \in Procs : pc'[q] = "fetch" => q # p /\ pc[q] = "fetch"
    BY <1>1
  <2> QED BY <1>1, <1>2, <2>1 DEF NotAgain
<1>6. OncePerSlot'
  BY <1>1, <1>2 DEF OncePerSlot, NotAgain
<1> QED BY <1>3, <1>4, <1>5, <1>6

LEMMA PoliteStore ==
    ASSUME ResolverInv, Polite, NEW p \in Procs, Store(p)
    PROVE  Polite'
<1> USE DEF Polite
<1> DEFINE out == Evicted(cache, url[p], CacheSize)
<1>1. /\ UNCHANGED now /\ now \in Nat /\ pc[p] = "store"
      /\ url[p] \in ClientIds /\ got[p] \in Answers(url[p])
      /\ fetches' = {f \in fetches : f.url \notin out}
      /\ DOMAIN pc = Procs /\ DOMAIN url = Procs
      /\ pc' = [pc EXCEPT ![p] = "idle"] /\ url' = [url EXCEPT ![p] = NoUrl]
      /\ cache' = CacheSet(cache, url[p], got[p], Lifetime(got[p]), now, CacheSize)
  BY DEF Store, Idle, ResolverInv, Requests, Clocks
<1>2. Recent' /\ NotAgain' /\ OncePerSlot'
  BY <1>1 DEF Recent, NotAgain, OncePerSlot
<1>3. ASSUME NEW f \in fetches'
      PROVE  \/ pc'[f.by] = "store" /\ url'[f.by] = f.url
             \/ f.url \in Keys(cache') /\ f.at + ShortestTTL <= cache'.items[f.url].exp
  <2>1. f \in fetches /\ f.url \notin out /\ f.by \in Procs
    BY <1>1 DEF Recent
  <2>2. CASE f.url = url[p]
    <3>1. f.url \in Keys(cache') /\ cache'.items[f.url].exp = now + Lifetime(got[p])
      BY <1>1, <2>2 DEF CacheSet, Keys
    <3>2. Lifetime(got[p]) \in Int /\ ShortestTTL <= Lifetime(got[p])
      BY <1>1, LifetimeBounds, ShortestBounds
    <3>3. f.at \in Nat /\ f.at <= now
      BY <2>1 DEF Recent
    <3>4. f.at + ShortestTTL <= now + Lifetime(got[p])
      BY <1>1, <3>2, <3>3, ShortestBounds
    <3> QED BY <3>1, <3>4
  <2>3. CASE f.url # url[p] /\ pc[f.by] = "store" /\ url[f.by] = f.url
    BY <1>1, <2>1, <2>3
  <2>4. CASE /\ f.url # url[p] /\ f.url \in Keys(cache)
             /\ f.at + ShortestTTL <= cache.items[f.url].exp
    <3>1. f.url \in Keys(cache') /\ cache'.items[f.url] = cache.items[f.url]
      BY <1>1, <2>1, <2>4 DEF CacheSet, Keys
    <3> QED BY <2>4, <3>1
  <2> QED BY <2>1, <2>2, <2>3, <2>4 DEF Answered
<1>4. Answered'
  BY <1>3 DEF Answered
<1> QED BY <1>2, <1>4

LEMMA PoliteInvariant == Spec => []Polite
<1>1. Init => Polite
  BY DEF Init, Polite, Recent, Answered, NotAgain, OncePerSlot
<1>2. ResolverInv /\ Timely /\ Polite /\ [Next]_vars => Polite'
  <2> SUFFICES ASSUME ResolverInv, Timely, Polite, [Next]_vars PROVE Polite'
    OBVIOUS
  <2>1. Clocks /\ EntriesTimely
    BY DEF ResolverInv, Timely
  <2>2. CASE Tick
    BY <2>1, <2>2, PoliteTick
  <2>3. ASSUME NEW p \in Procs, NEW u \in ClientIds, LookupHit(p, u) \/ LookupMiss(p, u)
        PROVE  Polite'
    BY <2>1, <2>3, PoliteLookup
  <2>4. ASSUME NEW p \in Procs, NEW outcome \in AnyAnswer, Fetch(p, outcome) PROVE Polite'
    BY <2>4, PoliteFetch
  <2>5. ASSUME NEW p \in Procs, Store(p) PROVE Polite'
    BY <2>5, PoliteStore
  <2>6. CASE UNCHANGED vars \/ \E u \in ClientIds : \E d \in Answers(u) : Change(u, d)
    <3>1. UNCHANGED <<now, cache, pc, url, fetches>>
      BY <2>6 DEF vars, reqs, history, Change
    <3> QED BY <3>1 DEF Polite, Recent, Answered, NotAgain, OncePerSlot
  <2> QED BY <2>2, <2>3, <2>4, <2>5, <2>6 DEF Next
<1> QED BY <1>1, <1>2, ResolverInvariant, TimelyInvariant, PTL DEF Spec

\* Whatever the interleaving and however slow the fetches, a host sees at most
\* one fetch per request slot within the shortest lifetime, while no other
\* client_id pushes its answer out of the cache.
THEOREM HostsAreSpared == Spec => []FetchesBounded
<1>1. Polite => FetchesBounded
  <2> SUFFICES ASSUME Polite, NEW u \in ClientIds
               PROVE  Cardinality(FetchesAt(u, Window(now))) <= Cardinality(Procs)
    BY DEF FetchesBounded
  <2> DEFINE S == FetchesAt(u, Window(now))
             slot == [f \in S |-> f.by]
  <2>1. \A f \in S : f \in fetches /\ f.url = u /\ f.by \in Procs
    BY DEF FetchesAt, Polite, Recent
  <2>2. slot \in [S -> Procs] /\ \A f, g \in S : slot[f] = slot[g] => f = g
    BY <2>1 DEF Polite, OncePerSlot
  <2> HIDE DEF S, slot
  <2>3. slot \in Injection(S, Procs)
    BY <2>2 DEF Injection, IsInjective
  <2>4. IsFiniteSet(Procs)
    OBVIOUS
  <2>5. Cardinality(S) <= Cardinality(Procs)
    BY <2>3, <2>4, FS_Injection
  <2> QED BY <2>5 DEF S
<1> QED BY <1>1, PoliteInvariant, PTL
=============================================================================
