-------------------------- MODULE RateLimiterProofs --------------------------
(***************************************************************************)
(* Theorems about RateLimiter, for any requests, clients, limit, window    *)
(* and cache size: what the limiter lets through is bounded although its   *)
(* counters are shared by pointer and replaced, and it refuses nobody too  *)
(* early.  Both need that requests are served at once.                     *)
(***************************************************************************)
EXTENDS RateLimiter, FiniteSetTheorems, TLAPS

USE LimiterAssumption

-----------------------------------------------------------------------------
(* What the state looks like between any two steps.                        *)

Serving ==
    /\ now \in 0..MaxTime
    /\ pc \in [Procs -> {"idle", "add", "set"}]
    /\ DOMAIN client = Procs /\ DOMAIN counter = Procs
    /\ \A p \in Procs : /\ pc[p] # "idle" => client[p] \in Clients
                        /\ pc[p] = "add" => counter[p] \in Counters
                        /\ pc[p] # "add" => counter[p] = 0
    /\ count \in [Counters -> 0..MaxCount]

Entries ==
    \A c \in Keys(cache) :
        /\ c \in Clients /\ ValueOf(cache, c) \in Counters
        /\ cache.items[c].exp \in Int /\ cache.items[c].exp <= now + Window

\* The admissions of each client and instant are numbered from 1.
Admissions ==
    /\ IsFiniteSet(admitted)
    /\ \A a \in admitted : a.client \in Clients /\ a.at \in 0..now /\ a.nth \in Nat
    /\ \A c \in Clients : \A a \in AdmittedIn(c, now, now) :
          a.nth <= Cardinality(AdmittedIn(c, now, now))

InUse(n, c) ==
    \/ c \in Keys(cache) /\ ValueOf(cache, c) = n
    \/ \E p \in Procs : pc[p] = "add" /\ client[p] = c /\ counter[p] = n

\* No two clients share a counter.
Owned == \A n \in Counters : \A c, d \in Clients : InUse(n, c) /\ InUse(n, d) => c = d

\* A counter in use stands for the hit that made it, at least.
Started == \A n \in Counters : \A c \in Clients : InUse(n, c) => count[n] >= 1

LimiterInv == Serving /\ Entries /\ Admissions /\ Owned /\ Started

-----------------------------------------------------------------------------
(* Facts about the operators.                                              *)

LEMMA CountersFinite == IsFiniteSet(Counters) /\ Counters \subseteq Nat /\ 0 \notin Counters
<1>1. Cardinality(Clients) \in Nat /\ Cardinality(Procs) \in Nat
  BY FS_CardinalityType
<1> DEFINE n == Cardinality(Clients) + Cardinality(Procs)
<1>2. n \in Int /\ Counters = 1..n
  BY <1>1 DEF Counters
<1> HIDE DEF n
<1>3. IsFiniteSet(1..n)
  BY <1>2, FS_Interval
<1> QED BY <1>2, <1>3

LEMMA BumpIs ==
    ASSUME NEW n \in 0..MaxCount
    PROVE  /\ Bump(n) \in 0..MaxCount
           /\ WithinLimit(Bump(n)) <=> n < Limit
           /\ n < Limit => Bump(n) = n + 1
           /\ n >= Limit => Bump(n) >= Limit
<1>1. Bump(n) \in {n + 1, MaxCount} /\ \A y \in {n + 1, MaxCount} : Bump(n) <= y
  <2>1. \E x \in {n + 1, MaxCount} : \A y \in {n + 1, MaxCount} : x <= y
    OBVIOUS
  <2> QED BY <2>1 DEF Bump, Min
<1> QED BY <1>1 DEF WithinLimit

\* Some counter is left over for a request that does not hold one.
LEMMA Fresh ==
    ASSUME Serving, Entries, NEW p \in Procs, pc[p] = "set"
    PROVE  /\ FreshCounter \in Counters
           /\ \A c \in Clients : ~InUse(FreshCounter, c)
<1> DEFINE Used(n) == \/ \E c \in Keys(cache) : ValueOf(cache, c) = n
                      \/ \E q \in Procs : counter[q] = n
           Others == Procs \ {p}
           Users == ({"key"} \X Clients) \union ({"proc"} \X Others)
           Holds(user, n) == \/ user[1] = "key" /\ user[2] \in Keys(cache) /\ ValueOf(cache, user[2]) = n
                             \/ user[1] = "proc" /\ counter[user[2]] = n
<1>1. \E n \in Counters : ~Used(n)
  <2> SUFFICES ASSUME \A n \in Counters : Used(n) PROVE FALSE
    OBVIOUS
  <2> DEFINE user == [n \in Counters |-> CHOOSE u \in Users : Holds(u, n)]
  <2>1. ASSUME NEW n \in Counters PROVE \E u \in Users : Holds(u, n)
    <3>1. CASE \E c \in Keys(cache) : ValueOf(cache, c) = n
      <4>1. PICK c \in Keys(cache) : ValueOf(cache, c) = n
        BY <3>1
      <4>2. <<"key", c>> \in Users /\ Holds(<<"key", c>>, n)
        BY <4>1 DEF Entries
      <4> QED BY <4>2
    <3>2. CASE \E q \in Procs : counter[q] = n
      <4>1. PICK q \in Procs : counter[q] = n
        BY <3>2
      <4>2. q # p
        BY <4>1, CountersFinite DEF Serving
      <4>3. <<"proc", q>> \in Users /\ Holds(<<"proc", q>>, n)
        BY <4>1, <4>2
      <4> QED BY <4>3
    <3> QED BY <3>1, <3>2
  <2>2. \A n \in Counters : user[n] \in Users /\ Holds(user[n], n)
    BY <2>1
  <2>3. \A u \in Users : \A n, m \in Counters : Holds(u, n) /\ Holds(u, m) => n = m
    OBVIOUS
  <2>4. IsFiniteSet(Users) /\ Cardinality(Users) < Cardinality(Counters)
    <3>1. /\ IsFiniteSet(Others) /\ Cardinality(Others) = Cardinality(Procs) - 1
          /\ Cardinality(Procs) \in Nat /\ Cardinality(Clients) \in Nat
      <4>1. Cardinality(Procs) \in Nat /\ Cardinality(Clients) \in Nat
        BY FS_CardinalityType
      <4> QED BY <4>1, FS_RemoveElement
    <3>2. /\ IsFiniteSet({"key"} \X Clients) /\ Cardinality({"key"} \X Clients) = Cardinality(Clients)
          /\ IsFiniteSet({"proc"} \X Others) /\ Cardinality({"proc"} \X Others) = Cardinality(Others)
      <4>1. \A x : IsFiniteSet({x}) /\ Cardinality({x}) = 1
        BY FS_Singleton
      <4>2. /\ IsFiniteSet({"key"} \X Clients) /\ Cardinality({"key"} \X Clients) = 1 * Cardinality(Clients)
            /\ IsFiniteSet({"proc"} \X Others) /\ Cardinality({"proc"} \X Others) = 1 * Cardinality(Others)
        <5>1. ASSUME NEW S, IsFiniteSet(S), NEW T, IsFiniteSet(T), Cardinality(T) = 1
              PROVE  IsFiniteSet(T \X S) /\ Cardinality(T \X S) = 1 * Cardinality(S)
          BY <5>1, FS_Product
        <5> HIDE DEF Others
        <5> QED BY <3>1, <4>1, <5>1
      <4> QED BY <3>1, <4>2
    <3> DEFINE both == ({"key"} \X Clients) \cap ({"proc"} \X Others)
    <3>3. /\ IsFiniteSet(Users)
          /\ Cardinality(Users) = Cardinality({"key"} \X Clients) + Cardinality({"proc"} \X Others) - Cardinality(both)
      BY <3>2, FS_Union
    <3>4. Cardinality(both) \in Nat
      BY <3>2, FS_Intersection, FS_CardinalityType
    <3>5. Cardinality(Counters) = Cardinality(Clients) + Cardinality(Procs)
      BY <3>1, FS_Interval DEF Counters
    <3> HIDE DEF both, Users, Others
    <3> QED BY <3>1, <3>2, <3>3, <3>4, <3>5
  <2> HIDE DEF Users, Holds
  <2>5. user \in [Counters -> Users]
    BY <2>2
  <2> HIDE DEF user
  <2>6. PICK n, m \in Counters : n # m /\ user[n] = user[m]
    <3>1. IsFiniteSet(Counters)
      BY CountersFinite
    <3> HIDE DEF Counters
    <3> QED BY <2>4, <2>5, <3>1, FS_PigeonHole
  <2> QED BY <2>2, <2>3, <2>6
<1>2. FreshCounter \in Counters /\ ~Used(FreshCounter)
  <2>1. \E n \in Counters : /\ \A c \in Keys(cache) : ValueOf(cache, c) # n
                            /\ \A q \in Procs : counter[q] # n
    BY <1>1
  <2>2. /\ FreshCounter \in Counters
        /\ \A c \in Keys(cache) : ValueOf(cache, c) # FreshCounter
        /\ \A q \in Procs : counter[q] # FreshCounter
    BY <2>1, Zenon DEF FreshCounter
  <2> QED BY <2>2
<1> QED BY <1>2 DEF InUse

\* What a new counter does to the cache; whatever else is pushed out.
LEMMA FirstHitCache ==
    ASSUME NEW p \in Procs, FirstHit(p)
    PROVE  /\ client[p] \in Keys(cache')
           /\ cache'.items[client[p]] = [val |-> FreshCounter, exp |-> now + Window]
           /\ \A d \in Keys(cache') \ {client[p]} :
                 d \in Keys(cache) /\ cache'.items[d] = cache.items[d]
  BY DEF FirstHit, CacheSet, Keys

LEMMA SameItems ==
    ASSUME [Next]_vars
    PROVE  \/ cache'.items = cache.items
           \/ \E p \in Procs : FirstHit(p)
<1>1. ASSUME NEW p \in Procs, NEW c \in Clients, Lookup(p, c) PROVE cache'.items = cache.items
  BY <1>1 DEF Lookup, AfterGet
<1> QED BY <1>1 DEF Next, vars, Tick, AddAdmitted, AddRefused

Hits(c, from, to) == Cardinality(AdmittedIn(c, from, to))

LEMMA HitsType ==
    ASSUME Admissions, NEW c, NEW from, NEW to
    PROVE  IsFiniteSet(AdmittedIn(c, from, to)) /\ Hits(c, from, to) \in Nat
<1>1. AdmittedIn(c, from, to) \in SUBSET admitted
  BY DEF AdmittedIn
<1>2. IsFiniteSet(AdmittedIn(c, from, to))
  BY <1>1, FS_Subset DEF Admissions
<1> QED BY <1>2, FS_CardinalityType DEF Hits

LEMMA HitsMonotone ==
    ASSUME Admissions, NEW c, NEW from, NEW to, NEW from2, NEW to2,
           AdmittedIn(c, from, to) \subseteq AdmittedIn(c, from2, to2)
    PROVE  Hits(c, from, to) <= Hits(c, from2, to2)
<1>1. IsFiniteSet(AdmittedIn(c, from2, to2))
  BY HitsType
<1> QED BY <1>1, FS_Subset DEF Hits

\* An admission counts once, in every stretch of time that contains it.
LEMMA Admitting ==
    ASSUME LimiterInv, NEW p \in Procs, pc[p] # "idle", Admit(p), now' = now
    PROVE  /\ Admissions'
           /\ \A d \in Clients : \A from, to \in Int :
                 Hits(d, from, to)' = Hits(d, from, to) +
                     (IF d = client[p] /\ from <= now /\ now <= to THEN 1 ELSE 0)
<1> DEFINE c == client[p]
           today == AdmittedIn(c, now, now)
           a == Admission(c, now, Cardinality(today) + 1)
<1>1. now \in Nat /\ c \in Clients /\ Admissions
  BY DEF LimiterInv, Serving
<1>2. Cardinality(today) \in Nat
  BY <1>1, HitsType DEF Hits
<1>3. admitted' = admitted \union {a} /\ a.client = c /\ a.at = now /\ a.nth = Cardinality(today) + 1
  BY DEF Admit, Admission
<1>4. a \notin admitted
  <2> SUFFICES ASSUME a \in admitted PROVE FALSE
    OBVIOUS
  <2>1. a \in today
    BY <1>1, <1>3 DEF AdmittedIn
  <2>2. a.nth <= Cardinality(today)
    BY <1>1, <2>1 DEF Admissions
  <2> QED BY <1>2, <1>3, <2>2
<1> HIDE DEF a
<1>5. ASSUME NEW d \in Clients, NEW from \in Int, NEW to \in Int
      PROVE  /\ AdmittedIn(d, from, to)' = AdmittedIn(d, from, to) \union
                     (IF d = c /\ from <= now /\ now <= to THEN {a} ELSE {})
             /\ Hits(d, from, to)' = Hits(d, from, to) +
                     (IF d = c /\ from <= now /\ now <= to THEN 1 ELSE 0)
  <2>1. AdmittedIn(d, from, to)' = {b \in admitted' : b.client = d /\ b.at \in from..to}
    BY DEF AdmittedIn
  <2>2. IsFiniteSet(AdmittedIn(d, from, to)) /\ Hits(d, from, to) \in Nat
    BY <1>1, HitsType
  <2>3. CASE d = c /\ from <= now /\ now <= to
    <3>1. AdmittedIn(d, from, to)' = AdmittedIn(d, from, to) \union {a}
      BY <1>1, <1>3, <2>1, <2>3 DEF AdmittedIn
    <3>2. a \notin AdmittedIn(d, from, to)
      BY <1>4 DEF AdmittedIn
    <3>3. Cardinality(AdmittedIn(d, from, to) \union {a}) = Cardinality(AdmittedIn(d, from, to)) + 1
      BY <2>2, <3>2, FS_AddElement
    <3> QED BY <2>3, <3>1, <3>3 DEF Hits
  <2>4. CASE ~(d = c /\ from <= now /\ now <= to)
    <3>1. AdmittedIn(d, from, to)' = AdmittedIn(d, from, to)
      BY <1>1, <1>3, <2>1, <2>4 DEF AdmittedIn
    <3> QED BY <2>2, <2>4, <3>1 DEF Hits
  <2> QED BY <2>3, <2>4
<1>6. Admissions'
  <2>1. IsFiniteSet(admitted')
    BY <1>1, <1>3, FS_AddElement DEF Admissions
  <2>2. \A b \in admitted' : b.client \in Clients /\ b.at \in 0..now /\ b.nth \in Nat
    BY <1>1, <1>2, <1>3 DEF Admissions
  <2>3. ASSUME NEW d \in Clients, NEW b \in AdmittedIn(d, now, now)'
        PROVE  b.nth <= Hits(d, now, now)'
    <3>1. Hits(d, now, now) \in Nat
      BY <1>1, HitsType
    <3>2. \A e \in AdmittedIn(d, now, now) : e.nth <= Hits(d, now, now)
      BY <1>1 DEF Admissions, Hits
    <3>3. AdmittedIn(d, now, now)' = AdmittedIn(d, now, now) \union (IF d = c THEN {a} ELSE {})
      BY <1>1, <1>5
    <3>4. Hits(d, now, now)' = Hits(d, now, now) + (IF d = c THEN 1 ELSE 0)
      BY <1>1, <1>5
    <3>5. CASE b \in AdmittedIn(d, now, now)
      <4>1. b.nth <= Hits(d, now, now)
        BY <3>2, <3>5
      <4>2. b.nth \in Nat
        BY <1>1, <3>5 DEF Admissions, AdmittedIn
      <4> QED BY <3>1, <3>4, <4>1, <4>2
    <3>6. CASE b = a /\ d = c
      <4>1. b.nth = Hits(d, now, now) + 1
        BY <1>3, <3>6 DEF Hits
      <4> QED BY <3>1, <3>4, <3>6, <4>1
    <3> QED BY <2>3, <3>3, <3>5, <3>6
  <2>4. \A d \in Clients : \A b \in AdmittedIn(d, now, now)' : b.nth <= Cardinality(AdmittedIn(d, now, now))'
    BY <2>3 DEF Hits
  <2> QED BY <2>1, <2>2, <2>4 DEF Admissions
<1> QED BY <1>5, <1>6

-----------------------------------------------------------------------------
(* The first invariant: whose counter is whose, and what was admitted.     *)

LEMMA ServingStep == ASSUME LimiterInv, [Next]_vars PROVE Serving'
<1> USE DEF Serving
<1>1. Serving /\ Entries
  BY DEF LimiterInv
<1>2. ASSUME NEW p \in Procs, Finish(p), now' = now, count' \in [Counters -> 0..MaxCount]
      PROVE  Serving'
  BY <1>1, <1>2 DEF Finish
<1>3. CASE Tick
  BY <1>1, <1>3 DEF Tick
<1>4. ASSUME NEW p \in Procs, NEW c \in Clients, Lookup(p, c) PROVE Serving'
  <2>1. Hit(cache, c, now) => ValueOf(cache, c) \in Counters
    BY <1>1 DEF Entries, Hit
  <2> QED BY <1>1, <1>4, <2>1 DEF Lookup
<1>5. ASSUME NEW p \in Procs, AddAdmitted(p) \/ AddRefused(p) PROVE Serving'
  <2>1. counter[p] \in Counters /\ count[counter[p]] \in 0..MaxCount
    BY <1>1, <1>5 DEF AddAdmitted, AddRefused
  <2>2. Bump(count[counter[p]]) \in 0..MaxCount
    BY <2>1, BumpIs
  <2>3. count' \in [Counters -> 0..MaxCount]
    BY <1>1, <1>5, <2>2 DEF AddAdmitted, AddRefused
  <2> QED BY <1>2, <1>5, <2>3 DEF AddAdmitted, AddRefused
<1>6. ASSUME NEW p \in Procs, FirstHit(p) PROVE Serving'
  <2>1. count' \in [Counters -> 0..MaxCount]
    <3>1. count' = [count EXCEPT ![FreshCounter] = 1]
      BY <1>6 DEF FirstHit, FirstCount
    <3>2. 1 \in 0..MaxCount
      OBVIOUS
    <3> QED BY <1>1, <3>1, <3>2
  <2>2. Finish(p) /\ now' = now
    BY <1>6 DEF FirstHit
  <2> QED BY <1>2, <2>1, <2>2
<1> QED BY <1>1, <1>3, <1>4, <1>5, <1>6 DEF Next, vars

LEMMA EntriesStep == ASSUME LimiterInv, [Next]_vars PROVE Entries'
<1>1. Serving /\ Entries /\ Serving'
  BY ServingStep DEF LimiterInv
<1>2. now \in Int /\ now' \in Int /\ now <= now'
  BY <1>1 DEF Serving, Next, vars, Tick, Lookup, AddAdmitted, AddRefused, FirstHit
<1>3. CASE cache'.items = cache.items
  <2>1. Keys(cache') = Keys(cache) /\ \A c : ValueOf(cache', c) = ValueOf(cache, c)
    BY <1>3 DEF Keys, ValueOf
  <2> QED BY <1>1, <1>2, <1>3, <2>1 DEF Entries
<1>4. ASSUME NEW p \in Procs, FirstHit(p) PROVE Entries'
  <2>1. client[p] \in Clients /\ FreshCounter \in Counters /\ now' = now
    BY <1>1, <1>4, Fresh DEF FirstHit, Serving
  <2>2. \A c \in Keys(cache') : \/ c = client[p] /\ cache'.items[c] = [val |-> FreshCounter, exp |-> now + Window]
                                \/ c \in Keys(cache) /\ cache'.items[c] = cache.items[c]
    BY <1>4, FirstHitCache
  <2>3. ASSUME NEW c \in Keys(cache')
        PROVE  /\ c \in Clients /\ cache'.items[c].val \in Counters
               /\ cache'.items[c].exp \in Int /\ cache'.items[c].exp <= now + Window
    <3>1. CASE c = client[p] /\ cache'.items[c] = [val |-> FreshCounter, exp |-> now + Window]
      BY <1>2, <2>1, <3>1
    <3>2. CASE c \in Keys(cache) /\ cache'.items[c] = cache.items[c]
      BY <1>1, <3>2 DEF Entries, ValueOf
    <3> QED BY <2>2, <3>1, <3>2
  <2> QED BY <2>1, <2>3 DEF Entries, ValueOf
<1> QED BY <1>3, <1>4, SameItems

LEMMA AdmissionsStep == ASSUME LimiterInv, [Next]_vars PROVE Admissions'
<1>1. Serving /\ Admissions
  BY DEF LimiterInv
<1>2. CASE Tick
  <2>1. now \in Nat /\ now' = now + 1 /\ admitted' = admitted
    BY <1>1, <1>2 DEF Tick, Serving
  <2>2. ASSUME NEW c PROVE AdmittedIn(c, now, now)' = {}
    BY <1>1, <2>1 DEF AdmittedIn, Admissions
  <2>3. IsFiniteSet(admitted') /\ \A a \in admitted' : a.client \in Clients /\ a.at \in 0..now' /\ a.nth \in Nat
    BY <1>1, <2>1 DEF Admissions
  <2> QED BY <2>2, <2>3 DEF Admissions
<1>3. CASE now' = now /\ admitted' = admitted
  BY <1>1, <1>3 DEF Admissions, AdmittedIn
<1>4. ASSUME NEW p \in Procs, AddAdmitted(p) \/ FirstHit(p) PROVE Admissions'
  BY <1>4, Admitting DEF AddAdmitted, FirstHit
<1>5. ASSUME NEW p \in Procs, NEW c \in Clients, Lookup(p, c) PROVE now' = now /\ admitted' = admitted
  BY <1>5 DEF Lookup
<1>6. ASSUME NEW p \in Procs, AddRefused(p) PROVE now' = now /\ admitted' = admitted
  BY <1>6 DEF AddRefused
<1> QED BY <1>2, <1>3, <1>4, <1>5, <1>6 DEF Next, vars

\* A counter comes into use only when it is new.
LEMMA InUseStep ==
    ASSUME LimiterInv, [Next]_vars, NEW n, NEW c, InUse(n, c)'
    PROVE  InUse(n, c) \/ \E p \in Procs : FirstHit(p) /\ c = client[p] /\ n = FreshCounter
<1> USE DEF InUse
<1>1. Serving
  BY DEF LimiterInv
<1>2. CASE cache'.items = cache.items /\ UNCHANGED <<pc, client, counter>>
  BY <1>2 DEF Keys, ValueOf
<1>3. ASSUME NEW p \in Procs, NEW d \in Clients, Lookup(p, d) PROVE InUse(n, c)
  <2>1. Keys(cache') = Keys(cache) /\ ValueOf(cache', c) = ValueOf(cache, c)
    BY <1>3 DEF Lookup, AfterGet, Keys, ValueOf
  <2>2. ASSUME NEW q \in Procs, pc'[q] = "add", client'[q] = c, counter'[q] = n
        PROVE  InUse(n, c)
    <3>1. CASE q = p
      BY <1>1, <1>3, <2>2, <3>1 DEF Lookup, Hit, Serving
    <3>2. CASE q # p
      BY <1>1, <1>3, <2>2, <3>2 DEF Lookup, Serving
    <3> QED BY <3>1, <3>2
  <2> QED BY <2>1, <2>2
<1>4. ASSUME NEW p \in Procs, Finish(p), NEW q \in Procs, pc'[q] = "add"
      PROVE  pc[q] = "add" /\ client'[q] = client[q] /\ counter'[q] = counter[q]
  BY <1>1, <1>4 DEF Finish, Serving
<1>5. ASSUME NEW p \in Procs, AddAdmitted(p) \/ AddRefused(p) PROVE InUse(n, c)
  BY <1>4, <1>5 DEF AddAdmitted, AddRefused
<1>6. ASSUME NEW p \in Procs, FirstHit(p)
      PROVE  InUse(n, c) \/ (c = client[p] /\ n = FreshCounter)
  <2>1. Finish(p)
    BY <1>6 DEF FirstHit
  <2>2. c \in Keys(cache') /\ ValueOf(cache', c) = n =>
           InUse(n, c) \/ (c = client[p] /\ n = FreshCounter)
    BY <1>6, FirstHitCache DEF ValueOf
  <2> QED BY <1>4, <2>1, <2>2
<1> QED BY <1>2, <1>3, <1>5, <1>6 DEF Next, vars, Tick

LEMMA OwnedStep == ASSUME LimiterInv, [Next]_vars PROVE Owned'
<1>1. Serving /\ Entries /\ Owned
  BY DEF LimiterInv
<1> SUFFICES ASSUME NEW n \in Counters, NEW c \in Clients, NEW d \in Clients,
                    InUse(n, c)', InUse(n, d)'
             PROVE  c = d
  BY DEF Owned
<1>2. CASE InUse(n, c) /\ InUse(n, d)
  BY <1>1, <1>2 DEF Owned
<1>3. ASSUME NEW p \in Procs, FirstHit(p), n = FreshCounter
      PROVE  c = d
  <2>1. ~InUse(n, c) /\ ~InUse(n, d)
    BY <1>1, <1>3, Fresh DEF FirstHit
  <2>2. PICK q \in Procs : FirstHit(q) /\ c = client[q] /\ n = FreshCounter
    BY <2>1, InUseStep
  <2>3. PICK r \in Procs : FirstHit(r) /\ d = client[r] /\ n = FreshCounter
    BY <2>1, InUseStep
  <2>4. q = r
    <3>1. /\ pc[q] = "set" /\ pc' = [pc EXCEPT ![q] = "idle"]
          /\ pc[r] = "set" /\ pc' = [pc EXCEPT ![r] = "idle"]
      BY <2>2, <2>3 DEF FirstHit, Finish
    <3> QED BY <1>1, <3>1 DEF Serving
  <2> QED BY <2>2, <2>3, <2>4
<1> QED BY <1>2, <1>3, InUseStep

\* Counters in use never go down.
LEMMA CountGrows ==
    ASSUME LimiterInv, [Next]_vars, NEW n \in Counters, NEW c \in Clients, InUse(n, c)
    PROVE  count[n] <= count'[n]
<1>0. Serving /\ Entries
  BY DEF LimiterInv
<1>1. count[n] \in 0..MaxCount
  BY <1>0 DEF Serving
<1>2. CASE UNCHANGED count
  BY <1>1, <1>2
<1>3. ASSUME NEW p \in Procs, AddAdmitted(p) \/ AddRefused(p) PROVE count[n] <= count'[n]
  <2>1. count' = [count EXCEPT ![counter[p]] = Bump(@)]
    BY <1>3 DEF AddAdmitted, AddRefused
  <2>2. count'[n] = IF n = counter[p] THEN Bump(count[n]) ELSE count[n]
    BY <1>0, <1>1, <2>1 DEF Serving
  <2>3. Bump(count[n]) >= count[n]
    <3>1. \A m \in 0..MaxCount : Bump(m) >= m
      <4> SUFFICES ASSUME NEW m \in 0..MaxCount PROVE Bump(m) >= m
        OBVIOUS
      <4>1. \E x \in {m + 1, MaxCount} : \A y \in {m + 1, MaxCount} : x <= y
        OBVIOUS
      <4>2. Bump(m) \in {m + 1, MaxCount}
        BY <4>1 DEF Bump, Min
      <4> QED BY <4>2
    <3> QED BY <1>1, <3>1
  <2> QED BY <1>1, <2>2, <2>3
<1>4. ASSUME NEW p \in Procs, FirstHit(p) PROVE count[n] <= count'[n]
  <2>1. n # FreshCounter
    BY <1>0, <1>4, Fresh DEF FirstHit
  <2>2. count'[n] = count[n]
    BY <1>4, <2>1 DEF FirstHit
  <2> QED BY <1>1, <2>2
<1>5. ASSUME NEW p \in Procs, NEW d \in Clients, Lookup(p, d) PROVE UNCHANGED count
  BY <1>5 DEF Lookup
<1> QED BY <1>2, <1>3, <1>4, <1>5 DEF Next, Tick, vars

LEMMA StartedStep == ASSUME LimiterInv, [Next]_vars PROVE Started'
<1> SUFFICES ASSUME NEW n \in Counters, NEW c \in Clients, InUse(n, c)' PROVE count'[n] >= 1
  BY DEF Started
<1>1. Serving /\ count'[n] \in Int
  BY ServingStep DEF LimiterInv, Serving
<1>2. CASE InUse(n, c)
  <2>1. count[n] >= 1 /\ count[n] \in Int
    BY <1>1, <1>2 DEF LimiterInv, Started, Serving
  <2> QED BY <1>1, <1>2, <2>1, CountGrows
<1>3. ASSUME NEW p \in Procs, FirstHit(p), n = FreshCounter PROVE count'[n] >= 1
  <2>1. count' = [count EXCEPT ![n] = 1]
    BY <1>3 DEF FirstHit, FirstCount
  <2> QED BY <1>1, <2>1 DEF Serving
<1> QED BY <1>2, <1>3, InUseStep

THEOREM LimiterInvariant == Spec => []LimiterInv
<1>1. Init => LimiterInv
  <2> SUFFICES ASSUME Init PROVE LimiterInv
    OBVIOUS
  <2>1. Serving /\ Entries
    BY CountersFinite DEF Init, Serving, Entries, EmptyCache, Keys
  <2>2. Admissions
    BY FS_EmptySet DEF Init, Admissions, AdmittedIn
  <2>3. Owned
    BY DEF Init, Owned, InUse, EmptyCache, Keys
  <2>4. Started
    BY DEF Init, Started, InUse, EmptyCache, Keys
  <2> QED BY <2>1, <2>2, <2>3, <2>4 DEF LimiterInv
<1>2. LimiterInv /\ [Next]_vars => LimiterInv'
  BY ServingStep, EntriesStep, AdmissionsStep, OwnedStep, StartedStep DEF LimiterInv
<1> QED BY <1>1, <1>2, PTL DEF Spec

-----------------------------------------------------------------------------
(* Nobody is refused too early: a counter stands for that many admissions. *)

Least(n) == IF n < Limit THEN n ELSE Limit

\* Since the window began to which an entry of the cache belongs.
SpentCached ==
    \A c \in Keys(cache) :
        Least(count[ValueOf(cache, c)]) <= Hits(c, cache.items[c].exp - Window, now)

SpentHeld ==
    \A p \in Procs : pc[p] = "add" =>
        Least(count[counter[p]]) <= Hits(client[p], now - Window, now)

Spent == SpentCached /\ SpentHeld

LEMMA SpentGrows ==
    ASSUME LimiterInv,
           NEW p \in Procs, AddAdmitted(p) \/ AddRefused(p) \/ FirstHit(p),
           NEW n \in Counters, NEW c \in Clients, InUse(n, c),
           NEW from \in Int, NEW to \in Int, from <= now, now <= to,
           Least(count[n]) <= Hits(c, from, to)
    PROVE  Least(count'[n]) <= Hits(c, from, to)'
<1>1. Serving /\ Entries /\ Admissions /\ Owned /\ now \in Int
  BY DEF LimiterInv, Serving
<1>2. count[n] \in 0..MaxCount /\ Hits(c, from, to) \in Nat
  BY <1>1, HitsType DEF Serving
<1>3. ASSUME AddAdmitted(p) \/ AddRefused(p)
      PROVE  /\ counter[p] \in Counters /\ InUse(counter[p], client[p]) /\ client[p] \in Clients
             /\ count' = [count EXCEPT ![counter[p]] = Bump(@)]
             /\ count[counter[p]] \in 0..MaxCount
  BY <1>1, <1>3 DEF AddAdmitted, AddRefused, Serving, InUse
<1>4. CASE AddAdmitted(p)
  <2>1. count[counter[p]] < Limit /\ Bump(count[counter[p]]) = count[counter[p]] + 1
    BY <1>3, <1>4, BumpIs DEF AddAdmitted
  <2>2. Hits(c, from, to)' = Hits(c, from, to) + (IF c = client[p] THEN 1 ELSE 0)
    BY <1>1, <1>4, Admitting DEF AddAdmitted
  <2>3. CASE n = counter[p]
    <3>1. c = client[p]
      BY <1>1, <1>3, <1>4, <2>3 DEF Owned
    <3>2. count'[n] = count[n] + 1
      BY <1>1, <1>3, <1>4, <2>1, <2>3 DEF Serving
    <3> QED BY <1>2, <2>1, <2>2, <2>3, <3>1, <3>2 DEF Least
  <2>4. CASE n # counter[p]
    <3>1. count'[n] = count[n]
      BY <1>1, <1>3, <1>4, <2>4 DEF Serving
    <3> QED BY <1>2, <2>2, <3>1 DEF Least
  <2> QED BY <2>3, <2>4
<1>5. CASE AddRefused(p)
  <2>1. count[counter[p]] >= Limit /\ Bump(count[counter[p]]) >= Limit
    BY <1>3, <1>5, BumpIs DEF AddRefused
  <2>2. Hits(c, from, to)' = Hits(c, from, to)
    BY <1>5 DEF AddRefused, Hits, AdmittedIn
  <2>3. count'[n] = IF n = counter[p] THEN Bump(count[n]) ELSE count[n]
    BY <1>1, <1>3, <1>5 DEF Serving
  <2>4. Bump(count[n]) \in Int
    BY <1>2, BumpIs
  <2> QED BY <1>2, <2>1, <2>2, <2>3, <2>4 DEF Least
<1>6. CASE FirstHit(p)
  <2>1. n # FreshCounter
    BY <1>1, <1>6, Fresh DEF FirstHit
  <2>2. count'[n] = count[n]
    BY <1>6, <2>1 DEF FirstHit
  <2>3. Hits(c, from, to)' = Hits(c, from, to) + (IF c = client[p] THEN 1 ELSE 0)
    BY <1>1, <1>6, Admitting DEF FirstHit
  <2> QED BY <1>2, <2>2, <2>3 DEF Least
<1> QED BY <1>4, <1>5, <1>6

\* When a request is done, the others hold what they held.
LEMMA OthersHold ==
    ASSUME Serving, NEW p \in Procs, Finish(p), NEW q \in Procs, pc'[q] # "idle"
    PROVE  q # p /\ pc'[q] = pc[q] /\ client'[q] = client[q] /\ counter'[q] = counter[q]
  BY DEF Finish, Serving

LEMMA SpentStep == ASSUME Prompt, LimiterInv, Spent, [Next]_vars PROVE Spent'
<1>1. /\ Serving /\ Entries /\ Admissions /\ now \in Int
      /\ Serving' /\ Entries'
  BY ServingStep, EntriesStep DEF LimiterInv, Serving
<1>2. CASE Tick
  <2>1. /\ now' = now + 1 /\ \A p \in Procs : pc'[p] # "add"
        /\ UNCHANGED <<cache, count, admitted>>
    BY <1>2 DEF Tick, Busy
  <2>2. ASSUME NEW c \in Clients, NEW from \in Int, NEW to, to = now + 1
        PROVE  /\ Hits(c, from, now) <= Hits(c, from, to)'
               /\ Hits(c, from, now) \in Nat /\ Hits(c, from, to)' \in Nat
    <3>1. Hits(c, from, to)' = Hits(c, from, to)
      BY <2>1 DEF Hits, AdmittedIn
    <3>2. Hits(c, from, now) <= Hits(c, from, to)
      BY <1>1, <2>2, HitsMonotone DEF AdmittedIn
    <3> QED BY <1>1, <3>1, <3>2, HitsType
  <2>3. ASSUME NEW c \in Keys(cache), NEW from, from = cache.items[c].exp - Window,
               NEW to, to = now + 1
        PROVE  Least(count[ValueOf(cache, c)]) <= Hits(c, from, to)'
    <3>1. c \in Clients /\ from \in Int /\ count[ValueOf(cache, c)] \in Nat
      BY <1>1, <2>3 DEF Entries, Serving
    <3>2. Least(count[ValueOf(cache, c)]) \in Int
      BY <3>1 DEF Least
    <3>3. Least(count[ValueOf(cache, c)]) <= Hits(c, from, now)
      BY <2>3 DEF Spent, SpentCached
    <3>4. Hits(c, from, now) <= Hits(c, from, to)' /\ Hits(c, from, now) \in Nat
      BY <2>2, <2>3, <3>1
    <3>5. Hits(c, from, to)' \in Nat
      BY <2>2, <2>3, <3>1
    <3> QED BY <3>2, <3>3, <3>4, <3>5
  <2> QED BY <2>1, <2>3 DEF Spent, SpentCached, SpentHeld
<1>3. ASSUME NEW p \in Procs, NEW d \in Clients, Lookup(p, d) PROVE Spent'
  <2>1. /\ UNCHANGED <<now, count, admitted>> /\ cache'.items = cache.items
        /\ pc[p] = "idle" /\ client' = [client EXCEPT ![p] = d]
    BY <1>3 DEF Lookup, AfterGet
  <2>2. SpentCached'
    BY <2>1 DEF Spent, SpentCached, Hits, AdmittedIn, Keys, ValueOf
  <2>3. ASSUME NEW q \in Procs, pc'[q] = "add", NEW c, c = client'[q], NEW n, n = counter'[q]
        PROVE  Least(count[n]) <= Hits(c, now - Window, now)
    <3>1. CASE q = p
      <4>1. c = d /\ Hit(cache, d, now) /\ n = ValueOf(cache, d)
        BY <1>1, <1>3, <2>1, <2>3, <3>1 DEF Lookup, Serving
      <4> DEFINE from == cache.items[d].exp - Window
      <4>2. d \in Keys(cache) /\ from \in Int /\ from >= now - Window /\ n \in Counters
        BY <1>1, <4>1 DEF Hit, Entries
      <4>3. Least(count[n]) <= Hits(d, from, now) /\ count[n] \in Nat
        BY <1>1, <4>1, <4>2 DEF Spent, SpentCached, Serving
      <4>4. Hits(d, from, now) <= Hits(d, now - Window, now)
        <5> HIDE DEF from
        <5> QED BY <1>1, <4>2, HitsMonotone DEF AdmittedIn
      <4>5. Hits(d, from, now) \in Nat /\ Hits(d, now - Window, now) \in Nat
        BY <1>1, HitsType
      <4>6. Least(count[n]) \in Int
        BY <4>3 DEF Least
      <4> QED BY <4>1, <4>3, <4>4, <4>5, <4>6
    <3>2. CASE q # p
      <4>1. pc[q] = "add" /\ c = client[q] /\ n = counter[q]
        BY <1>1, <1>3, <2>3, <3>2 DEF Lookup, Serving
      <4> QED BY <4>1 DEF Spent, SpentHeld
    <3> QED BY <3>1, <3>2
  <2>4. SpentHeld'
    BY <2>1, <2>3 DEF SpentHeld, Hits, AdmittedIn
  <2> QED BY <2>2, <2>4 DEF Spent
<1>4. ASSUME NEW p \in Procs, AddAdmitted(p) \/ AddRefused(p) \/ FirstHit(p) PROVE Spent'
  <2>1. now' = now /\ Finish(p)
    BY <1>4 DEF AddAdmitted, AddRefused, FirstHit
  <2>2. ASSUME NEW q \in Procs, pc'[q] = "add", NEW c, c = client'[q], NEW n, n = counter'[q]
        PROVE  Least(count'[n]) <= Hits(c, now - Window, now)'
    <3>1. pc[q] = "add" /\ c = client[q] /\ n = counter[q]
      BY <1>1, <2>1, <2>2, OthersHold
    <3>2. n \in Counters /\ c \in Clients /\ InUse(n, c)
      BY <1>1, <3>1 DEF Serving, InUse
    <3>3. Least(count[n]) <= Hits(c, now - Window, now)
      BY <3>1 DEF Spent, SpentHeld
    <3>4. PICK from, to \in Int : from = now - Window /\ to = now
      BY <1>1
    <3>5. Least(count'[n]) <= Hits(c, from, to)'
      BY <1>4, <3>2, <3>3, <3>4, SpentGrows
    <3> QED BY <2>1, <3>4, <3>5
  <2>3. ASSUME NEW c \in Keys(cache'), NEW n, n = ValueOf(cache', c),
               NEW from, from = cache'.items[c].exp - Window
        PROVE  Least(count'[n]) <= Hits(c, from, now)'
    <3>1. PICK to \in Int : to = now
      BY <1>1
    <3>2. CASE c \in Keys(cache) /\ cache'.items[c] = cache.items[c]
      <4>1. /\ n = ValueOf(cache, c) /\ from = cache.items[c].exp - Window
            /\ n \in Counters /\ c \in Clients /\ InUse(n, c) /\ from \in Int /\ from <= to
        BY <1>1, <2>3, <3>1, <3>2 DEF ValueOf, Entries, InUse
      <4>2. Least(count[n]) <= Hits(c, from, to)
        BY <3>1, <3>2, <4>1 DEF Spent, SpentCached
      <4>3. Least(count'[n]) <= Hits(c, from, to)'
        BY <1>4, <3>1, <4>1, <4>2, SpentGrows
      <4> QED BY <2>1, <3>1, <4>3
    <3>3. CASE FirstHit(p) /\ c = client[p]
      <4>1. n = FreshCounter /\ from = now /\ n \in Counters /\ c \in Clients
        BY <1>1, <2>3, <3>3, FirstHitCache, Fresh DEF ValueOf, FirstHit, Serving
      <4>2. count'[n] = 1
        BY <1>1, <3>3, <4>1 DEF FirstHit, FirstCount, Serving
      <4>3. Hits(c, to, to)' = Hits(c, to, to) + 1 /\ Hits(c, to, to) \in Nat
        BY <1>1, <3>1, <3>3, <4>1, Admitting, HitsType DEF FirstHit
      <4> QED BY <2>1, <3>1, <4>1, <4>2, <4>3 DEF Least
    <3>4. CASE ~FirstHit(p)
      <4>1. cache' = cache
        BY <1>4, <3>4 DEF AddAdmitted, AddRefused
      <4> QED BY <2>3, <3>2, <4>1
    <3> QED BY <2>3, <3>2, <3>3, <3>4, FirstHitCache
  <2> QED BY <2>1, <2>2, <2>3 DEF Spent, SpentCached, SpentHeld
<1>5. CASE UNCHANGED vars
  BY <1>5 DEF vars, Spent, SpentCached, SpentHeld, Hits, AdmittedIn, Keys, ValueOf
<1> QED BY <1>2, <1>3, <1>4, <1>5 DEF Next

LEMMA SpentInvariant == ASSUME Prompt PROVE Spec => []Spent
<1>1. Init => Spent
  BY DEF Init, Spent, SpentCached, SpentHeld, EmptyCache, Keys
<1> QED BY <1>1, SpentStep, LimiterInvariant, PTL DEF Spec

\* Served at once, nobody is refused who was not admitted Limit times within
\* the last window.
THEOREM RefusalsAreEarned == ASSUME Prompt PROVE Spec => RefusedOnlyWhenSpent
<1>1. LimiterInv /\ Spent /\ [Next]_vars =>
        [\A p \in Procs : AddRefused(p) =>
            Cardinality(AdmittedIn(client[p], now - Window, now)) >= Limit]_vars
  <2> SUFFICES ASSUME LimiterInv, Spent, NEW p \in Procs, AddRefused(p)
               PROVE  Cardinality(AdmittedIn(client[p], now - Window, now)) >= Limit
    OBVIOUS
  <2>1. pc[p] = "add" /\ count[counter[p]] \in 0..MaxCount /\ Admissions
    BY DEF AddRefused, LimiterInv, Serving
  <2>2. Least(count[counter[p]]) = Limit
    BY <2>1, BumpIs DEF AddRefused, Least
  <2>3. Hits(client[p], now - Window, now) \in Nat
    BY <2>1, HitsType
  <2> QED BY <2>1, <2>2, <2>3 DEF Spent, SpentHeld, Hits
<1> QED BY <1>1, SpentInvariant, LimiterInvariant, PTL DEF Spec, RefusedOnlyWhenSpent

-----------------------------------------------------------------------------
(* What gets through in a window: the counters that a client has, each as  *)
(* far as it goes, and one more for each request about to make one.        *)

Room(c) == {pair \in Counters \X (1..Limit) : InUse(pair[1], c) /\ count[pair[1]] < pair[2]}

Waiting(c) == {p \in Procs : pc[p] = "set" /\ client[p] = c}

Full == Cardinality(Procs) * Limit

\* A client whose window began at an instant.  From the next one on there is a
\* single counter left, and one hit of it is gone; so it is in the window before.
Within(c, start) ==
    /\ Hits(c, start - Window, start - 1) <= Limit - 1
    /\ Hits(c, start, now) + Cardinality(Room(c)) + Limit * Cardinality(Waiting(c)) <= Full
    /\ start < now => Hits(c, start + 1, now) + Cardinality(Room(c)) <= Limit - 1
    /\ Waiting(c) # {} => start = now

\* A client that has none.
Between(c) ==
    /\ Hits(c, now - Window, now) <= Limit - 1
    /\ AdmittedIn(c, now, now) = {}
    /\ \A p \in Procs : ~(pc[p] = "add" /\ client[p] = c)

WindowOK(c) ==
    IF Hit(cache, c, now) THEN Within(c, cache.items[c].exp - Window) ELSE Between(c)

Windows == \A c \in Clients \ crowdedOut : WindowOK(c)

LEMMA FullType == Full \in Nat /\ Cardinality(Procs) \in Nat
  BY FS_CardinalityType DEF Full

LEMMA WaitingType ==
    ASSUME NEW c
    PROVE  /\ IsFiniteSet(Waiting(c)) /\ Cardinality(Waiting(c)) \in Nat
           /\ Limit * Cardinality(Waiting(c)) \in Nat
           /\ Limit * Cardinality(Waiting(c)) <= Full
<1>1. Waiting(c) \in SUBSET Procs
  BY DEF Waiting
<1>2. IsFiniteSet(Waiting(c)) /\ Cardinality(Waiting(c)) <= Cardinality(Procs)
  BY <1>1, FS_Subset
<1>3. Cardinality(Waiting(c)) \in Nat /\ Cardinality(Procs) \in Nat
  BY <1>2, FS_CardinalityType
<1>4. \A m, n \in Nat : m <= n => Limit * m \in Nat /\ Limit * m <= n * Limit
  OBVIOUS
<1> QED BY <1>2, <1>3, <1>4 DEF Full

LEMMA PairsFinite == IsFiniteSet(Counters \X (1..Limit))
<1>1. IsFiniteSet(1..Limit) /\ IsFiniteSet(Counters)
  BY CountersFinite, FS_Interval
<1> DEFINE counts == 1..Limit
<1> HIDE DEF counts, Counters
<1> QED BY <1>1, FS_Product DEF counts

LEMMA RoomType ==
    ASSUME NEW c
    PROVE  IsFiniteSet(Room(c)) /\ Cardinality(Room(c)) \in Nat
<1>1. IsFiniteSet(Counters \X (1..Limit))
  BY PairsFinite
<1>2. Room(c) \in SUBSET (Counters \X (1..Limit))
  BY DEF Room
<1>3. IsFiniteSet(Room(c))
  BY <1>1, <1>2, FS_Subset
<1> QED BY <1>3, FS_CardinalityType

\* Counters in use never go down, so that room only comes with a new one.
LEMMA RoomShrinks ==
    ASSUME LimiterInv, [Next]_vars, NEW c \in Clients, NEW pair \in Room(c)'
    PROVE  \/ pair \in Room(c) /\ pair \in Counters \X (1..Limit)
           \/ \E p \in Procs : FirstHit(p) /\ c = client[p] /\ pair \in {FreshCounter} \X (2..Limit)
<1> DEFINE n == pair[1]
           k == pair[2]
<1>1. /\ pair \in Counters \X (1..Limit) /\ n \in Counters /\ k \in 1..Limit
      /\ InUse(n, c)' /\ count'[n] < k /\ pair = <<n, k>>
  <2>1. Room(c)' = {q \in Counters \X (1..Limit) : InUse(q[1], c)' /\ count'[q[1]] < q[2]}
    BY DEF Room
  <2> QED BY <2>1
<1> HIDE DEF n, k
<1>2. Serving /\ Entries
  BY DEF LimiterInv
<1>3. CASE \E p \in Procs : FirstHit(p) /\ c = client[p] /\ n = FreshCounter
  <2>1. PICK p \in Procs : FirstHit(p) /\ c = client[p] /\ n = FreshCounter
    BY <1>3
  <2>2. count' = [count EXCEPT ![FreshCounter] = 1]
    BY <2>1 DEF FirstHit, FirstCount
  <2>3. count'[n] = 1
    BY <1>1, <1>2, <2>1, <2>2 DEF Serving
  <2> QED BY <1>1, <2>1, <2>3
<1>4. CASE InUse(n, c)
  <2>1. count[n] <= count'[n]
    BY <1>1, <1>4, CountGrows
  <2>2. count[n] < k
    <3>1. count[n] \in Int /\ count'[n] \in Int
      BY <1>1, <1>2, ServingStep DEF Serving
    <3> QED BY <1>1, <2>1, <3>1
  <2> QED BY <1>1, <1>4, <2>2 DEF Room, n, k
<1> QED BY <1>1, <1>3, <1>4, InUseStep

LEMMA RoomOfOthers ==
    ASSUME LimiterInv, [Next]_vars, NEW c \in Clients,
           \A p \in Procs : FirstHit(p) => c # client[p]
    PROVE  Cardinality(Room(c)') <= Cardinality(Room(c))
<1>1. Room(c)' \in SUBSET Room(c)
  BY RoomShrinks
<1> QED BY <1>1, RoomType, FS_Subset

\* What a counter has left after its first hit.
LEMMA RestOfOne ==
    ASSUME NEW n
    PROVE  IsFiniteSet({n} \X (2..Limit)) /\ Cardinality({n} \X (2..Limit)) = Limit - 1
<1>1. IsFiniteSet({n}) /\ Cardinality({n}) = 1
  BY FS_Singleton
<1>2. IsFiniteSet(2..Limit) /\ Cardinality(2..Limit) = Limit - 1
  BY FS_Interval
<1>3. ASSUME NEW S, IsFiniteSet(S), Cardinality(S) = 1,
             NEW T, IsFiniteSet(T), Cardinality(T) = Limit - 1
      PROVE  IsFiniteSet(S \X T) /\ Cardinality(S \X T) = Limit - 1
  <2>1. IsFiniteSet(S \X T) /\ Cardinality(S \X T) = 1 * (Limit - 1)
    BY <1>3, FS_Product
  <2> QED BY <2>1
<1> QED BY <1>1, <1>2, <1>3

\* Between requests a client has one counter at most, and has hit it.
LEMMA RoomAtRest ==
    ASSUME LimiterInv, NEW c \in Clients, \A p \in Procs : pc[p] = "idle"
    PROVE  Cardinality(Room(c)) <= Limit - 1
<1>1. PICK n : n = ValueOf(cache, c)
  OBVIOUS
<1>2. ASSUME NEW pair \in Room(c) PROVE pair \in {n} \X (2..Limit)
  <2>1. /\ pair \in Counters \X (1..Limit) /\ pair[1] \in Counters
        /\ InUse(pair[1], c) /\ count[pair[1]] < pair[2]
    BY DEF Room
  <2>2. pair[1] = n
    BY <1>1, <2>1 DEF InUse
  <2>3. count[pair[1]] >= 1 /\ count[pair[1]] \in Int
    BY <2>1 DEF LimiterInv, Started, Serving
  <2> QED BY <2>1, <2>2, <2>3
<1> DEFINE rest == {n} \X (2..Limit)
<1>3. Room(c) \in SUBSET rest
  BY <1>2
<1>4. IsFiniteSet(rest) /\ Cardinality(rest) = Limit - 1
  BY RestOfOne
<1> HIDE DEF rest
<1> QED BY <1>3, <1>4, FS_Subset

\* Room after a request made a new counter for c.
LEMMA RoomOfNew ==
    ASSUME LimiterInv, [Next]_vars, NEW p \in Procs, FirstHit(p), NEW c, c = client[p]
    PROVE  /\ Cardinality(Room(c)') <= Cardinality(Room(c)) + Limit - 1
           /\ (\A q \in Procs : ~(pc[q] = "add" /\ client[q] = c)) =>
                  Cardinality(Room(c)') <= Limit - 1
<1>1. PICK n : n = FreshCounter
  OBVIOUS
<1>2. Serving /\ Entries /\ c \in Clients
  BY <1>1 DEF LimiterInv, Serving, FirstHit
<1> DEFINE new == {n} \X (2..Limit)
           room == Room(c)
           after == Room(c)'
<1>3. after \in SUBSET (room \union new)
  <2> SUFFICES ASSUME NEW pair \in Room(c)' PROVE pair \in Room(c) \/ pair \in new
    OBVIOUS
  <2>1. ASSUME NEW q \in Procs, FirstHit(q), pair \in {FreshCounter} \X (2..Limit)
        PROVE  pair \in new
    BY <1>1, <2>1
  <2> QED BY <1>2, <2>1, RoomShrinks
<1>4. IsFiniteSet(new) /\ Cardinality(new) = Limit - 1
  BY RestOfOne
<1>5. IsFiniteSet(room) /\ Cardinality(room) \in Nat
  BY RoomType
<1> HIDE DEF new, room, after
<1>6. Cardinality(after) <= Cardinality(room) + Limit - 1
  <2>1. /\ IsFiniteSet(room \union new)
        /\ Cardinality(room \union new) = Cardinality(room) + Cardinality(new) - Cardinality(room \cap new)
    BY <1>4, <1>5, FS_Union
  <2>2. IsFiniteSet(room \cap new)
    BY <1>5, FS_Intersection
  <2>3. Cardinality(room \cap new) \in Nat
    BY <2>2, FS_CardinalityType
  <2>4. IsFiniteSet(after) /\ Cardinality(after) <= Cardinality(room \union new)
    BY <1>3, <2>1, FS_Subset
  <2>5. Cardinality(after) \in Nat
    BY <2>4, FS_CardinalityType
  <2> QED BY <1>4, <1>5, <2>1, <2>3, <2>4, <2>5
<1>7. ASSUME \A q \in Procs : ~(pc[q] = "add" /\ client[q] = c)
      PROVE  Cardinality(after) <= Limit - 1
  <2>1. ASSUME NEW m, InUse(m, c)' PROVE m = n
    <3>1. \A q \in Procs : ~(pc'[q] = "add" /\ client'[q] = c)
      BY <1>2, <1>7, OthersHold DEF FirstHit
    <3> QED BY <1>1, <2>1, <3>1, FirstHitCache DEF InUse, ValueOf
  <2>2. ~\E m : InUse(m, c) /\ m = n
    <3>1. n \in Counters /\ ~InUse(n, c)
      BY <1>1, <1>2, Fresh DEF FirstHit
    <3> QED BY <3>1
  <2>3. ASSUME NEW pair \in after PROVE pair \in new
    <3>1. InUse(pair[1], c)'
      BY <2>3 DEF after, Room
    <3>2. ~InUse(pair[1], c)
      BY <2>1, <2>2, <3>1
    <3> QED BY <1>3, <2>3, <3>2 DEF room, Room
  <2> QED BY <1>4, <2>3, FS_Subset
<1> QED BY <1>6, <1>7 DEF after, room

LEMMA WindowsTick ==
    ASSUME Prompt, LimiterInv, Windows, Tick, NEW c \in Clients \ crowdedOut
    PROVE  WindowOK(c)'
<1>0. PICK start : start = cache.items[c].exp - Window
  OBVIOUS
<1>1. Serving /\ Entries /\ Admissions /\ now \in Nat
  BY DEF LimiterInv, Serving
<1>2. /\ now' = now + 1 /\ UNCHANGED <<cache, count, pc, client, counter, admitted>>
      /\ \A p \in Procs : pc[p] = "idle"
  <2>1. Busy = {}
    BY DEF Tick
  <2> QED BY <2>1 DEF Tick, Busy
<1>3. ASSUME NEW from, NEW to
      PROVE  Hits(c, from, to)' = Hits(c, from, to) /\ Hits(c, from, to) \in Nat
  <2>1. AdmittedIn(c, from, to)' = AdmittedIn(c, from, to)
    BY <1>2 DEF AdmittedIn
  <2> QED BY <1>1, <2>1, HitsType DEF Hits
<1>4. PICK next \in Int : next = now + 1
  BY <1>1
<1>5. CASE Hit(cache, c, next)
  <2>1. start \in Int /\ Hit(cache, c, now)
    BY <1>0, <1>1, <1>4, <1>5 DEF Hit, Entries
  <2>2. Within(c, start)
    BY <1>0, <2>1 DEF Windows, WindowOK
  <2>3. Hits(c, start, next) <= Hits(c, start, now)
    <3>1. AdmittedIn(c, start, next) \subseteq AdmittedIn(c, start, now)
      BY <1>1, <1>4, <2>1 DEF AdmittedIn, Admissions
    <3> QED BY <1>1, <3>1, HitsMonotone
  <2>4. Cardinality(Room(c)') = Cardinality(Room(c)) /\ Waiting(c) = {} /\ Waiting(c)' = {}
    <3>1. \A n : InUse(n, c)' <=> InUse(n, c)
      BY <1>2 DEF InUse, Keys, ValueOf
    <3>2. Room(c)' = Room(c)
      BY <1>2, <3>1 DEF Room
    <3> QED BY <1>2, <3>2 DEF Waiting
  <2>5. /\ Hits(c, start - Window, start - 1)' <= Limit - 1
        /\ Hits(c, start, next)' + Cardinality(Room(c)') + Limit * Cardinality(Waiting(c)') <= Full
    <3>1. /\ Hits(c, start - Window, start - 1) <= Limit - 1
          /\ Hits(c, start, now) + Cardinality(Room(c)) + Limit * Cardinality(Waiting(c)) <= Full
      BY <2>2 DEF Within
    <3>2. /\ Hits(c, start, now) \in Nat /\ Hits(c, start, next)' = Hits(c, start, next)
          /\ Hits(c, start, next) \in Nat
          /\ Hits(c, start - Window, start - 1)' = Hits(c, start - Window, start - 1)
      BY <1>3
    <3>3. Limit * Cardinality(Waiting(c)') = Limit * Cardinality(Waiting(c))
      BY <2>4
    <3>4. PICK w \in Nat : w = Limit * Cardinality(Waiting(c))
      BY WaitingType
    <3>5. PICK r \in Nat : r = Cardinality(Room(c))
      BY RoomType
    <3>6. PICK full \in Nat : full = Full
      BY FullType
    <3>7. Hits(c, start, next) + r + w <= full
      BY <2>3, <3>1, <3>2, <3>4, <3>5, <3>6
    <3> QED BY <2>4, <3>1, <3>2, <3>3, <3>4, <3>5, <3>6, <3>7
  <2>7. Hits(c, start + 1, next)' + Cardinality(Room(c)') <= Limit - 1
    <3>1. CASE start < now
      <4>1. Hits(c, start + 1, now) + Cardinality(Room(c)) <= Limit - 1
        BY <2>2, <3>1 DEF Within
      <4>2. AdmittedIn(c, start + 1, next) \subseteq AdmittedIn(c, start + 1, now)
        BY <1>1, <1>4, <2>1 DEF AdmittedIn, Admissions
      <4>3. Hits(c, start + 1, next) <= Hits(c, start + 1, now)
        BY <1>1, <4>2, HitsMonotone
      <4> QED BY <1>3, <2>4, <4>1, <4>3, RoomType
    <3>2. CASE ~(start < now)
      <4>1. AdmittedIn(c, start + 1, next) = {}
        BY <1>1, <2>1, <3>2 DEF AdmittedIn, Admissions
      <4>2. Hits(c, start + 1, next) = 0
        BY <4>1, FS_EmptySet DEF Hits
      <4>3. Cardinality(Room(c)) <= Limit - 1
        BY <1>2, RoomAtRest
      <4> QED BY <1>3, <2>4, <4>2, <4>3, RoomType
    <3> QED BY <3>1, <3>2
  <2>6. Within(c, start)'
    BY <1>2, <1>4, <2>4, <2>5, <2>7 DEF Within, Full
  <2> QED BY <1>0, <1>2, <1>4, <1>5, <2>6 DEF WindowOK, Hit
<1>6. CASE ~Hit(cache, c, next)
  <2>1. Hits(c, next - Window, next) <= Limit - 1
    <3>1. CASE Hit(cache, c, now)
      <4>1. start + 1 = next - Window /\ start \in Int /\ start < now
        BY <1>0, <1>1, <1>4, <1>6, <3>1 DEF Hit, Entries
      <4>2. Within(c, start)
        BY <1>0, <3>1 DEF Windows, WindowOK
      <4>3. Hits(c, start + 1, now) <= Limit - 1
        BY <1>3, <4>1, <4>2, RoomType DEF Within
      <4>4. Hits(c, start + 1, next) <= Hits(c, start + 1, now)
        <5>1. AdmittedIn(c, start + 1, next) \subseteq AdmittedIn(c, start + 1, now)
          BY <1>1, <1>4, <4>1 DEF AdmittedIn, Admissions
        <5> QED BY <1>1, <5>1, HitsMonotone
      <4> QED BY <1>3, <4>1, <4>3, <4>4
    <3>2. CASE ~Hit(cache, c, now)
      <4>1. Hits(c, now - Window, now) <= Limit - 1
        BY <3>2 DEF Windows, WindowOK, Between
      <4>2. Hits(c, next - Window, next) <= Hits(c, now - Window, now)
        <5>1. AdmittedIn(c, next - Window, next) \subseteq AdmittedIn(c, now - Window, now)
          BY <1>1, <1>4 DEF AdmittedIn, Admissions
        <5> QED BY <1>1, <5>1, HitsMonotone
      <4> QED BY <1>3, <4>1, <4>2, FullType
    <3> QED BY <3>1, <3>2
  <2>2. AdmittedIn(c, next, next)' = {}
    BY <1>1, <1>2, <1>4 DEF AdmittedIn, Admissions
  <2>3. Between(c)'
    BY <1>2, <1>3, <1>4, <2>1, <2>2 DEF Between, Full
  <2> QED BY <1>2, <1>4, <1>6, <2>3 DEF WindowOK, Hit
<1> QED BY <1>5, <1>6

LEMMA WindowsLookup ==
    ASSUME LimiterInv, Windows, NEW p \in Procs, NEW d \in Clients, Lookup(p, d),
           NEW c \in Clients \ crowdedOut
    PROVE  WindowOK(c)'
<1>1. Serving /\ Admissions /\ Next
  <2>1. Next
    BY DEF Next
  <2> QED BY <2>1 DEF LimiterInv
<1>2. /\ UNCHANGED <<now, count, admitted>> /\ cache'.items = cache.items
      /\ pc[p] = "idle" /\ client' = [client EXCEPT ![p] = d]
      /\ pc' = [pc EXCEPT ![p] = IF Hit(cache, d, now) THEN "add" ELSE "set"]
  BY DEF Lookup, AfterGet
<1>3. ASSUME NEW from, NEW to
      PROVE  Hits(c, from, to)' = Hits(c, from, to) /\ Hits(c, from, to) \in Nat
  <2>1. AdmittedIn(c, from, to)' = AdmittedIn(c, from, to)
    BY <1>2 DEF AdmittedIn
  <2> QED BY <1>1, <2>1, HitsType DEF Hits
<1>4. Hit(cache', c, now') <=> Hit(cache, c, now)
  BY <1>2 DEF Hit, Keys
<1>7. ASSUME NEW q \in Procs, FirstHit(q) PROVE FALSE
  <2>1. pc[q] = "set" /\ pc' = [pc EXCEPT ![q] = "idle"]
    BY <1>7 DEF FirstHit, Finish
  <2> QED BY <1>1, <1>2, <2>1 DEF Serving
<1>5. CASE Hit(cache, c, now)
  <2>1. PICK start : start = cache.items[c].exp - Window
    OBVIOUS
  <2>2. Within(c, start)
    BY <1>5, <2>1 DEF Windows, WindowOK
  <2>3. Cardinality(Room(c)') <= Cardinality(Room(c))
    BY <1>1, <1>7, RoomOfOthers
  <2>4. Waiting(c)' = Waiting(c)
    BY <1>1, <1>2, <1>5 DEF Waiting, Serving
  <2>5. Cardinality(Room(c)') \in Nat
    <3>1. IsFiniteSet(Room(c)')
      <4>1. Room(c)' \in SUBSET Room(c)
        BY <1>1, <1>7, RoomShrinks
      <4> QED BY <4>1, RoomType, FS_Subset
    <3> QED BY <3>1, FS_CardinalityType
  <2>6. Within(c, start)'
    <3>1. Hits(c, start, now)' = Hits(c, start, now) /\ Hits(c, start, now) \in Nat
      <4>1. PICK to : to = now
        OBVIOUS
      <4>2. Hits(c, start, to)' = Hits(c, start, to) /\ Hits(c, start, to) \in Nat
        BY <1>3
      <4> QED BY <1>2, <4>1, <4>2
    <3>2. Hits(c, start - Window, start - 1)' = Hits(c, start - Window, start - 1)
      BY <1>3
    <3>3. Hits(c, start + 1, now)' = Hits(c, start + 1, now) /\ Hits(c, start + 1, now) \in Nat
      <4>1. PICK to : to = now
        OBVIOUS
      <4>2. Hits(c, start + 1, to)' = Hits(c, start + 1, to) /\ Hits(c, start + 1, to) \in Nat
        BY <1>3
      <4> QED BY <1>2, <4>1, <4>2
    <3> QED BY <1>2, <2>2, <2>3, <2>4, <2>5, <3>1, <3>2, <3>3, RoomType, WaitingType, FullType
        DEF Within, Full
  <2> QED BY <1>2, <1>4, <1>5, <2>1, <2>6 DEF WindowOK
<1>6. CASE ~Hit(cache, c, now)
  <2>1. Between(c)
    BY <1>6 DEF Windows, WindowOK
  <2>2. \A q \in Procs : ~(pc'[q] = "add" /\ client'[q] = c)
    BY <1>1, <1>2, <1>6, <2>1 DEF Between, Serving
  <2>3. Hits(c, now - Window, now)' = Hits(c, now - Window, now) /\ AdmittedIn(c, now, now)' = AdmittedIn(c, now, now)
    BY <1>2 DEF Hits, AdmittedIn
  <2>4. Between(c)'
    BY <1>2, <2>1, <2>2, <2>3 DEF Between, Full
  <2> QED BY <1>4, <1>6, <2>4 DEF WindowOK
<1> QED BY <1>5, <1>6

LEMMA WindowsAdd ==
    ASSUME LimiterInv, Windows, NEW p \in Procs, AddAdmitted(p) \/ AddRefused(p),
           NEW c \in Clients \ crowdedOut
    PROVE  WindowOK(c)'
<1>1. Serving /\ Admissions /\ Owned /\ now \in Nat /\ Next
  <2>1. Next
    BY DEF Next
  <2> QED BY <2>1 DEF LimiterInv, Serving
<1>2. PICK d, n : d = client[p] /\ n = counter[p]
  OBVIOUS
<1>3. /\ now' = now /\ cache' = cache /\ pc[p] = "add" /\ Finish(p)
      /\ count' = [count EXCEPT ![n] = Bump(@)]
      /\ d \in Clients /\ n \in Counters /\ InUse(n, d)
      /\ count[n] \in 0..MaxCount
  BY <1>1, <1>2 DEF AddAdmitted, AddRefused, Serving, InUse
<1>4. ASSUME NEW q \in Procs, FirstHit(q) PROVE FALSE
  <2>1. pc[q] = "set" /\ pc' = [pc EXCEPT ![q] = "idle"] /\ pc' = [pc EXCEPT ![p] = "idle"]
    BY <1>3, <1>4 DEF FirstHit, Finish
  <2> QED BY <1>1, <1>3, <2>1 DEF Serving
<1>5. Waiting(c)' = Waiting(c)
  BY <1>1, <1>3 DEF Waiting, Finish, Serving
<1> DEFINE Gain(from, to) == IF AddAdmitted(p) /\ c = d /\ from <= now /\ now <= to THEN 1 ELSE 0
<1>6. ASSUME NEW from \in Int, NEW to \in Int
      PROVE  Hits(c, from, to)' = Hits(c, from, to) + Gain(from, to) /\ Hits(c, from, to) \in Nat
  <2>1. CASE AddAdmitted(p)
    <3>1. Admit(p) /\ pc[p] # "idle" /\ now' = now
      BY <1>3, <2>1 DEF AddAdmitted
    <3> QED BY <1>1, <1>2, <2>1, <3>1, Admitting, HitsType
  <2>2. CASE ~AddAdmitted(p)
    <3>1. AdmittedIn(c, from, to)' = AdmittedIn(c, from, to)
      BY <2>2 DEF AddRefused, AdmittedIn
    <3>2. Hits(c, from, to)' = Hits(c, from, to) /\ Hits(c, from, to) \in Nat
      BY <1>1, <3>1, HitsType DEF Hits
    <3> QED BY <2>2, <3>2
  <2> QED BY <2>1, <2>2
<1>7. CASE Hit(cache, c, now)
  <2>1. PICK start : start = cache.items[c].exp - Window
    OBVIOUS
  <2>2. Within(c, start) /\ start \in Int /\ start <= now
    BY <1>7, <2>1 DEF Windows, WindowOK, Hit, Entries, LimiterInv, Serving
  <2>3. PICK to \in Int : to = now
    BY <1>1
  <2>4. /\ IsFiniteSet(Room(c)') /\ Cardinality(Room(c)') \in Nat
        /\ Cardinality(Room(c)') + Gain(start, to) <= Cardinality(Room(c))
    <3>1. Room(c)' \in SUBSET Room(c)
      BY <1>1, <1>4, RoomShrinks
    <3>2. IsFiniteSet(Room(c)') /\ Cardinality(Room(c)') <= Cardinality(Room(c))
      BY <3>1, RoomType, FS_Subset
    <3>3. Cardinality(Room(c)') \in Nat /\ Cardinality(Room(c)) \in Nat
      BY <3>2, RoomType, FS_CardinalityType
    <3>4. CASE AddAdmitted(p) /\ c = d
      <4> DEFINE used == <<n, count[n] + 1>>
      <4>1. count[n] < Limit /\ Bump(count[n]) = count[n] + 1
        BY <1>2, <1>3, <3>4, BumpIs DEF AddAdmitted
      <4>2. used \in Room(c)
        BY <1>3, <3>4, <4>1 DEF Room
      <4>3. ASSUME used \in Room(c)' PROVE FALSE
        <5>1. Room(c)' = {q \in Counters \X (1..Limit) : InUse(q[1], c)' /\ count'[q[1]] < q[2]}
          BY DEF Room
        <5>2. count'[n] < count[n] + 1
          BY <4>3, <5>1
        <5>3. count'[n] = count[n] + 1
          BY <1>1, <1>3, <4>1 DEF Serving
        <5> QED BY <1>3, <5>2, <5>3
      <4> HIDE DEF used
      <4>4. Room(c)' \in SUBSET (Room(c) \ {used})
        BY <3>1, <4>3
      <4>5. /\ IsFiniteSet(Room(c) \ {used})
            /\ Cardinality(Room(c) \ {used}) = Cardinality(Room(c)) - 1
        BY <4>2, RoomType, FS_RemoveElement
      <4>6. Cardinality(Room(c)') <= Cardinality(Room(c)) - 1
        BY <4>4, <4>5, FS_Subset
      <4> QED BY <3>2, <3>3, <4>6
    <3> QED BY <3>2, <3>3, <3>4
  <2>5. /\ Hits(c, start, to)' = Hits(c, start, to) + Gain(start, to)
        /\ Hits(c, start - Window, start - 1)' = Hits(c, start - Window, start - 1)
        /\ Hits(c, start, to) \in Nat /\ Gain(start, to) \in Nat
    <3>1. Gain(start - Window, start - 1) = 0 /\ Gain(start, to) \in Nat
      BY <1>1, <2>2
    <3>2. start - Window \in Int /\ start - 1 \in Int
      BY <2>2
    <3> HIDE DEF Gain
    <3>3. Hits(c, start - Window, start - 1)' = Hits(c, start - Window, start - 1) + 0
      BY <1>6, <3>1, <3>2
    <3>4. Hits(c, start - Window, start - 1) \in Nat
      BY <1>6, <3>2
    <3> QED BY <1>6, <2>2, <3>1, <3>3, <3>4
  <2> HIDE DEF Gain
  <2>6. Hits(c, start, to)' + Cardinality(Room(c)') + Limit * Cardinality(Waiting(c)) <= Full
    <3>1. Hits(c, start, to) + Cardinality(Room(c)) + Limit * Cardinality(Waiting(c)) <= Full
      BY <2>2, <2>3 DEF Within
    <3>2. Limit * Cardinality(Waiting(c)) \in Nat /\ Cardinality(Room(c)) \in Nat
      BY RoomType, WaitingType
    <3> QED BY <2>4, <2>5, <3>1, <3>2, FullType
  <2>8. start < to => Hits(c, start + 1, to)' + Cardinality(Room(c)') <= Limit - 1
    <3> SUFFICES ASSUME start < to
                 PROVE  Hits(c, start + 1, to)' + Cardinality(Room(c)') <= Limit - 1
      OBVIOUS
    <3>1. Hits(c, start + 1, to) + Cardinality(Room(c)) <= Limit - 1
      BY <2>2, <2>3 DEF Within
    <3>2. start + 1 \in Int /\ Gain(start + 1, to) = Gain(start, to)
      BY <2>2, <2>3 DEF Gain
    <3>3. /\ Hits(c, start + 1, to)' = Hits(c, start + 1, to) + Gain(start + 1, to)
          /\ Hits(c, start + 1, to) \in Nat
      BY <1>6, <2>3, <3>2
    <3> QED BY <2>4, <2>5, <3>1, <3>2, <3>3, RoomType
  <2>7. Within(c, start)'
    BY <1>3, <1>5, <2>2, <2>3, <2>5, <2>6, <2>8 DEF Within, Full
  <2> QED BY <1>3, <1>7, <2>1, <2>7 DEF WindowOK
<1>8. CASE ~Hit(cache, c, now)
  <2>1. Between(c) /\ c # d
    BY <1>2, <1>3, <1>8 DEF Windows, WindowOK, Between
  <2>2. \A q \in Procs : ~(pc'[q] = "add" /\ client'[q] = c)
    BY <1>1, <1>3, <2>1, OthersHold DEF Between
  <2>3. ASSUME NEW from, NEW to PROVE AdmittedIn(c, from, to)' = AdmittedIn(c, from, to)
    <3>1. admitted' = admitted \/ \E nth : admitted' = admitted \union {Admission(d, now, nth)}
      BY <1>2 DEF AddAdmitted, AddRefused, Admit
    <3>2. \A nth : Admission(d, now, nth).client = d
      BY DEF Admission
    <3>3. admitted \subseteq admitted' /\ \A a \in admitted' \ admitted : a.client = d
      BY <3>1, <3>2
    <3> QED BY <2>1, <3>3 DEF AdmittedIn
  <2>4. PICK to, from : to = now /\ from = now - Window
    OBVIOUS
  <2>5. AdmittedIn(c, to, to)' = {} /\ Hits(c, from, to)' <= Limit - 1
    BY <2>1, <2>3, <2>4 DEF Between, Hits
  <2>6. Between(c)'
    BY <1>3, <2>2, <2>4, <2>5 DEF Between, Full
  <2> QED BY <1>3, <1>8, <2>6 DEF WindowOK
<1> QED BY <1>7, <1>8

LEMMA WindowsFirstHit ==
    ASSUME LimiterInv, Windows, NEW p \in Procs, FirstHit(p),
           NEW c \in Clients, c \notin crowdedOut'
    PROVE  WindowOK(c)'
<1>1. Serving /\ Entries /\ Admissions /\ now \in Nat /\ Next
  <2>1. Next
    BY DEF Next
  <2> QED BY <2>1 DEF LimiterInv, Serving
<1>2. PICK d, to : d = client[p] /\ to = now
  OBVIOUS
<1>3. /\ now' = now /\ pc[p] = "set" /\ Finish(p) /\ Admit(p) /\ d \in Clients /\ to \in Int
      /\ c \in Clients \ crowdedOut
      /\ Hit(cache, c, now) => c \in Keys(cache')
  <2>1. crowdedOut' = crowdedOut \cup {k \in Keys(cache) : Hit(cache, k, now) /\ k \notin Keys(cache')}
    BY DEF FirstHit
  <2>2. c \notin crowdedOut /\ (Hit(cache, c, now) => c \in Keys(cache'))
    BY <2>1 DEF Hit
  <2> QED BY <1>1, <1>2, <2>2 DEF FirstHit, Serving
<1>4. ASSUME NEW from \in Int, NEW till \in Int
      PROVE  /\ Hits(c, from, till) \in Nat
             /\ c = d /\ from <= to /\ to <= till => Hits(c, from, till)' = Hits(c, from, till) + 1
             /\ ~(c = d /\ from <= to /\ to <= till) => Hits(c, from, till)' = Hits(c, from, till)
  <2>1. Hits(c, from, till) \in Nat
    BY <1>1, HitsType
  <2>2. Hits(c, from, till)' = Hits(c, from, till) + (IF c = d /\ from <= to /\ to <= till THEN 1 ELSE 0)
    BY <1>1, <1>2, <1>3, Admitting
  <2> QED BY <2>1, <2>2
<1>5. WindowOK(c)
  BY <1>3 DEF Windows
<1>6. PICK window : window = to - Window
  OBVIOUS
<1>7. CASE c = d
  <2>1. Hit(cache', c, now') /\ cache'.items[c].exp - Window = to
    BY <1>1, <1>2, <1>3, <1>7, FirstHitCache DEF Hit
  <2>2. p \in Waiting(c) /\ Waiting(c)' = Waiting(c) \ {p}
    BY <1>1, <1>2, <1>3, <1>7 DEF Waiting, Finish, Serving
  <2>3. Limit * Cardinality(Waiting(c)') = Limit * Cardinality(Waiting(c)) - Limit
    <3>1. Cardinality(Waiting(c)') = Cardinality(Waiting(c)) - 1 /\ Cardinality(Waiting(c)) \in Nat
      BY <2>2, WaitingType, FS_RemoveElement
    <3>2. \A m \in Nat : Limit * (m - 1) = Limit * m - Limit
      OBVIOUS
    <3> QED BY <3>1, <3>2
  <2>4. /\ Cardinality(Room(c)') <= Cardinality(Room(c)) + Limit - 1
        /\ (\A q \in Procs : ~(pc[q] = "add" /\ client[q] = c)) => Cardinality(Room(c)') <= Limit - 1
    BY <1>1, <1>2, <1>7, RoomOfNew
  <2>5. Cardinality(Room(c)') \in Nat
    <3>1. IsFiniteSet(Room(c)')
      <4>1. Room(c)' \in SUBSET (Counters \X (1..Limit))
        BY DEF Room
      <4> QED BY <4>1, PairsFinite, FS_Subset
    <3> QED BY <3>1, FS_CardinalityType
  <2>6. /\ Hits(c, window, to - 1)' <= Limit - 1
        /\ Hits(c, to, to)' + Cardinality(Room(c)') + Limit * Cardinality(Waiting(c)') <= Full
    <3>1. /\ Hits(c, window, to - 1)' = Hits(c, window, to - 1)
          /\ Hits(c, to, to)' = Hits(c, to, to) + 1
          /\ {Hits(c, window, to - 1), Hits(c, to, to), Hits(c, window, to)} \subseteq Nat
      <4>1. window \in Int /\ to - 1 \in Int /\ ~(to <= to - 1)
        BY <1>3, <1>6
      <4>2. Hits(c, window, to - 1)' = Hits(c, window, to - 1) /\ Hits(c, window, to - 1) \in Nat
        BY <1>4, <4>1
      <4>3. Hits(c, to, to)' = Hits(c, to, to) + 1 /\ Hits(c, to, to) \in Nat
        <5>1. to \in Int /\ to <= to
          BY <1>3
        <5> QED BY <1>4, <1>7, <5>1
      <4>4. Hits(c, window, to) \in Nat
        BY <1>3, <1>4, <4>1
      <4> QED BY <4>2, <4>3, <4>4
    <3>2. CASE Hit(cache, c, now)
      <4>1. Within(c, cache.items[c].exp - Window)
        BY <1>5, <3>2 DEF WindowOK
      <4>2. cache.items[c].exp - Window = to
        BY <1>2, <2>2, <4>1 DEF Within
      <4>3. /\ Hits(c, window, to - 1) <= Limit - 1
            /\ Hits(c, to, to) + Cardinality(Room(c)) + Limit * Cardinality(Waiting(c)) <= Full
        BY <1>2, <1>6, <4>1, <4>2 DEF Within
      <4> QED BY <2>3, <2>4, <2>5, <3>1, <4>3, RoomType, WaitingType, FullType
    <3>3. CASE ~Hit(cache, c, now)
      <4>1. Between(c)
        BY <1>5, <3>3 DEF WindowOK
      <4>2. Hits(c, to, to) = 0 /\ Cardinality(Room(c)') <= Limit - 1
        BY <1>2, <2>4, <4>1, FS_EmptySet DEF Between, Hits
      <4>3. Hits(c, window, to - 1) <= Hits(c, window, to)
        BY <1>1, <1>3, <1>6, HitsMonotone DEF AdmittedIn
      <4>4. Hits(c, window, to) <= Limit - 1
        BY <1>2, <1>6, <4>1 DEF Between
      <4> QED BY <2>3, <2>5, <3>1, <4>2, <4>3, <4>4, WaitingType, FullType
    <3> QED BY <3>2, <3>3
  <2>7. Within(c, to)'
    BY <1>2, <1>3, <1>6, <2>6 DEF Within, Full
  <2> QED BY <2>1, <2>7 DEF WindowOK
<1>8. CASE c # d
  <2>1. /\ Hit(cache', c, now') <=> Hit(cache, c, now)
        /\ Hit(cache, c, now) => cache'.items[c] = cache.items[c]
    BY <1>2, <1>3, <1>8, FirstHitCache DEF Hit
  <2>2. Waiting(c)' = Waiting(c)
    BY <1>1, <1>2, <1>3, <1>8 DEF Waiting, Finish, Serving
  <2>3. Room(c)' \in SUBSET Room(c)
    <3>1. ASSUME NEW q \in Procs, FirstHit(q) PROVE q = p
      <4>1. pc[q] = "set" /\ pc' = [pc EXCEPT ![q] = "idle"] /\ pc' = [pc EXCEPT ![p] = "idle"]
        BY <1>3, <3>1 DEF FirstHit, Finish
      <4> QED BY <1>1, <1>3, <4>1 DEF Serving
    <3> QED BY <1>1, <1>2, <1>3, <1>8, <3>1, RoomShrinks
  <2>4. Cardinality(Room(c)') <= Cardinality(Room(c)) /\ Cardinality(Room(c)') \in Nat
    <3>1. IsFiniteSet(Room(c)') /\ Cardinality(Room(c)') <= Cardinality(Room(c))
      BY <2>3, RoomType, FS_Subset
    <3> QED BY <3>1, FS_CardinalityType
  <2>5. ASSUME NEW from \in Int, NEW till \in Int
        PROVE  Hits(c, from, till)' = Hits(c, from, till) /\ Hits(c, from, till) \in Nat
    BY <1>4, <1>8
  <2>6. CASE Hit(cache, c, now)
    <3>1. PICK start : start = cache.items[c].exp - Window
      OBVIOUS
    <3>2. Within(c, start) /\ start \in Int /\ start - Window \in Int /\ start - 1 \in Int
      BY <1>1, <1>5, <2>6, <3>1 DEF WindowOK, Hit, Entries
    <3>3. /\ Hits(c, start - Window, start - 1)' <= Limit - 1
          /\ Hits(c, start, to)' + Cardinality(Room(c)') + Limit * Cardinality(Waiting(c)) <= Full
          /\ start < to => Hits(c, start + 1, to)' + Cardinality(Room(c)') <= Limit - 1
      <4>1. /\ Hits(c, start - Window, start - 1) <= Limit - 1
            /\ Hits(c, start, to) + Cardinality(Room(c)) + Limit * Cardinality(Waiting(c)) <= Full
            /\ start < to => Hits(c, start + 1, to) + Cardinality(Room(c)) <= Limit - 1
        BY <1>2, <3>2 DEF Within
      <4>3. /\ Hits(c, start + 1, to)' = Hits(c, start + 1, to)
            /\ Hits(c, start + 1, to) \in Nat
        <5>1. start + 1 \in Int /\ to \in Int
          BY <1>3, <3>2
        <5> QED BY <2>5, <5>1
      <4>2. /\ Hits(c, start - Window, start - 1)' = Hits(c, start - Window, start - 1)
            /\ Hits(c, start, to)' = Hits(c, start, to) /\ Hits(c, start, to) \in Nat
        BY <1>3, <2>5, <3>2
      <4> QED BY <2>4, <4>1, <4>2, <4>3, RoomType, WaitingType, FullType
    <3>4. Within(c, start)'
      BY <1>2, <1>3, <2>2, <3>2, <3>3 DEF Within, Full
    <3> QED BY <2>1, <2>6, <3>1, <3>4 DEF WindowOK
  <2>7. CASE ~Hit(cache, c, now)
    <3>1. Between(c)
      BY <1>5, <2>7 DEF WindowOK
    <3>2. \A q \in Procs : ~(pc'[q] = "add" /\ client'[q] = c)
      BY <1>1, <1>3, <3>1, OthersHold DEF Between
    <3>3. Hits(c, window, to)' <= Limit - 1 /\ Hits(c, to, to)' = 0
      <4>1. Hits(c, window, to) <= Limit - 1 /\ Hits(c, to, to) = 0
        BY <1>2, <1>6, <3>1, FS_EmptySet DEF Between, Hits
      <4>2. window \in Int
        BY <1>3, <1>6
      <4> QED BY <1>3, <2>5, <4>1, <4>2
    <3>4. AdmittedIn(c, to, to)' = {}
      <4>1. Admissions'
        BY <1>1, <1>2, AdmissionsStep
      <4>2. IsFiniteSet(AdmittedIn(c, to, to)')
        <5>1. AdmittedIn(c, to, to)' \in SUBSET admitted'
          BY DEF AdmittedIn
        <5> QED BY <4>1, <5>1, FS_Subset DEF Admissions
      <4> QED BY <3>3, <4>2, FS_EmptySet DEF Hits
    <3>5. Between(c)'
      BY <1>2, <1>3, <1>6, <3>2, <3>3, <3>4 DEF Between, Full
    <3> QED BY <2>1, <2>7, <3>5 DEF WindowOK
  <2> QED BY <2>6, <2>7
<1> QED BY <1>7, <1>8

LEMMA WindowsStep == ASSUME Prompt, LimiterInv, Windows, [Next]_vars PROVE Windows'
<1> SUFFICES ASSUME NEW c \in Clients, c \notin crowdedOut' PROVE WindowOK(c)'
  BY DEF Windows
<1>1. c \notin crowdedOut
  BY DEF Next, vars, Tick, Lookup, AddAdmitted, AddRefused, FirstHit
<1>2. CASE UNCHANGED vars
  <2>1. WindowOK(c)
    BY <1>1 DEF Windows
  <2> QED BY <1>2, <2>1 DEF vars, WindowOK, Within, Between, Hit, Keys, Hits, AdmittedIn, Full,
          Room, InUse, ValueOf, Waiting
<1> QED BY <1>1, <1>2, WindowsTick, WindowsLookup, WindowsAdd, WindowsFirstHit DEF Next

LEMMA WindowsInvariant == ASSUME Prompt PROVE Spec => []Windows
<1>1. Init => Windows
  <2> SUFFICES ASSUME Init, NEW c \in Clients PROVE WindowOK(c)
    BY DEF Windows
  <2>1. \A from, to : AdmittedIn(c, from, to) = {}
    BY DEF Init, AdmittedIn
  <2>2. \A from, to : Hits(c, from, to) = 0
    BY <2>1, FS_EmptySet DEF Hits
  <2> QED BY <2>1, <2>2, FullType DEF Init, WindowOK, Between, Hit, EmptyCache, Keys
<1> QED BY <1>1, WindowsStep, LimiterInvariant, PTL DEF Spec

\* A stretch of time that ends now or later, and is no longer than a window,
\* has seen at most a full window and the rest of the one before.
LEMMA NowBounded ==
    ASSUME LimiterInv, NEW c \in Clients, WindowOK(c), NEW t \in Int, now <= t + Window
    PROVE  Hits(c, t, t + Window) <= Full + Limit - 1
<1>1. /\ Admissions /\ now \in Nat /\ t + Window \in Int /\ now - Window \in Int
      /\ Hits(c, t, t + Window) \in Nat
  BY HitsType DEF LimiterInv, Serving
<1>2. CASE Hit(cache, c, now)
  <2>1. PICK start : start = cache.items[c].exp - Window
    OBVIOUS
  <2>2. start \in Int /\ start <= now /\ start - Window <= t
    BY <1>1, <1>2, <2>1 DEF LimiterInv, Entries, Hit
  <2> DEFINE before == AdmittedIn(c, start - Window, start - 1)
             since == AdmittedIn(c, start, now)
  <2>3. AdmittedIn(c, t, t + Window) \in SUBSET (before \union since)
    BY <1>1, <2>2 DEF AdmittedIn, Admissions
  <2>4. /\ IsFiniteSet(before) /\ Cardinality(before) \in Nat
        /\ IsFiniteSet(since) /\ Cardinality(since) \in Nat
    BY <1>1, HitsType DEF Hits
  <2>5. Cardinality(before) <= Limit - 1 /\ Cardinality(since) <= Full
    <3>1. /\ Hits(c, start - Window, start - 1) <= Limit - 1
          /\ Hits(c, start, now) + Cardinality(Room(c)) + Limit * Cardinality(Waiting(c)) <= Full
      BY <1>2, <2>1 DEF WindowOK, Within
    <3>2. Hits(c, start, now) \in Nat
      BY <1>1, HitsType
    <3>3. Hits(c, start, now) <= Full
      BY <3>1, <3>2, RoomType, WaitingType, FullType
    <3> QED BY <3>1, <3>3 DEF Hits
  <2> HIDE DEF before, since
  <2>6. /\ IsFiniteSet(before \union since)
        /\ Cardinality(before \union since) =
              Cardinality(before) + Cardinality(since) - Cardinality(before \cap since)
    BY <2>4, FS_Union
  <2>7. Cardinality(before \cap since) \in Nat
    <3>1. IsFiniteSet(before \cap since)
      BY <2>4, FS_Intersection
    <3> QED BY <3>1, FS_CardinalityType
  <2>8. Hits(c, t, t + Window) <= Cardinality(before \union since)
    BY <2>3, <2>6, FS_Subset DEF Hits
  <2> QED BY <1>1, <2>4, <2>5, <2>6, <2>7, <2>8, FullType
<1>3. CASE ~Hit(cache, c, now)
  <2>1. Hits(c, now - Window, now) <= Limit - 1
    BY <1>3 DEF WindowOK, Between
  <2>2. AdmittedIn(c, t, t + Window) \subseteq AdmittedIn(c, now - Window, now)
    BY <1>1 DEF AdmittedIn, Admissions
  <2>3. Hits(c, t, t + Window) <= Hits(c, now - Window, now) /\ Hits(c, now - Window, now) \in Nat
    BY <1>1, <2>2, HitsMonotone, HitsType
  <2> QED BY <1>1, <2>1, <2>3, FullType
<1> QED BY <1>2, <1>3

\* Stretches of time that are over.
PastBounded ==
    \A c \in Clients \ crowdedOut : \A t \in Int :
        t + Window < now => Hits(c, t, t + Window) <= Full + Limit - 1

LEMMA PastStep == ASSUME LimiterInv, Windows, PastBounded, [Next]_vars PROVE PastBounded'
<1>1. Serving /\ Admissions /\ now \in Nat
  BY DEF LimiterInv, Serving
<1> SUFFICES ASSUME NEW c \in Clients, c \notin crowdedOut', NEW t \in Int, t + Window < now'
             PROVE  Hits(c, t, t + Window)' <= Full + Limit - 1
  BY DEF PastBounded, Full
<1>2. c \notin crowdedOut
  BY DEF Next, vars, Tick, Lookup, AddAdmitted, AddRefused, FirstHit
<1>3. Hits(c, t, t + Window) <= Full + Limit - 1
  <2>1. WindowOK(c)
    BY <1>2 DEF Windows
  <2>2. CASE t + Window < now
    BY <1>2, <2>2 DEF PastBounded
  <2>3. CASE ~(t + Window < now)
    <3>1. now <= t + Window
      BY <1>1, <2>3
    <3> QED BY <2>1, <3>1, NowBounded
  <2> QED BY <2>2, <2>3
<1>4. PICK till \in Int : till = t + Window
  OBVIOUS
<1>5. Hits(c, t, till)' = Hits(c, t, till)
  <2>1. CASE admitted' = admitted
    BY <2>1 DEF Hits, AdmittedIn
  <2>2. ASSUME NEW p \in Procs, AddAdmitted(p) \/ FirstHit(p)
        PROVE  Hits(c, t, till)' = Hits(c, t, till)
    <3>1. Admit(p) /\ pc[p] # "idle" /\ now' = now /\ ~(now <= till)
      BY <1>1, <1>4, <2>2 DEF AddAdmitted, FirstHit
    <3>2. Hits(c, t, till)' = Hits(c, t, till) + 0
      BY <3>1, Admitting
    <3> QED BY <1>1, <3>2, HitsType
  <2> QED BY <2>1, <2>2 DEF Next, vars, Tick, Lookup, AddRefused
<1> QED BY <1>3, <1>4, <1>5

\* Served at once, a client whose counters are not evicted gets a full limit
\* through for each request slot when its window begins and, in as long as a
\* window, no more than the rest of a single counter besides.
THEOREM WindowsAreBounded == ASSUME Prompt PROVE Spec => []WindowBound
<1>1. Init => PastBounded
  <2>1. ASSUME Init, NEW c, NEW t PROVE Hits(c, t, t + Window) = 0
    <3>1. AdmittedIn(c, t, t + Window) = {}
      BY <2>1 DEF Init, AdmittedIn
    <3> QED BY <3>1, FS_EmptySet DEF Hits
  <2>2. 0 <= Full + Limit - 1
    BY FullType
  <2> QED BY <2>1, <2>2 DEF PastBounded
<1>2. LimiterInv /\ Windows /\ PastBounded => WindowBound
  <2> SUFFICES ASSUME LimiterInv, Windows, PastBounded,
                      NEW c \in Clients \ crowdedOut, NEW t \in 0..(MaxTime - Window)
               PROVE  Hits(c, t, t + Window) <= Full + Limit - 1
    <3>1. (Cardinality(Procs) + 1) * Limit - 1 = Full + Limit - 1
      <4>1. \A n \in Nat : (n + 1) * Limit = n * Limit + Limit
        OBVIOUS
      <4> QED BY <4>1, FullType DEF Full
    <3> QED BY <3>1 DEF WindowBound, Hits
  <2>1. now \in Nat /\ t \in Int /\ WindowOK(c)
    BY DEF LimiterInv, Serving, Windows
  <2>2. CASE t + Window < now
    BY <2>1, <2>2 DEF PastBounded
  <2>3. CASE now <= t + Window
    BY <2>1, <2>3, NowBounded
  <2> QED BY <2>1, <2>2, <2>3
<1> QED BY <1>1, <1>2, PastStep, WindowsInvariant, LimiterInvariant, PTL DEF Spec
=============================================================================
