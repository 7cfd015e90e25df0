-------------------------- MODULE VerifyCacheProofs --------------------------
(***************************************************************************)
(* Theorems about VerifyCache, for any calls, tokens, expiry times and     *)
(* cache size: what a call is answered is the identity of its own token,   *)
(* and a cached verification does not outlive the token.                   *)
(***************************************************************************)
EXTENDS VerifyCache, TLAPS

USE VerifyCacheAssumption

-----------------------------------------------------------------------------
(* Identities.                                                             *)

\* A cached verification is that of its key, of a token that was accepted.
CachedKnown == \A t \in Keys(cache) : t \in known /\ ValueOf(cache, t) = Claims(t)

\* A call works on one token, accepted once it is past the verifier.
CallsOnToken ==
    /\ DOMAIN pc = Procs /\ DOMAIN tok = Procs /\ DOMAIN result = Procs
    /\ \A p \in Procs :
          /\ pc[p] # "idle" => tok[p] \in Tokens
          /\ pc[p] \in {"until", "store"} => tok[p] \in known

IdentityInv == CachedKnown /\ CallsOnToken /\ OwnIdentity

\* What an answer of call p leaves of the calls.
LEMMA AnswerStep ==
    ASSUME IdentityInv, NEW p \in Procs, NEW r, Answer(p, r),
           r.ok => r.tok \in known' /\ r.claims = Claims(r.tok),
           known' = known, CachedKnown'
    PROVE  IdentityInv'
<1> USE DEF IdentityInv
<1>1. CallsOnToken'
  BY DEF CallsOnToken, Answer
<1>2. \A q \in Procs :
          result'[q].ok => /\ result'[q].tok \in known'
                           /\ result'[q].claims = Claims(result'[q].tok)
  BY DEF CallsOnToken, OwnIdentity, Answer
<1> QED BY <1>1, <1>2 DEF CachedKnown, OwnIdentity, Key

LEMMA IdentityStep ==
    ASSUME IdentityInv, [Next]_vars
    PROVE  IdentityInv'
<1> USE DEF IdentityInv
<1>1. CASE UNCHANGED vars \/ Tick \/ KeysChange
  BY <1>1 DEF vars, Tick, KeysChange, CachedKnown, CallsOnToken, OwnIdentity
<1>2. ASSUME NEW p \in Procs, NEW t \in Tokens, LookupHit(p, t) PROVE IdentityInv'
  <2>1. t \in Keys(cache) /\ cache'.items = cache.items /\ UNCHANGED <<pc, tok, known>>
    BY <1>2 DEF LookupHit, Hit, Key, AfterGet
  <2>2. t \in known /\ ValueOf(cache, t) = Claims(t)
    BY <2>1 DEF CachedKnown
  <2>3. result' = [result EXCEPT ![p] = [ok |-> TRUE, tok |-> t, claims |-> Claims(t)]]
    BY <1>2, <2>2 DEF LookupHit, Key
  <2>4. CachedKnown' /\ CallsOnToken'
    BY <2>1, <2>3 DEF CachedKnown, CallsOnToken, Keys, ValueOf
  <2>5. \A q \in Procs :
            result'[q].ok => /\ result'[q].tok \in known'
                             /\ result'[q].claims = Claims(result'[q].tok)
    BY <2>1, <2>2, <2>3 DEF CallsOnToken, OwnIdentity
  <2> QED BY <2>4, <2>5 DEF OwnIdentity, CachedKnown, Key
<1>3. ASSUME NEW p \in Procs, NEW t \in Tokens, LookupMiss(p, t) PROVE IdentityInv'
  BY <1>3 DEF LookupMiss, CachedKnown, CallsOnToken, OwnIdentity
<1>4. ASSUME NEW p \in Procs, VerifyFails(p) PROVE IdentityInv'
  <2>1. ~[Failure EXCEPT !.tok = tok[p]].ok
    BY DEF Failure
  <2>2. CachedKnown'
    BY <1>4 DEF VerifyFails, CachedKnown
  <2> QED BY <1>4, <2>1, <2>2, AnswerStep DEF VerifyFails
<1>5. ASSUME NEW p \in Procs, VerifyOk(p) PROVE IdentityInv'
  BY <1>5 DEF VerifyOk, CachedKnown, CallsOnToken, OwnIdentity
<1>6. ASSUME NEW p \in Procs, pc[p] \in {"until", "store"}
      PROVE  Verified(p).ok => /\ Verified(p).tok \in known
                               /\ Verified(p).claims = Claims(Verified(p).tok)
  BY <1>6 DEF Verified, CallsOnToken
<1>7. ASSUME NEW p \in Procs, Until(p) PROVE IdentityInv'
  <2>1. UNCHANGED <<cache, known>> /\ pc[p] = "until"
    BY <1>7 DEF Until
  <2>2. CASE Answer(p, Verified(p))
    BY <1>6, <2>1, <2>2, AnswerStep DEF CachedKnown
  <2>3. CASE pc' = [pc EXCEPT ![p] = "store"] /\ UNCHANGED <<tok, result>>
    BY <2>1, <2>3 DEF CachedKnown, CallsOnToken, OwnIdentity
  <2> QED BY <1>7, <2>2, <2>3 DEF Until
<1>8. ASSUME NEW p \in Procs, Store(p) PROVE IdentityInv'
  <2>1. pc[p] = "store" /\ tok[p] \in known /\ UNCHANGED known
    BY <1>8 DEF Store, CallsOnToken
  <2>2. \A t \in Keys(cache') :
            \/ t = tok[p] /\ cache'.items[t].val = Claims(tok[p])
            \/ t \in Keys(cache) /\ cache'.items[t] = cache.items[t]
    BY <1>8 DEF Store, CacheSet, Keys, Key
  <2>3. CachedKnown'
    BY <2>1, <2>2 DEF CachedKnown, ValueOf
  <2> QED BY <1>6, <1>8, <2>1, <2>3, AnswerStep DEF Store
<1> QED BY <1>1, <1>2, <1>3, <1>4, <1>5, <1>7, <1>8 DEF Next

\* Whoever is let in shows a token the real verifier once accepted and gets the
\* identity in that token, and failures leave nothing behind.
THEOREM IdentityIsOwn == Spec => []OwnIdentity
<1>1. Init => IdentityInv
  BY DEF Init, IdentityInv, CachedKnown, CallsOnToken, OwnIdentity, EmptyCache, Keys, Failure
<1>2. IdentityInv => OwnIdentity
  BY DEF IdentityInv
<1> QED BY <1>1, <1>2, IdentityStep, PTL DEF Spec

-----------------------------------------------------------------------------
(* Lifetimes.                                                              *)

\* A lifetime that was computed is still right at the moment of storing it,
\* for a call that was not delayed in between.
LifetimeRight ==
    /\ now \in Nat
    /\ \A p \in Procs : pc[p] = "store" /\ tok[p] \notin stalled =>
          ttl[p] = Expiry[tok[p]] - now

LifetimeShapes ==
    /\ DOMAIN pc = Procs /\ DOMAIN tok = Procs /\ DOMAIN ttl = Procs
    /\ \A p \in Procs : pc[p] # "idle" => tok[p] \in Tokens

LifetimeInv == LifetimeShapes /\ LifetimeRight /\ EntryWithinToken

LEMMA LifetimeStep ==
    ASSUME LifetimeInv, [Next]_vars
    PROVE  LifetimeInv'
<1> USE DEF LifetimeInv
<1>1. CASE UNCHANGED vars \/ KeysChange
  BY <1>1 DEF vars, KeysChange, LifetimeShapes, LifetimeRight, EntryWithinToken
<1>2. CASE Tick
  <2>1. \A p \in Procs : pc'[p] # "store" \/ tok'[p] \in stalled'
    BY <1>2 DEF Tick
  <2>2. now' \in Nat /\ stalled \subseteq stalled'
    BY <1>2 DEF Tick, LifetimeRight
  <2> QED BY <1>2, <2>1, <2>2 DEF Tick, LifetimeShapes, LifetimeRight, EntryWithinToken
<1>3. ASSUME NEW p \in Procs, NEW t \in Tokens, LookupHit(p, t) PROVE LifetimeInv'
  <2>1. cache'.items = cache.items
    BY <1>3 DEF LookupHit, AfterGet
  <2> QED BY <1>3, <2>1 DEF LookupHit, LifetimeShapes, LifetimeRight, EntryWithinToken, Keys
<1>4. ASSUME NEW p \in Procs, NEW t \in Tokens, LookupMiss(p, t) PROVE LifetimeInv'
  BY <1>4 DEF LookupMiss, LifetimeShapes, LifetimeRight, EntryWithinToken
<1>5. ASSUME NEW p \in Procs, NEW r, Answer(p, r), UNCHANGED <<now, stalled>>
      PROVE  LifetimeShapes' /\ LifetimeRight'
  BY <1>5 DEF Answer, LifetimeShapes, LifetimeRight
<1>6. ASSUME NEW p \in Procs, VerifyFails(p) PROVE LifetimeInv'
  BY <1>5, <1>6 DEF VerifyFails, EntryWithinToken
<1>7. ASSUME NEW p \in Procs, VerifyOk(p) PROVE LifetimeInv'
  BY <1>7 DEF VerifyOk, LifetimeShapes, LifetimeRight, EntryWithinToken
<1>8. ASSUME NEW p \in Procs, Until(p) PROVE LifetimeInv'
  <2>1. UNCHANGED <<now, cache>> /\ EntryWithinToken' /\ UNCHANGED stalled
    BY <1>8 DEF Until, Answer, EntryWithinToken
  <2>2. CASE Answer(p, Verified(p))
    BY <1>5, <2>1, <2>2
  <2>3. CASE /\ pc' = [pc EXCEPT ![p] = "store"] /\ UNCHANGED tok
             /\ ttl' = [ttl EXCEPT ![p] = Expiry[tok[p]] - now]
    <3>1. LifetimeShapes'
      BY <1>8, <2>3 DEF LifetimeShapes, Until
    <3>2. LifetimeRight'
      BY <2>1, <2>3 DEF LifetimeShapes, LifetimeRight
    <3> QED BY <2>1, <3>1, <3>2
  <2> QED BY <1>8, <2>2, <2>3 DEF Until
<1>9. ASSUME NEW p \in Procs, Store(p) PROVE LifetimeInv'
  <2>1. /\ pc[p] = "store" /\ tok[p] \in Tokens /\ UNCHANGED <<now, stalled>>
        /\ Answer(p, Verified(p))
    BY <1>9 DEF Store, LifetimeShapes
  <2>2. \A t \in Keys(cache') :
            \/ t = tok[p] /\ cache'.items[t].exp = now + ttl[p]
            \/ t \in Keys(cache) /\ cache'.items[t] = cache.items[t]
    BY <1>9 DEF Store, CacheSet, Keys, Key
  <2>3. tok[p] \notin stalled => now + ttl[p] <= Expiry[tok[p]]
    <3>1. now \in Nat /\ Expiry[tok[p]] \in Nat
      BY <2>1 DEF LifetimeRight
    <3>2. tok[p] \notin stalled => ttl[p] = Expiry[tok[p]] - now
      BY <2>1 DEF LifetimeRight
    <3> QED BY <3>1, <3>2
  <2>4. EntryWithinToken'
    BY <2>1, <2>2, <2>3 DEF EntryWithinToken, Key
  <2> QED BY <1>5, <2>1, <2>4
<1> QED BY <1>1, <1>2, <1>3, <1>4, <1>6, <1>7, <1>8, <1>9 DEF Next

\* "an entry can never outlive the token it caches", unless a call for that
\* token was delayed between computing the lifetime and storing.
THEOREM EntriesStayWithinToken == Spec => []EntryWithinToken
<1>1. Init => LifetimeInv
  BY DEF Init, LifetimeInv, LifetimeShapes, LifetimeRight, EntryWithinToken, EmptyCache, Keys
<1>2. LifetimeInv => EntryWithinToken
  BY DEF LifetimeInv
<1> QED BY <1>1, <1>2, LifetimeStep, PTL DEF Spec
=============================================================================
