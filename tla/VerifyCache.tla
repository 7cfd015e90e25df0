----------------------------- MODULE VerifyCache -----------------------------
(***************************************************************************)
(* The cache of ID-token verifications (internal/cache/cache.go) in front  *)
(* of the real verifier (internal/token/token.go over go-oidc).            *)
(*                                                                         *)
(* A call looks the token up; on a miss it verifies it (which may fetch    *)
(* the provider's keys), computes how long the token still lives, and only *)
(* then stores the result for that long.  Calls interleave, and time       *)
(* passes between the steps of a call.                                     *)
(***************************************************************************)
EXTENDS TtlCache, Integers

CONSTANTS
    Procs,          \* calls in progress at a time
    Tokens,         \* ID tokens: any string a cookie may hold
    Expiry,         \* the tokens' exp claim; 0 for what is no valid token
    MaxSize,        \* VERIFY_CACHE_SIZE
    MaxTime         \* bound of the model

ASSUME VerifyCacheAssumption ==
    /\ Expiry \in [Tokens -> Nat]
    /\ MaxSize \in Nat /\ MaxTime \in Nat

VARIABLES
    now,
    keysUp,     \* the provider's signing keys can be had and fit the tokens
    cache,
    pc, tok, ttl,   \* per call: step, token, the lifetime computed for it
    result,         \* per call: its last answer
    known,          \* tokens the real verifier ever accepted (history)
    stalled         \* tokens of calls that were delayed before storing (history)

vars == <<now, keysUp, cache, pc, tok, ttl, result, known, stalled>>

\* A token's claims are as good as the token itself.
Claims(t) == t

\* The cache key: a digest that no two tokens share.
Key_Truncated(t) == CHOOSE u \in Tokens : Expiry[u] > 0
Key(t) == t

Failure == [ok |-> FALSE, tok |-> "none", claims |-> "none"]

Init ==
    /\ now = 0
    /\ keysUp = TRUE
    /\ cache = EmptyCache
    /\ pc = [p \in Procs |-> "idle"]
    /\ tok = [p \in Procs |-> "none"]
    /\ ttl = [p \in Procs |-> 0]
    /\ result = [p \in Procs |-> Failure]
    /\ known = {}
    /\ stalled = {}

Tick ==
    /\ now < MaxTime
    /\ now' = now + 1
    /\ stalled' = stalled \cup {tok[p] : p \in {q \in Procs : pc[q] = "store"}}
    /\ UNCHANGED <<keysUp, cache, pc, tok, ttl, result, known>>

\* Key rotation or a failing JWKS fetch, and its end.
KeysChange ==
    /\ keysUp' = ~keysUp
    /\ UNCHANGED <<now, cache, pc, tok, ttl, result, known, stalled>>

\* A call that finds the token in the cache is over at once.
LookupHit(p, t) ==
    /\ pc[p] = "idle"
    /\ Hit(cache, Key(t), now)
    /\ cache' = AfterGet(cache, Key(t), now)
    /\ result' = [result EXCEPT ![p] =
          [ok |-> TRUE, tok |-> t, claims |-> ValueOf(cache, Key(t))]]
    /\ UNCHANGED <<now, keysUp, pc, tok, ttl, known, stalled>>

LookupMiss(p, t) ==
    /\ pc[p] = "idle"
    /\ ~Hit(cache, Key(t), now)
    /\ pc' = [pc EXCEPT ![p] = "verify"]
    /\ tok' = [tok EXCEPT ![p] = t]
    /\ UNCHANGED <<now, keysUp, cache, ttl, result, known, stalled>>

Answer(p, r) ==
    /\ pc' = [pc EXCEPT ![p] = "idle"]
    /\ tok' = [tok EXCEPT ![p] = "none"]
    /\ ttl' = [ttl EXCEPT ![p] = 0]
    /\ result' = [result EXCEPT ![p] = r]

\* go-oidc accepts a token whose signature it can check, until exp.
Genuine(t) == Expiry[t] > 0 /\ keysUp /\ now <= Expiry[t]

\* inner(ctx, tok) fails: the error goes to the caller and nowhere else.
VerifyFails(p) ==
    /\ pc[p] = "verify"
    /\ ~Genuine(tok[p])
    /\ Answer(p, [Failure EXCEPT !.tok = tok[p]])
    /\ UNCHANGED <<now, keysUp, cache, known, stalled>>

\* inner succeeds.
VerifyOk(p) ==
    /\ pc[p] = "verify"
    /\ Genuine(tok[p])
    /\ known' = known \union {tok[p]}
    /\ pc' = [pc EXCEPT ![p] = "until"]
    /\ UNCHANGED <<now, keysUp, cache, tok, ttl, result, stalled>>

Verified(p) == [ok |-> TRUE, tok |-> tok[p], claims |-> Claims(tok[p])]

\* time.Until(v.Expiry); a token that has no time left is not stored.
Until(p) ==
    LET left == Expiry[tok[p]] - now IN
    /\ pc[p] = "until"
    /\ IF left > 0
       THEN /\ pc' = [pc EXCEPT ![p] = "store"]
            /\ ttl' = [ttl EXCEPT ![p] = left]
            /\ UNCHANGED <<tok, result, stalled>>
       ELSE Answer(p, Verified(p))
    /\ UNCHANGED <<now, keysUp, cache, known, stalled>>

\* A fixed lifetime from the moment of storing.
Store_FixedTTL(p) ==
    /\ pc[p] = "store"
    /\ cache' = CacheSet(cache, Key(tok[p]), Claims(tok[p]), 2, now, MaxSize)
    /\ Answer(p, Verified(p))
    /\ UNCHANGED <<now, keysUp, known, stalled>>

Store(p) ==
    /\ pc[p] = "store"
    /\ cache' = CacheSet(cache, Key(tok[p]), Claims(tok[p]), ttl[p], now, MaxSize)
    /\ Answer(p, Verified(p))
    /\ UNCHANGED <<now, keysUp, known, stalled>>

Next ==
    \/ Tick
    \/ KeysChange
    \/ \E p \in Procs :
          \/ \E t \in Tokens : LookupHit(p, t) \/ LookupMiss(p, t)
          \/ VerifyFails(p) \/ VerifyOk(p) \/ Until(p) \/ Store(p)

Spec == Init /\ [][Next]_vars

-----------------------------------------------------------------------------
(* Properties.                                                             *)

TypeOK ==
    /\ now \in 0..MaxTime /\ keysUp \in BOOLEAN
    /\ ItemsOK(cache, Tokens, Tokens) /\ LruOK(cache)
    /\ pc \in [Procs -> {"idle", "verify", "until", "store"}]
    /\ tok \in [Procs -> Tokens \union {"none"}]
    /\ ttl \in [Procs -> Nat]
    /\ known \subseteq Tokens /\ stalled \subseteq Tokens

\* "an entry can never outlive the token it caches", nor can hits extend it:
\* true unless a call was delayed between computing the lifetime and storing.
EntryWithinToken ==
    \A t \in Tokens \ stalled :
        Key(t) \in Keys(cache) => cache.items[Key(t)].exp <= Expiry[t]

\* Whoever is let in shows a token the real verifier once accepted, and gets
\* the identity in that token, not one of a call that ran at the same time.
\* Failures leave nothing behind that could answer a later call.
OwnIdentity ==
    /\ \A p \in Procs :
          result[p].ok => /\ result[p].tok \in known
                          /\ result[p].claims = Claims(result[p].tok)
    /\ \A t \in Tokens : Key(t) \in Keys(cache) => t \in known
=============================================================================
