----------------------------- MODULE RateLimiter -----------------------------
(***************************************************************************)
(* The fixed-window per-client limiter of internal/web/ratelimit.go, in    *)
(* front of /oauth2/register, /oauth2/token and CIMD authorize requests.   *)
(*                                                                         *)
(* allow() looks the client up, then either bumps the counter it found or  *)
(* installs a new one, without a lock across the two: the counter is       *)
(* shared by pointer and may have been replaced, evicted or expired by the *)
(* time it is bumped.  Counters are therefore objects of their own here.   *)
(***************************************************************************)
EXTENDS TtlCache, Integers, FiniteSetsExt

CONSTANTS
    Procs,          \* requests being served at a time
    Clients,        \* utils.ClientIP of the requests
    Limit, Window,  \* rl.limit, rl.window
    MaxKeys,        \* rateLimiterMaxKeys
    Prompt,         \* TRUE: no clock tick while a request is being served
    MaxTime,        \* bounds of the model: the clock, how many requests of
    MaxPerTick,     \* each client may have been admitted at one instant, and
    MaxCount        \* a number past the limit at which counters stop

\* Enough for one counter per cache entry and per request in progress.
Counters == 1..(Cardinality(Clients) + Cardinality(Procs))

ASSUME LimiterAssumption ==
    /\ IsFiniteSet(Procs) /\ IsFiniteSet(Clients)
    /\ Limit \in Nat \ {0} /\ Window \in Nat \ {0} /\ MaxKeys \in Nat
    /\ Prompt \in BOOLEAN /\ MaxTime \in Nat
    /\ MaxPerTick \in [Clients -> Nat]
    /\ MaxCount \in Nat /\ MaxCount > Limit

VARIABLES
    now,
    cache,      \* rl.c: client -> the counter it is to use
    count,      \* the counters' values
    pc, client, counter,    \* per request: step, client IP, counter held
    admitted,   \* the requests that were admitted (history), see Admission
    crowdedOut  \* clients that lost a running counter to others (history)

\* The n-th request of a client that was admitted at one instant.
Admission(c, t, n) == [client |-> c, at |-> t, nth |-> n]

\* The requests of a client that were admitted from one instant to another.
AdmittedIn(c, from, to) == {a \in admitted : a.client = c /\ a.at \in from..to}

vars == <<now, cache, count, pc, client, counter, admitted, crowdedOut>>

Init ==
    /\ now = 0
    /\ cache = EmptyCache
    /\ count = [n \in Counters |-> 0]
    /\ pc = [p \in Procs |-> "idle"]
    /\ client = [p \in Procs |-> "none"]
    /\ counter = [p \in Procs |-> 0]
    /\ admitted = {}
    /\ crowdedOut = {}

Busy == {p \in Procs : pc[p] # "idle"}

Tick ==
    /\ now < MaxTime
    /\ Prompt => Busy = {}
    /\ now' = now + 1
    /\ UNCHANGED <<cache, count, pc, client, counter, admitted, crowdedOut>>

\* The lookup: Get, IsExpired and Value, which take effect at one instant.
Lookup(p, c) ==
    /\ pc[p] = "idle"
    /\ Cardinality(AdmittedIn(c, now, now)) < MaxPerTick[c]
    /\ cache' = AfterGet(cache, c, now)
    /\ client' = [client EXCEPT ![p] = c]
    /\ IF Hit(cache, c, now)
       THEN /\ pc' = [pc EXCEPT ![p] = "add"]
            /\ counter' = [counter EXCEPT ![p] = ValueOf(cache, c)]
       ELSE /\ pc' = [pc EXCEPT ![p] = "set"]
            /\ UNCHANGED counter
    /\ UNCHANGED <<now, count, admitted, crowdedOut>>

\* Values beyond MaxCount compare like MaxCount, which is past the limit.
Bump(n) == Min({n + 1, MaxCount})

Finish(p) ==
    /\ pc' = [pc EXCEPT ![p] = "idle"]
    /\ client' = [client EXCEPT ![p] = "none"]
    /\ counter' = [counter EXCEPT ![p] = 0]

Admit(p) ==
    LET nth == Cardinality(AdmittedIn(client[p], now, now)) + 1
    IN admitted' = admitted \union {Admission(client[p], now, nth)}

WithinLimit_OneMore(n) == n <= Limit + 1
WithinLimit_Strict(n) == n < Limit
WithinLimit(n) == n <= Limit

AddAdmitted(p) ==
    /\ pc[p] = "add"
    /\ WithinLimit(Bump(count[counter[p]]))
    /\ count' = [count EXCEPT ![counter[p]] = Bump(@)]
    /\ Admit(p)
    /\ Finish(p)
    /\ UNCHANGED <<now, cache, crowdedOut>>

\* 429.  The hit counts all the same.
AddRefused(p) ==
    /\ pc[p] = "add"
    /\ ~WithinLimit(Bump(count[counter[p]]))
    /\ count' = [count EXCEPT ![counter[p]] = Bump(@)]
    /\ Finish(p)
    /\ UNCHANGED <<now, cache, admitted, crowdedOut>>

\* A counter that neither the cache nor a request in progress points to.
FreshCounter ==
    CHOOSE n \in Counters :
        /\ \A c \in Keys(cache) : ValueOf(cache, c) # n
        /\ \A p \in Procs : counter[p] # n

\* What a new counter starts from: the hit that makes it counts.
FirstCount == 1

\* The first hit of a window: a new counter, living for one window.
FirstHit(p) ==
    /\ pc[p] = "set"
    /\ count' = [count EXCEPT ![FreshCounter] = FirstCount]
    /\ cache' = CacheSet(cache, client[p], FreshCounter, Window, now, MaxKeys)
    /\ crowdedOut' = crowdedOut \cup
          {c \in Keys(cache) : Hit(cache, c, now) /\ c \notin Keys(cache')}
    /\ Admit(p)
    /\ Finish(p)
    /\ UNCHANGED now

Next ==
    \/ Tick
    \/ \E p \in Procs :
          \/ \E c \in Clients : Lookup(p, c)
          \/ AddAdmitted(p)
          \/ AddRefused(p)
          \/ FirstHit(p)

Spec == Init /\ [][Next]_vars

-----------------------------------------------------------------------------
(* Properties.                                                             *)

TypeOK ==
    /\ now \in 0..MaxTime
    /\ ItemsOK(cache, Clients, Counters) /\ LruOK(cache)
    /\ count \in [Counters -> 0..MaxCount]
    /\ pc \in [Procs -> {"idle", "add", "set"}]
    /\ \A p \in Busy : client[p] \in Clients
    /\ \A p \in Procs : pc[p] = "add" => counter[p] \in Counters
    /\ admitted \subseteq [client : Clients, at : 0..MaxTime, nth : Nat]
    /\ crowdedOut \subseteq Clients

\* However requests interleave, a client whose counters are not evicted gets a
\* full limit through per request slot, when all of them miss on the instant at
\* which a window begins, and in any stretch as long as a window what the
\* window before still had to give, of which its first hit is gone by then.
\* One request at a time, that is twice the limit less one.
WindowBound ==
    \A c \in Clients \ crowdedOut : \A t \in 0..(MaxTime - Window) :
        Cardinality(AdmittedIn(c, t, t + Window)) <= (Cardinality(Procs) + 1) * Limit - 1

\* Nobody is refused who was not admitted Limit times within the last window:
\* hits do not extend the window, so a client that keeps trying while it is
\* refused gets through again when the window ends.
RefusedOnlyWhenSpent ==
    [][\A p \in Procs :
          AddRefused(p) =>
              Cardinality(AdmittedIn(client[p], now - Window, now)) >= Limit]_vars
=============================================================================
