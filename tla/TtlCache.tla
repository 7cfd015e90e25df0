------------------------------ MODULE TtlCache ------------------------------
(***************************************************************************)
(* The jellydator/ttlcache type that every cache of the proxy is built on, *)
(* as internal/ uses it: WithCapacity and WithDisableTouchOnHit, no        *)
(* janitor.  It is a library, so it is modelled from that use.             *)
(*                                                                         *)
(* A cache is a value [items, lru]: "items" maps a key to its value and    *)
(* the last instant at which it is live, "lru" lists the keys, most        *)
(* recently used first.  An expired item keeps its place until capacity    *)
(* pushes it out: nothing else removes it.                                 *)
(***************************************************************************)
EXTENDS Naturals, FiniteSets, SequencesExt

EmptyCache == [items |-> [k \in {} |-> 0], lru |-> <<>>]

Keys(c) == DOMAIN c.items

\* Get returns an item (and not nil) for a key that is present and unexpired.
Hit(c, k, clock) == k \in Keys(c) /\ clock <= c.items[k].exp

ValueOf(c, k) == c.items[k].val

MoveToFront(k, s) == <<k>> \o Remove(s, k)

\* A Get that hits moves the item to the front; with DisableTouchOnHit it
\* leaves the expiry alone.  A Get that misses changes nothing.
AfterGet(c, k, clock) ==
    [items |-> c.items,
     lru   |-> IF Hit(c, k, clock) THEN MoveToFront(k, c.lru) ELSE c.lru]

\* The keys a Set of k pushes out: the least recently used one, expired or
\* not, when k is new and the cache is full (capacity 0 means unlimited).
Evicted(c, k, capacity) ==
    IF k \notin Keys(c) /\ capacity # 0 /\ Cardinality(Keys(c)) >= capacity
    THEN {c.lru[Len(c.lru)]}
    ELSE {}

\* Set(k, v, ttl) at the instant "clock".
CacheSet(c, k, v, ttl, clock, capacity) ==
    LET out == Evicted(c, k, capacity)
        new == [val |-> v, exp |-> clock + ttl]
    IN [items |-> [x \in (Keys(c) \ out) \union {k} |->
                      IF x = k THEN new ELSE c.items[x]],
        lru   |-> MoveToFront(k, SelectSeq(c.lru, LAMBDA x : x \notin out))]

\* The types of the items of a cache.
ItemsOK(c, Key, Value) ==
    /\ Keys(c) \subseteq Key
    /\ \A k \in Keys(c) : c.items[k] \in [val : Value, exp : Nat]

\* The LRU list names every key exactly once, so what it evicts is a key.
LruOK(c) ==
    /\ ToSet(c.lru) = Keys(c)
    /\ Len(c.lru) = Cardinality(Keys(c))
=============================================================================
