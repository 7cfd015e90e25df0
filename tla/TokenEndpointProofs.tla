------------------------- MODULE TokenEndpointProofs -------------------------
(* Proofs about TokenEndpoint, for any number of replicas and requests,    *)
(* any clock skew, capacity, lifetimes and bounds.                         *)
EXTENDS TokenEndpoint, TLAPS

\* What a Set does to the items of a cache: the key is there with its new
\* expiry, and every other key that is there is as it was.
LEMMA CacheSetItems ==
    ASSUME NEW c, NEW k, NEW v, NEW ttl, NEW clock, NEW capacity
    PROVE  LET d == CacheSet(c, k, v, ttl, clock, capacity)
           IN /\ k \in Keys(d)
              /\ Keys(d) \subseteq Keys(c) \union {k}
              /\ d.items[k] = [val |-> v, exp |-> clock + ttl]
              /\ \A x \in Keys(d) \ {k} : d.items[x] = c.items[x]
  BY DEF CacheSet, Keys

\* A Get leaves the items alone.
LEMMA AfterGetItems ==
    ASSUME NEW c, NEW k, NEW clock
    PROVE  AfterGet(c, k, clock).items = c.items
  BY DEF AfterGet

USE ArtifactsAssumption, TokenAssumption

LEMMA GrantOfTypes ==
    ASSUME NEW b \in Consents \union Grants
    PROVE  GrantOf(b) \in Grants
  BY DEF GrantOf, Grants

LEMMA ArtifactTypes ==
    ASSUME NEW id \in Nat, NEW clock \in Nat, NEW r \in Replicas
    PROVE  /\ \A b \in Consents : MintAuthReq(id, clock, r, b) \in Token
           /\ \A t \in Token : /\ MintCode(id, clock, r, t) \in Token
                               /\ AccessToken(id, clock, r, Config[r].issuer, t) \in Token
                               /\ RefreshToken(id, clock, r, t) \in Token
<1>1. \A b \in Consents : MintAuthReq(id, clock, r, b) \in Token
  BY DEF Token, MintAuthReq, Artifact
<1>2. ASSUME NEW t \in Token
      PROVE  MintCode(id, clock, r, t) \in Token
  BY DEF Token, MintCode, Artifact
<1>3. ASSUME NEW t \in Token
      PROVE  AccessToken(id, clock, r, Config[r].issuer, t) \in Token
  BY GrantOfTypes DEF Token, AccessToken, Artifact
<1>4. ASSUME NEW t \in Token
      PROVE  RefreshToken(id, clock, r, t) \in Token
  BY GrantOfTypes DEF Token, RefreshToken, Artifact
<1>5. QED  BY <1>1, <1>2, <1>3, <1>4

-----------------------------------------------------------------------------
LEMMA ClockNat ==
    ASSUME now \in Nat, NEW r \in Replicas
    PROVE  Clock(r) \in Nat
  BY DEF Clock

LEMMA GuardInvInit == Init => GuardInv
  BY DEF Init, GuardInv, TypeOK, MintedByNow, RequestsVerified, EntriesOutlast,
         ItemsOK, Keys, EmptyCache, Busy

\* Minting keeps the invariant: the new artifacts carry unused jti's and are
\* dated by the clock of the replica that mints them, so no guard entry and
\* no request in progress is about them.
LEMMA MintKeepsInv ==
    ASSUME GuardInv, NEW n \in Nat,
           NEW T \in SUBSET Token, Mint(T, n),
           \A t \in T : /\ nextId <= t.id /\ t.id < nextId + n
                        /\ t.iat <= Clock(t.by)
                        /\ t.use = "code" => t.exp = t.iat + CodeTTL
                        /\ t.use = "refresh" => t.exp = t.iat + RefreshTTL,
           \A t, u \in T : t.id = u.id => t = u,
           UNCHANGED <<now, guard, restarts, burned>>
    PROVE  /\ issued \subseteq issued'
           /\ nextId' \in Nat \ {0}
           /\ issued' \subseteq Token
           /\ \A t, u \in issued' : t.id < nextId' /\ (t.id = u.id => t = u)
           /\ MintedByNow'
           /\ EntriesOutlast'
<1> USE DEF GuardInv, TypeOK
<1>1. issued \subseteq issued' /\ nextId' \in Nat \ {0} /\ issued' \subseteq Token
  BY DEF Mint
<1>2. \A t, u \in issued' : t.id < nextId' /\ (t.id = u.id => t = u)
  <2>1. \A t \in issued, u \in T : t.id < u.id
    BY DEF Token
  <2>2. \A t \in issued \union T : t.id < nextId + n
    BY DEF Token
  <2>3. QED  BY <2>1, <2>2 DEF Mint, Token
<1>3. MintedByNow'
  BY DEF MintedByNow, Mint, Clock
<1>4. EntriesOutlast'
  <2>1. \A r \in Replicas : \A k \in Keys(guard[r]) : k \in Nat /\ k < nextId
    BY DEF EntriesOutlast, ItemsOK
  <2>2. \A r \in Replicas, t \in T : t.id \notin Keys(guard[r])
    BY <2>1 DEF Token
  <2>3. \A r \in Replicas : \A k \in Keys(guard[r]) : k < nextId'
    BY <2>1 DEF Mint
  <2>4. QED  BY <2>2, <2>3 DEF EntriesOutlast, Mint, Guarded, Keys
<1>5. QED  BY <1>1, <1>2, <1>3, <1>4

\* A step that mints for no request in progress: the handlers of /oauth2/authorize.
LEMMA ApprovalStep ==
    ASSUME GuardInv, NEW r \in Replicas,
           \/ \E consent \in Consents : SealAuthReq(r, consent)
           \/ \E req \in issued : SealCode(r, req)
    PROVE  GuardInv'
<1> USE DEF GuardInv, TypeOK
<1>1. PICK t \in Token : /\ Mint({t}, 1)
                         /\ t.id = nextId /\ t.iat = Clock(r) /\ t.by = r
                         /\ t.use = "code" => t.exp = t.iat + CodeTTL
                         /\ t.use # "refresh"
  <2>1. Clock(r) \in Nat
    BY ClockNat
  <2>2. CASE \E consent \in Consents : SealAuthReq(r, consent)
    <3>1. PICK b \in Consents : SealAuthReq(r, b)
      BY <2>2
    <3>2. MintAuthReq(nextId, Clock(r), r, b) \in Token
      BY <2>1, ArtifactTypes
    <3>3. QED  BY <3>1, <3>2 DEF SealAuthReq, MintAuthReq, Artifact
  <2>3. CASE \E req \in issued : SealCode(r, req)
    <3>1. PICK req \in issued : SealCode(r, req)
      BY <2>3
    <3>2. MintCode(nextId, Clock(r), r, req) \in Token
      BY <2>1, ArtifactTypes
    <3>3. QED  BY <3>1, <3>2 DEF SealCode, MintCode, Artifact
  <2>4. QED  BY <2>2, <2>3
<1>2. UNCHANGED <<now, guard, pc, form, restarts, burned>>
  BY DEF SealAuthReq, SealCode
<1>3. /\ issued \subseteq issued'
      /\ nextId' \in Nat \ {0}
      /\ issued' \subseteq Token
      /\ \A u, v \in issued' : u.id < nextId' /\ (u.id = v.id => u = v)
      /\ MintedByNow'
      /\ EntriesOutlast'
  <2>1. Clock(r) \in Nat
    BY ClockNat
  <2>2. QED  BY <1>1, <1>2, <2>1, MintKeepsInv
<1>4. RequestsVerified'
  BY <1>2 DEF RequestsVerified, Busy, Clock
<1>5. TypeOK'
  BY <1>2, <1>3 DEF Busy, ItemsOK, Keys
<1>6. QED  BY <1>3, <1>4, <1>5

LEMMA IssueStep ==
    ASSUME GuardInv, NEW p \in Procs, IssueGrant(p)
    PROVE  GuardInv'
<1> USE DEF GuardInv, TypeOK
<1> DEFINE r == ReplicaOf[p]
           a == AccessToken(nextId, Clock(r), r, Config[r].issuer, form[p].tok)
           f == RefreshToken(nextId + 1, Clock(r), r, form[p].tok)
<1>1. r \in Replicas /\ Clock(r) \in Nat
  BY ClockNat
<1>2. form[p].tok \in Token
  BY DEF IssueGrant, Busy
<1>3. a \in Token /\ f \in Token
  <2> HIDE DEF r
  <2>1. nextId \in Nat /\ nextId + 1 \in Nat
    OBVIOUS
  <2>2. a \in Token
    BY <1>1, <1>2, <2>1, ArtifactTypes
  <2>3. f \in Token
    BY <1>1, <1>2, <2>1, ArtifactTypes
  <2>4. QED  BY <2>2, <2>3
<1>4. /\ a.id = nextId /\ f.id = nextId + 1
      /\ a.iat = Clock(r) /\ f.iat = Clock(r) /\ a.by = r /\ f.by = r
      /\ a.use = "access" /\ f.use = "refresh" /\ f.exp = f.iat + RefreshTTL
  BY DEF AccessToken, RefreshToken, Artifact
<1>5. Mint({a, f}, 2) /\ UNCHANGED <<now, guard, restarts, burned>>
  BY DEF IssueGrant
<1>6. /\ issued \subseteq issued'
      /\ nextId' \in Nat \ {0}
      /\ issued' \subseteq Token
      /\ \A t, u \in issued' : t.id < nextId' /\ (t.id = u.id => t = u)
      /\ MintedByNow'
      /\ EntriesOutlast'
  <2> HIDE DEF a, f, r
  <2>1. /\ \A t \in {a, f} : /\ nextId <= t.id /\ t.id < nextId + 2
                             /\ t.iat <= Clock(t.by)
                             /\ t.use = "code" => t.exp = t.iat + CodeTTL
                             /\ t.use = "refresh" => t.exp = t.iat + RefreshTTL
        /\ \A t, u \in {a, f} : t.id = u.id => t = u
    BY <1>1, <1>4
  <2>2. QED  BY <1>3, <1>5, <2>1, MintKeepsInv
<1>7. pc' = [pc EXCEPT ![p] = "idle"] /\ form' = [form EXCEPT ![p] = NoForm]
  BY DEF IssueGrant, Answer
<1>8. \A q \in Busy' : q \in Busy /\ form'[q] = form[q]
  BY <1>7 DEF Busy
<1>9. RequestsVerified'
  BY <1>5, <1>8 DEF RequestsVerified, Clock
<1>10. TypeOK'
  <2> HIDE DEF a, f, r
  <2>1. \A q \in Busy' : form'[q].tok \in issued'
    BY <1>6, <1>8
  <2>2. pc' \in [Procs -> {"idle", "get", "set", "issue"}] /\ DOMAIN form' = Procs
    BY <1>7
  <2>3. QED  BY <1>5, <1>6, <2>1, <2>2 DEF ItemsOK, Keys
<1>11. QED  BY <1>6, <1>9, <1>10

\* A request starts: its artifact was just verified.
LEMMA BeginStep ==
    ASSUME GuardInv, NEW p \in Procs, NEW tok \in issued,
           \/ \E client, redirect, v : BeginCode(p, tok, client, redirect, v)
           \/ \E client : BeginRefresh(p, tok, client)
    PROVE  GuardInv'
<1> USE DEF GuardInv, TypeOK
<1>1. UNCHANGED <<now, issued, nextId, guard, restarts, burned>>
  BY DEF BeginCode, BeginRefresh, Begin
<1>2. PICK f : /\ form' = [form EXCEPT ![p] = f]
               /\ pc' = [pc EXCEPT ![p] = "get"]
               /\ f.tok = tok
               /\ \/ /\ f.grant = "authorization_code"
                     /\ tok.use = "code"
                     /\ tok.iat <= Clock(ReplicaOf[p])
                  \/ /\ f.grant = "refresh_token"
                     /\ tok.use = "refresh"
  <2>1. CASE \E client, redirect, v : BeginCode(p, tok, client, redirect, v)
    <3>1. tok.iat \in Nat /\ Clock(ReplicaOf[p]) \in Nat
      BY ClockNat DEF Token
    <3>2. PICK client, redirect, v : BeginCode(p, tok, client, redirect, v)
      BY <2>1
    <3> DEFINE g == [grant |-> "authorization_code", tok |-> tok,
                     client |-> client, redirect |-> redirect, verifier |-> v]
    <3>3. form' = [form EXCEPT ![p] = g] /\ pc' = [pc EXCEPT ![p] = "get"]
      BY <3>2 DEF BeginCode, Begin
    <3>4. tok.use = "code" /\ tok.iat <= Clock(ReplicaOf[p])
      BY <3>1, <3>2 DEF BeginCode, VerifyCode, ValidateWithLeeway
    <3>5. g.tok = tok /\ g.grant = "authorization_code"
      OBVIOUS
    <3> HIDE DEF g
    <3>6. QED  BY <3>3, <3>4, <3>5
  <2>2. CASE \E client : BeginRefresh(p, tok, client)
    <3>1. PICK client : BeginRefresh(p, tok, client)
      BY <2>2
    <3> DEFINE g == [grant |-> "refresh_token", tok |-> tok, client |-> client]
    <3>2. form' = [form EXCEPT ![p] = g] /\ pc' = [pc EXCEPT ![p] = "get"]
      BY <3>1 DEF BeginRefresh, Begin
    <3>3. tok.use = "refresh"
      BY <3>1 DEF BeginRefresh, VerifyRefreshToken
    <3>4. g.tok = tok /\ g.grant = "refresh_token"
      OBVIOUS
    <3> HIDE DEF g
    <3>5. QED  BY <3>2, <3>3, <3>4
  <2>3. QED  BY <2>1, <2>2
<1>3. form'[p] = f /\ \A q \in Busy' \ {p} : q \in Busy /\ form'[q] = form[q]
  BY <1>2 DEF Busy
<1>4. RequestsVerified'
  BY <1>1, <1>2, <1>3 DEF RequestsVerified, Clock
<1>5. TypeOK'
  <2>1. \A q \in Busy' : form'[q].tok \in issued'
    BY <1>1, <1>2, <1>3
  <2>2. pc' \in [Procs -> {"idle", "get", "set", "issue"}] /\ DOMAIN form' = Procs
    BY <1>2
  <2>3. QED  BY <1>1, <2>1, <2>2 DEF ItemsOK, Keys
<1>6. MintedByNow' /\ EntriesOutlast'
  BY <1>1 DEF MintedByNow, EntriesOutlast, Clock, Guarded, Keys
<1>7. QED  BY <1>4, <1>5, <1>6

LEMMA GuardGetStep ==
    ASSUME GuardInv, NEW p \in Procs, GuardGet(p)
    PROVE  GuardInv'
<1> USE DEF GuardInv, TypeOK
<1> DEFINE r == ReplicaOf[p]
           c == AfterGet(guard[r], form[p].tok.id, Clock(r))
<1>1. UNCHANGED <<now, issued, nextId, restarts, burned>>
  BY DEF GuardGet
<1>2. /\ pc' \in [Procs -> {"idle", "get", "set", "issue"}]
      /\ DOMAIN form' = Procs
      /\ \A q \in Busy' : q \in Busy /\ form'[q] = form[q]
  BY DEF GuardGet, Answer, Busy
<1>3. DOMAIN guard' = Replicas /\ \A s \in Replicas : guard'[s].items = guard[s].items
  <2>1. guard' = [guard EXCEPT ![r] = c]
    BY DEF GuardGet
  <2>2. c.items = guard[r].items
    BY AfterGetItems
  <2> HIDE DEF c, r
  <2>3. QED  BY <2>1, <2>2
<1>4. TypeOK'
  BY <1>1, <1>2, <1>3 DEF ItemsOK, Keys
<1>5. RequestsVerified'
  BY <1>1, <1>2 DEF RequestsVerified, Clock
<1>6. MintedByNow'
  BY <1>1 DEF MintedByNow, Clock
<1>7. EntriesOutlast'
  BY <1>1, <1>3 DEF EntriesOutlast, Guarded, Keys
<1>8. QED  BY <1>4, <1>5, <1>6, <1>7

\* The step the invariant is about: the entry is set with the artifact's full
\* lifetime, counted from an instant when the artifact was already issued.
LEMMA GuardSetStep ==
    ASSUME GuardInv, NEW p \in Procs, GuardSet(p)
    PROVE  GuardInv'
<1> USE DEF GuardInv, TypeOK
<1> DEFINE r == ReplicaOf[p]
           tok == form[p].tok
           ttl == GuardTTL(form[p])
           c == CacheSet(guard[r], tok.id, "seen", ttl, Clock(r), Capacity)
<1>1. UNCHANGED <<now, issued, nextId, form, restarts>>
  BY DEF GuardSet
<1>2. p \in Busy /\ tok \in issued /\ tok \in Token /\ tok.id \in Nat /\ tok.id < nextId
  BY DEF GuardSet, Busy, Token
<1>3. r \in Replicas /\ Clock(r) \in Nat /\ ttl \in Nat
  BY ClockNat DEF GuardTTL
<1>4. Guarded(tok, r) => tok.exp <= Clock(r) + ttl
  <2>1. tok.iat \in Nat /\ tok.exp \in Nat
    BY <1>2 DEF Token
  <2>2. CASE tok.use = "code"
    <3>1. ttl = CodeTTL /\ tok.iat <= Clock(r)
      BY <1>2, <2>2 DEF RequestsVerified, GuardTTL
    <3>2. tok.exp = tok.iat + CodeTTL
      BY <1>2, <2>2 DEF MintedByNow
    <3>3. QED  BY <1>3, <2>1, <3>1, <3>2
  <2>3. CASE tok.use = "refresh" /\ tok.by = r
    <3>1. ttl = RefreshTTL
      BY <1>2, <2>3 DEF RequestsVerified, GuardTTL
    <3>2. tok.exp = tok.iat + RefreshTTL /\ tok.iat <= Clock(r)
      BY <1>2, <2>3 DEF MintedByNow
    <3>3. QED  BY <1>3, <2>1, <3>1, <3>2
  <2>4. QED  BY <2>2, <2>3 DEF Guarded
<1>5. /\ Keys(c) \subseteq Keys(guard[r]) \union {tok.id}
      /\ c.items[tok.id] = [val |-> "seen", exp |-> Clock(r) + ttl]
      /\ \A x \in Keys(c) \ {tok.id} : c.items[x] = guard[r].items[x]
  BY CacheSetItems
<1>6. /\ guard' = [guard EXCEPT ![r] = c]
      /\ burned' = [burned EXCEPT ![r] = @ \union {tok.id}]
      /\ pc' = [pc EXCEPT ![p] = "issue"]
  BY DEF GuardSet
<1>7. Busy' = Busy
  BY <1>2, <1>6 DEF Busy
<1> HIDE DEF c, r, ttl, tok
<1>8. TypeOK'
  <2>1. ItemsOK(c, Nat, {"seen"})
    BY <1>2, <1>3, <1>5 DEF ItemsOK
  <2>2. DOMAIN guard' = Replicas /\ \A s \in Replicas : ItemsOK(guard'[s], Nat, {"seen"})
    BY <1>6, <2>1
  <2>3. pc' \in [Procs -> {"idle", "get", "set", "issue"}]
    BY <1>6
  <2>4. burned' \in [Replicas -> SUBSET Nat]
    BY <1>2, <1>3, <1>6
  <2>5. QED  BY <1>1, <1>7, <2>2, <2>3, <2>4
<1>9. EntriesOutlast'
  <2>1. ASSUME NEW s \in Replicas, NEW k \in Keys(guard'[s])
        PROVE  k < nextId'
    BY <1>1, <1>2, <1>5, <1>6, <2>1 DEF EntriesOutlast
  <2>2. ASSUME NEW s \in Replicas, NEW t \in issued',
               Guarded(t, s), t.id \in Keys(guard'[s])
        PROVE  t.exp <= guard'[s].items[t.id].exp
    <3>1. CASE s = r /\ t.id = tok.id
      <4>1. t = tok
        BY <1>1, <1>2, <3>1
      <4>2. QED  BY <1>4, <1>5, <1>6, <2>2, <3>1, <4>1
    <3>2. CASE s = r /\ t.id # tok.id
      BY <1>1, <1>5, <1>6, <2>2, <3>2 DEF EntriesOutlast
    <3>3. CASE s # r
      BY <1>1, <1>6, <2>2, <3>3 DEF EntriesOutlast
    <3>4. QED  BY <3>1, <3>2, <3>3
  <2>3. QED  BY <2>1, <2>2 DEF EntriesOutlast, Guarded
<1>10. RequestsVerified'
  BY <1>1, <1>7 DEF RequestsVerified, Clock
<1>11. MintedByNow'
  BY <1>1 DEF MintedByNow, Clock
<1>12. QED  BY <1>8, <1>9, <1>10, <1>11

\* A request ends after the burn without a grant.
LEMMA FailStep ==
    ASSUME GuardInv, NEW p \in Procs, Fail(p)
    PROVE  GuardInv'
<1> USE DEF GuardInv, TypeOK
<1>1. UNCHANGED <<now, issued, nextId, guard, restarts, burned>>
  BY DEF Fail
<1>2. /\ pc' \in [Procs -> {"idle", "get", "set", "issue"}]
      /\ DOMAIN form' = Procs
      /\ \A q \in Busy' : q \in Busy /\ form'[q] = form[q]
  BY DEF Fail, Answer, Busy
<1>3. TypeOK' /\ RequestsVerified'
  BY <1>1, <1>2 DEF ItemsOK, Keys, RequestsVerified, Clock
<1>4. MintedByNow' /\ EntriesOutlast'
  BY <1>1 DEF MintedByNow, EntriesOutlast, Clock, Guarded, Keys
<1>5. QED  BY <1>3, <1>4

LEMMA RestartStep ==
    ASSUME GuardInv, NEW r \in Replicas, Restart(r)
    PROVE  GuardInv'
<1> USE DEF GuardInv, TypeOK
<1>1. UNCHANGED <<now, issued, nextId>> /\ restarts' \in Nat
  BY DEF Restart
<1>2. /\ pc' \in [Procs -> {"idle", "get", "set", "issue"}]
      /\ DOMAIN form' = Procs
      /\ \A q \in Busy' : q \in Busy /\ form'[q] = form[q]
  BY DEF Restart, Busy
<1>3. /\ DOMAIN guard' = Replicas
      /\ \A s \in Replicas : guard'[s] = guard[s] \/ Keys(guard'[s]) = {}
  BY DEF Restart, EmptyCache, Keys
<1>4. burned' \in [Replicas -> SUBSET Nat]
  BY DEF Restart
<1>5. TypeOK' /\ RequestsVerified'
  BY <1>1, <1>2, <1>3, <1>4 DEF ItemsOK, RequestsVerified, Clock
<1>6. MintedByNow' /\ EntriesOutlast'
  BY <1>1, <1>3 DEF MintedByNow, EntriesOutlast, Clock, Guarded
<1>7. QED  BY <1>5, <1>6

LEMMA TickStep ==
    ASSUME GuardInv, Tick
    PROVE  GuardInv'
<1> USE DEF GuardInv, TypeOK
<1>1. UNCHANGED <<issued, nextId, guard, pc, form, restarts, burned>> /\ now' = now + 1
  BY DEF Tick
<1>2. TypeOK' /\ EntriesOutlast'
  BY <1>1 DEF ItemsOK, Keys, Busy, EntriesOutlast, Guarded
<1>3. \A r \in Replicas, n \in Nat : n <= Clock(r) => n <= Clock(r)'
  BY <1>1 DEF Clock
<1>4. MintedByNow'
  BY <1>1, <1>3 DEF MintedByNow, Token
<1>5. RequestsVerified'
  <2>1. \A p \in Busy : form[p].tok.iat \in Nat /\ ReplicaOf[p] \in Replicas
    BY DEF Busy, Token
  <2>2. QED  BY <1>1, <1>3, <2>1 DEF RequestsVerified, Busy
<1>6. QED  BY <1>2, <1>4, <1>5

LEMMA GuardInvStep == GuardInv /\ [Next]_vars => GuardInv'
<1> SUFFICES ASSUME GuardInv, [Next]_vars
             PROVE  GuardInv'
  OBVIOUS
<1>1. CASE Tick
  BY <1>1, TickStep
<1>2. ASSUME NEW r \in Replicas,
             \/ \E consent \in Consents : SealAuthReq(r, consent)
             \/ \E req \in issued : SealCode(r, req)
      PROVE  GuardInv'
  BY <1>2, ApprovalStep
<1>3. ASSUME NEW r \in Replicas, Restart(r)
      PROVE  GuardInv'
  BY <1>3, RestartStep
<1>4. ASSUME NEW p \in Procs, NEW tok \in issued,
             \/ \E client, redirect, v : BeginCode(p, tok, client, redirect, v)
             \/ \E client : BeginRefresh(p, tok, client)
      PROVE  GuardInv'
  BY <1>4, BeginStep
<1>5. ASSUME NEW p \in Procs, GuardGet(p) \/ GuardSet(p) \/ IssueGrant(p) \/ Fail(p)
      PROVE  GuardInv'
  BY <1>5, GuardGetStep, GuardSetStep, IssueStep, FailStep
<1>6. CASE UNCHANGED vars
  BY <1>6 DEF vars, GuardInv, TypeOK, MintedByNow, RequestsVerified,
              EntriesOutlast, ItemsOK, Keys, Busy, Clock, Guarded
<1>7. QED  BY <1>1, <1>2, <1>3, <1>4, <1>5, <1>6 DEF Next

\* The invariant holds in every reachable state.
THEOREM GuardInvariant == Spec => []GuardInv
  BY GuardInvInit, GuardInvStep, PTL DEF Spec

\* Type correctness; in particular no two artifacts ever share a jti.
THEOREM TypeCorrect == Spec => []TypeOK
<1>1. GuardInv => TypeOK
  BY DEF GuardInv
<1>2. QED  BY GuardInvariant, <1>1, PTL

\* A code burned on a replica, and not evicted since, is rejected there for as
\* long as its own lifetime would let it be redeemed.
THEOREM CodesGuarded == Spec => []GuardCoversCodes
<1>1. GuardInv => GuardCoversCodes
  <2> SUFFICES ASSUME GuardInv, NEW r \in Replicas, NEW t \in Codes,
                      t.id \in Keys(guard[r]), VerifyCode(t, Clock(r))
               PROVE  Hit(guard[r], t.id, Clock(r))
    BY DEF GuardCoversCodes
  <2>1. t.exp <= guard[r].items[t.id].exp
    BY DEF GuardInv, EntriesOutlast, Guarded, Codes
  <2>2. Clock(r) <= t.exp
    <3>1. t.exp \in Nat /\ Clock(r) \in Nat
      BY ClockNat DEF GuardInv, TypeOK, Token, Codes
    <3>2. QED  BY <3>1 DEF VerifyCode, ValidateWithLeeway
  <2>3. t.exp \in Nat /\ Clock(r) \in Nat /\ guard[r].items[t.id].exp \in Nat
    BY ClockNat DEF GuardInv, TypeOK, Token, Codes, ItemsOK
  <2>4. QED  BY <2>1, <2>2, <2>3 DEF Hit
<1>2. QED  BY GuardInvariant, <1>1, PTL

\* A refresh token rotated on the replica that minted it, and not evicted
\* since, is rejected there up to its nominal expiry.
THEOREM RefreshesGuarded == Spec => []GuardCoversRefreshes
<1>1. GuardInv => GuardCoversRefreshes
  <2> SUFFICES ASSUME GuardInv, NEW r \in Replicas, NEW t \in Refreshes,
                      t.id \in Keys(guard[r]), t.by = r, Clock(r) <= t.exp
               PROVE  Hit(guard[r], t.id, Clock(r))
    BY DEF GuardCoversRefreshes
  <2>1. t.exp <= guard[r].items[t.id].exp
    BY DEF GuardInv, EntriesOutlast, Guarded, Refreshes
  <2>2. t.exp \in Nat /\ Clock(r) \in Nat /\ guard[r].items[t.id].exp \in Nat
    BY ClockNat DEF GuardInv, TypeOK, Token, Refreshes, ItemsOK
  <2>3. QED  BY <2>1, <2>2 DEF Hit
<1>2. QED  BY GuardInvariant, <1>1, PTL
=============================================================================
