------------------------- MODULE TokenLineageProofs -------------------------
(***************************************************************************)
(* Theorems about what TokenEndpoint issues, for any replicas, requests,   *)
(* clocks, lifetimes, guard capacity and bounds: everything goes back to   *)
(* one approved consent, a rotation family is one session, how long        *)
(* refresh tokens last and where they work, how often a code is redeemed,  *)
(* and when the whole keeps the promise of SingleUse.                      *)
(***************************************************************************)
EXTENDS TokenEndpointProofs, FiniteSetTheorems

USE ArtifactsAssumption, TokenAssumption

-----------------------------------------------------------------------------
(* What a step adds to the artifacts.                                      *)

FreshAuthReq(t) ==
    /\ t.use = "authreq" /\ t.id = nextId
    /\ t.root = t.id /\ t.parent = 0
    /\ t.by \in Replicas
    /\ t.bind.resource = Config[t.by].resource /\ t.bind.sub \in Config[t.by].allowed

FreshCode(t, req) ==
    /\ req \in issued /\ req.use = "authreq"
    /\ t.use = "code" /\ t.id = nextId /\ t.family = 0
    /\ t.bind = req.bind /\ t.root = req.root /\ t.parent = req.id

\* The access token a and the refresh token f that are issued for "from".
FreshPair(a, f, from) ==
    /\ from \in issued /\ from.use \in {"code", "refresh"}
    /\ a.use = "access" /\ a.id = nextId /\ a.bind = GrantOf(from.bind)
    /\ f.use = "refresh" /\ f.id = nextId + 1 /\ f.bind = GrantOf(from.bind)
    /\ a.root = from.root /\ a.parent = from.id
    /\ f.root = from.root /\ f.parent = from.id
    /\ f.family = IF from.family = 0 THEN f.id ELSE from.family
    /\ a.by \in Replicas /\ a.iss = Config[a.by].issuer

LEMMA IssuedByGrant ==
    ASSUME GuardInv, NEW p \in Procs, IssueGrant(p)
    PROVE  \E a, f : /\ FreshPair(a, f, form[p].tok)
                     /\ issued' = issued \union {a, f} /\ nextId' = nextId + 2
                     /\ f.iat = Clock(ReplicaOf[p]) /\ f.by = ReplicaOf[p]
<1> DEFINE r == ReplicaOf[p]
           from == form[p].tok
           a == AccessToken(nextId, Clock(r), r, Config[r].issuer, from)
           f == RefreshToken(nextId + 1, Clock(r), r, from)
<1>1. issued' = issued \union {a, f} /\ nextId' = nextId + 2
  BY DEF IssueGrant, Mint
<1>2. p \in Busy
  BY DEF IssueGrant, Busy
<1>3. from \in issued /\ from.use \in {"code", "refresh"}
  BY <1>2 DEF GuardInv, TypeOK, RequestsVerified
<1>4. r \in Replicas
  OBVIOUS
<1>5. FreshPair(a, f, from) /\ f.iat = Clock(r) /\ f.by = r
  BY <1>3, <1>4 DEF FreshPair, AccessToken, RefreshToken, Artifact
<1>6. QED  BY <1>1, <1>5

LEMMA IssuedStep ==
    ASSUME GuardInv, [Next]_vars
    PROVE  \/ UNCHANGED <<issued, nextId>>
           \/ \E t : /\ FreshAuthReq(t)
                     /\ issued' = issued \union {t} /\ nextId' = nextId + 1
           \/ \E t, req : /\ FreshCode(t, req)
                          /\ issued' = issued \union {t} /\ nextId' = nextId + 1
           \/ \E a, f, from : /\ FreshPair(a, f, from)
                              /\ issued' = issued \union {a, f} /\ nextId' = nextId + 2
<1>1. ASSUME NEW r \in Replicas, NEW consent \in Consents, SealAuthReq(r, consent)
      PROVE  \E t : /\ FreshAuthReq(t)
                    /\ issued' = issued \union {t} /\ nextId' = nextId + 1
  <2> DEFINE t == MintAuthReq(nextId, Clock(r), r, consent)
  <2>1. FreshAuthReq(t)
    BY <1>1 DEF FreshAuthReq, SealAuthReq, MintAuthReq, Artifact
  <2>2. QED  BY <1>1, <2>1 DEF SealAuthReq, Mint
<1>2. ASSUME NEW r \in Replicas, NEW req \in issued, SealCode(r, req)
      PROVE  \E t : /\ FreshCode(t, req)
                    /\ issued' = issued \union {t} /\ nextId' = nextId + 1
  <2> DEFINE t == MintCode(nextId, Clock(r), r, req)
  <2>1. FreshCode(t, req)
    BY <1>2 DEF FreshCode, SealCode, VerifyAuthReq, MintCode, Artifact
  <2>2. QED  BY <1>2, <2>1 DEF SealCode, Mint
<1>3. ASSUME NEW p \in Procs, IssueGrant(p)
      PROVE  \E a, f, from : /\ FreshPair(a, f, from)
                             /\ issued' = issued \union {a, f} /\ nextId' = nextId + 2
  BY <1>3, IssuedByGrant
<1>4. ASSUME NEW p \in Procs, NEW tok,
             \/ \E client, redirect, v : BeginCode(p, tok, client, redirect, v)
             \/ \E client : BeginRefresh(p, tok, client)
             \/ GuardGet(p) \/ GuardSet(p) \/ Fail(p)
      PROVE  UNCHANGED <<issued, nextId>>
  BY <1>4 DEF BeginCode, BeginRefresh, Begin, GuardGet, GuardSet, Fail
<1>5. CASE Tick \/ (\E r \in Replicas : Restart(r)) \/ UNCHANGED vars
  BY <1>5 DEF Tick, Restart, vars
<1>6. QED  BY <1>1, <1>2, <1>3, <1>4, <1>5 DEF Next

-----------------------------------------------------------------------------
(* The lineage.                                                            *)

\* jti's start at 1, so that 0 names nothing; consent blobs are roots, codes
\* belong to no family, and the tokens carry a grant and no more.
Shapes ==
    \A t \in issued :
        /\ t.id # 0 /\ t.parent < nextId
        /\ t.use = "authreq" => t.root = t.id
        /\ t.use = "code" => t.family = 0
        /\ t.use \in {"access", "refresh"} => t.bind \in Grants

\* Every refresh token belongs to the family of the one that its code opened.
FamilyHeads ==
    \A t \in Refreshes :
        /\ (\E c \in Codes : c.id = t.parent) => t.family = t.id
        /\ \E h \in Refreshes : /\ h.id = t.family
                                /\ h.bind = t.bind /\ h.root = t.root

LineageInv == Shapes /\ LineageKept /\ FamilyHeads

LEMMA GrantOfGrant ==
    /\ \A b : GrantOf(GrantOf(b)) = GrantOf(b)
    /\ \A g \in Grants : GrantOf(g) = g
  BY DEF GrantOf, Grants

LEMMA LineageInvInit == Init => LineageInv
  BY DEF Init, LineageInv, Shapes, LineageKept, FamilyHeads, Codes, Refreshes

LEMMA ShapesStep ==
    ASSUME GuardInv, GuardInv', Shapes, [Next]_vars
    PROVE  Shapes'
<1> USE DEF Shapes, GuardInv, TypeOK
<1>0. \A t \in issued : t \in Token /\ t.parent \in Nat /\ t.id \in Nat /\ t.id < nextId
  BY DEF Token
<1>1. CASE UNCHANGED <<issued, nextId>>
  BY <1>1
<1>2. ASSUME NEW t, FreshAuthReq(t), issued' = issued \union {t}, nextId' = nextId + 1
      PROVE  Shapes'
  BY <1>0, <1>2 DEF FreshAuthReq
<1>3. ASSUME NEW t, NEW req, FreshCode(t, req),
             issued' = issued \union {t}, nextId' = nextId + 1
      PROVE  Shapes'
  BY <1>0, <1>3 DEF FreshCode
<1>4. ASSUME NEW a, NEW f, NEW from, FreshPair(a, f, from),
             issued' = issued \union {a, f}, nextId' = nextId + 2
      PROVE  Shapes'
  <2>1. from \in Token /\ from.bind \in Consents \union Grants
    BY <1>4 DEF FreshPair, Token
  <2>2. GrantOf(from.bind) \in Grants
    BY <2>1, GrantOfTypes
  <2>3. QED  BY <1>0, <1>4, <2>2 DEF FreshPair
<1>5. QED  BY <1>1, <1>2, <1>3, <1>4, IssuedStep

\* A consent blob, and a code of it, that vouch for an artifact.
Vouched(t) ==
    /\ \E b \in issued : /\ b.use = "authreq" /\ b.id = t.root
                         /\ GrantOf(b.bind) = GrantOf(t.bind)
    /\ \E c \in Codes : c.root = t.root

LEMMA LineageStep ==
    ASSUME GuardInv, LineageInv, [Next]_vars
    PROVE  LineageKept'
<1> USE DEF LineageInv
<1>1. \A t \in issued : t.use # "authreq" => Vouched(t)
  BY DEF LineageKept, Vouched
<1>2. ASSUME issued \subseteq issued'
      PROVE  \A t : Vouched(t) => Vouched(t)'
  BY <1>2 DEF Vouched, Codes
<1>3. CASE UNCHANGED <<issued, nextId>>
  BY <1>3 DEF LineageKept, Codes
<1>4. ASSUME NEW t, FreshAuthReq(t), issued' = issued \union {t}, nextId' = nextId + 1
      PROVE  LineageKept'
  <2>1. \A u \in issued' : u.use # "authreq" => Vouched(u)'
    BY <1>1, <1>2, <1>4 DEF FreshAuthReq
  <2>2. QED  BY <2>1 DEF LineageKept, Vouched
<1>5. ASSUME NEW t, NEW req, FreshCode(t, req),
             issued' = issued \union {t}, nextId' = nextId + 1
      PROVE  LineageKept'
  <2>1. Vouched(t)'
    BY <1>5 DEF FreshCode, Vouched, Codes, Shapes
  <2>2. \A u \in issued' : u.use # "authreq" => Vouched(u)'
    BY <1>1, <1>2, <1>5, <2>1
  <2>3. QED  BY <2>2 DEF LineageKept, Vouched
<1>6. ASSUME NEW a, NEW f, NEW from, FreshPair(a, f, from),
             issued' = issued \union {a, f}, nextId' = nextId + 2
      PROVE  LineageKept'
  <2>1. Vouched(from)
    BY <1>1, <1>6 DEF FreshPair
  <2>2. Vouched(a) /\ Vouched(f)
    BY <1>6, <2>1, GrantOfGrant DEF FreshPair, Vouched
  <2>3. \A u \in issued' : u.use # "authreq" => Vouched(u)'
    BY <1>1, <1>2, <1>6, <2>2
  <2>4. QED  BY <2>3 DEF LineageKept, Vouched
<1>7. QED  BY <1>3, <1>4, <1>5, <1>6, IssuedStep

\* A rotation joins the family of the token it rotates; a code's first token
\* starts one.  A jti that is new is nobody's parent yet.
LEMMA FamilyStep ==
    ASSUME GuardInv, LineageInv, [Next]_vars
    PROVE  FamilyHeads'
<1> USE DEF LineageInv, FamilyHeads, Codes, Refreshes
<1>0. \A t \in issued : /\ t.parent \in Nat /\ t.id \in Nat
                        /\ t.id < nextId /\ t.parent < nextId
  BY DEF Token, GuardInv, TypeOK, Shapes
<1>1. nextId \in Nat
  BY DEF GuardInv, TypeOK
<1>2. CASE UNCHANGED <<issued, nextId>>
  BY <1>2
<1>3. ASSUME NEW t, FreshAuthReq(t), issued' = issued \union {t}, nextId' = nextId + 1
      PROVE  FamilyHeads'
  BY <1>3 DEF FreshAuthReq
<1>4. ASSUME NEW t, NEW req, FreshCode(t, req),
             issued' = issued \union {t}, nextId' = nextId + 1
      PROVE  FamilyHeads'
  BY <1>0, <1>1, <1>4 DEF FreshCode
<1>5. ASSUME NEW a, NEW f, NEW from, FreshPair(a, f, from),
             issued' = issued \union {a, f}, nextId' = nextId + 2
      PROVE  FamilyHeads'
  <2>1. Codes' = Codes /\ Refreshes' = Refreshes \union {f}
    BY <1>5 DEF FreshPair
  <2>2. (\E c \in Codes : c.id = f.parent) => f.family = f.id
    <3>1. ASSUME NEW c \in Codes, c.id = f.parent
          PROVE  c = from /\ from.family = 0
      BY <1>5, <3>1 DEF FreshPair, GuardInv, TypeOK, Shapes
    <3>2. QED  BY <1>5, <3>1 DEF FreshPair
  <2>3. \E h \in Refreshes \union {f} :
            h.id = f.family /\ h.bind = f.bind /\ h.root = f.root
    <3>1. CASE from.use = "code"
      BY <1>5, <3>1 DEF FreshPair, Shapes
    <3>2. CASE from.use = "refresh"
      <4>1. PICK h \in Refreshes :
                h.id = from.family /\ h.bind = from.bind /\ h.root = from.root
        BY <1>5, <3>2 DEF FreshPair
      <4>2. from.family # 0
        BY <4>1 DEF Shapes
      <4>3. GrantOf(from.bind) = from.bind
        BY <1>5, <3>2, GrantOfGrant DEF FreshPair, Shapes
      <4>4. QED  BY <1>5, <4>1, <4>2, <4>3 DEF FreshPair
    <3>3. QED  BY <1>5, <3>1, <3>2 DEF FreshPair
  <2>4. \A t \in Refreshes :
            \E h \in Refreshes \union {f} :
                h.id = t.family /\ h.bind = t.bind /\ h.root = t.root
    OBVIOUS
  <2> HIDE DEF Codes, Refreshes
  <2>5. QED  BY <2>1, <2>2, <2>3, <2>4
<1>6. QED  BY <1>2, <1>3, <1>4, <1>5, IssuedStep

LEMMA LineageInvariant == Spec => []LineageInv
<1>1. GuardInv /\ GuardInv' /\ LineageInv /\ [Next]_vars => LineageInv'
  BY ShapesStep, LineageStep, FamilyStep DEF LineageInv
<1>2. QED  BY LineageInvInit, GuardInvariant, <1>1, PTL DEF Spec

\* Whatever is issued goes back to a consent blob that was approved, and still
\* names its user, client, resource and scope.
THEOREM LineageIsKept == Spec => []LineageKept
<1>1. LineageInv => LineageKept
  BY DEF LineageInv
<1>2. QED  BY LineageInvariant, <1>1, PTL

\* A rotation family has one consent, and one code opened it.
THEOREM FamiliesAreSessions == Spec => []FamilyIsOneSession
<1>1. GuardInv /\ LineageInv => FamilyIsOneSession
  <2> SUFFICES ASSUME GuardInv, LineageInv, NEW t \in Refreshes, NEW u \in Refreshes,
                      t.family = u.family
               PROVE  /\ t.bind = u.bind /\ t.root = u.root
                      /\ t.parent # u.parent =>
                            ~(\E c \in Codes : c.id = t.parent)
                            \/ ~(\E c \in Codes : c.id = u.parent)
    BY DEF FamilyIsOneSession
  <2>1. \A g, h \in issued : g.id = h.id => g = h
    BY DEF GuardInv, TypeOK
  <2>2. t.bind = u.bind /\ t.root = u.root
    BY <2>1 DEF LineageInv, FamilyHeads, Refreshes
  <2>3. ASSUME \E c \in Codes : c.id = t.parent,
               \E c \in Codes : c.id = u.parent
        PROVE  t = u
    BY <2>1, <2>3 DEF LineageInv, FamilyHeads, Refreshes
  <2>4. QED  BY <2>2, <2>3
<1>2. QED  BY GuardInvariant, LineageInvariant, <1>1, PTL

\* /mcp-verify lets through what some user, whom the replica allows, approved
\* for that very resource and for every scope it demands.
THEOREM LetThroughIsApproved == Spec => []LetThroughAsApproved
<1>1. LineageInv => LetThroughAsApproved
  <2> SUFFICES ASSUME LineageKept, NEW r \in Replicas, NEW t \in issued,
                      McpVerify(r, t) = 200
               PROVE  \E b \in issued : /\ b.use = "authreq" /\ b.id = t.root
                                        /\ b.bind.resource = Config[r].resource
                                        /\ b.bind.sub \in Config[r].allowed
                                        /\ Config[r].required \subseteq b.bind.scope
                                        /\ \E c \in Codes : c.root = b.id
    BY DEF LineageInv, LetThroughAsApproved
  <2>1. /\ t.use = "access" /\ t.bind.resource = Config[r].resource
        /\ t.bind.sub \in Config[r].allowed
        /\ Config[r].required \subseteq t.bind.scope
    BY DEF McpVerify, VerifyAccessToken, HasRequiredScopes
  <2>2. PICK b \in issued : /\ b.use = "authreq" /\ b.id = t.root
                            /\ GrantOf(b.bind) = GrantOf(t.bind)
    BY <2>1 DEF LineageKept
  <2>3. /\ b.bind.resource = t.bind.resource /\ b.bind.sub = t.bind.sub
        /\ b.bind.scope = t.bind.scope
    BY <2>2 DEF GrantOf
  <2>4. \E c \in Codes : c.root = t.root
    BY <2>1 DEF LineageKept
  <2>5. QED  BY <2>1, <2>2, <2>3, <2>4
<1>2. QED  BY LineageInvariant, <1>1, PTL

-----------------------------------------------------------------------------
(* Refresh tokens: what burning one is for, and how long a session lasts.  *)

\* RefreshBurnedOnlyByRotation, with the request on the replica that burned
\* it: a restart loses the two together.
BurnedInv ==
    \A r \in Replicas :
        /\ \A k \in burned[r] : k < nextId
        /\ \A t \in Refreshes :
              t.id \in burned[r] =>
                  \/ GrantsOf(t) # {}
                  \/ \E p \in Procs : /\ pc[p] = "issue" /\ ReplicaOf[p] = r
                                      /\ form[p].tok = t

\* A step that neither burns nor answers: requests about to issue stay so.
LEMMA BurnedUndisturbed ==
    ASSUME GuardInv, BurnedInv, [Next]_vars, UNCHANGED burned,
           Refreshes' = Refreshes,
           \A p \in Procs : pc[p] = "issue" => pc'[p] = "issue" /\ form'[p] = form[p]
    PROVE  BurnedInv'
<1>1. nextId \in Nat /\ nextId' \in Nat /\ nextId <= nextId'
  <2>1. nextId \in Nat
    BY DEF GuardInv, TypeOK
  <2>2. QED  BY <2>1, IssuedStep
<1>2. \A r \in Replicas : burned[r] \subseteq Nat
  BY DEF GuardInv, TypeOK
<1>3. \A t : GrantsOf(t)' = GrantsOf(t)
  BY DEF GrantsOf
<1>4. QED  BY <1>1, <1>2, <1>3 DEF BurnedInv

LEMMA BurnedByGuardSet ==
    ASSUME GuardInv, BurnedInv, NEW p \in Procs, GuardSet(p)
    PROVE  BurnedInv'
<1> USE DEF GuardInv, TypeOK
<1> DEFINE tok == form[p].tok
<1>1. p \in Busy /\ tok \in issued /\ tok.id < nextId
  BY DEF GuardSet, Busy
<1>2. /\ burned' = [burned EXCEPT ![ReplicaOf[p]] = @ \union {tok.id}]
      /\ pc' = [pc EXCEPT ![p] = "issue"]
      /\ UNCHANGED <<issued, nextId, form>>
  BY DEF GuardSet
<1>3. ASSUME NEW r \in Replicas, NEW t \in Refreshes, t.id \in burned'[r]
      PROVE  \/ GrantsOf(t) # {}
             \/ \E q \in Procs : /\ pc'[q] = "issue" /\ ReplicaOf[q] = r
                                 /\ form[q].tok = t
  <2>1. CASE t.id \in burned[r]
    BY <1>2, <2>1 DEF BurnedInv
  <2>2. CASE r = ReplicaOf[p] /\ t.id = tok.id
    <3>1. t = tok
      BY <1>1, <2>2 DEF Refreshes
    <3>2. QED  BY <1>2, <2>2, <3>1
  <2>3. QED  BY <1>2, <1>3, <2>1, <2>2
<1>4. \A r \in Replicas : \A k \in burned'[r] : k < nextId
  BY <1>1, <1>2 DEF BurnedInv
<1>5. QED  BY <1>2, <1>3, <1>4 DEF BurnedInv, Refreshes, GrantsOf

LEMMA BurnedByIssue ==
    ASSUME GuardInv, BurnedInv, NEW p \in Procs, IssueGrant(p)
    PROVE  BurnedInv'
<1> DEFINE tok == form[p].tok
<1>1. PICK a, f : /\ FreshPair(a, f, tok)
                  /\ issued' = issued \union {a, f} /\ nextId' = nextId + 2
  BY IssuedByGrant
<1>2. Refreshes' = Refreshes \union {f} /\ f.parent = tok.id
  BY <1>1 DEF Refreshes, FreshPair
<1>3. /\ UNCHANGED burned
      /\ pc' = [pc EXCEPT ![p] = "idle"] /\ form' = [form EXCEPT ![p] = NoForm]
  BY DEF IssueGrant, Answer
<1>4. nextId \in Nat /\ (\A r \in Replicas : burned[r] \subseteq Nat)
  BY DEF GuardInv, TypeOK
<1>5. \A r \in Replicas : \A k \in burned[r] : k < nextId' /\ k # f.id
  BY <1>1, <1>4 DEF BurnedInv, FreshPair
<1>6. ASSUME NEW r \in Replicas, NEW t \in Refreshes, t.id \in burned[r]
      PROVE  \/ GrantsOf(t)' # {}
             \/ \E q \in Procs : /\ pc'[q] = "issue" /\ ReplicaOf[q] = r
                                 /\ form'[q].tok = t
  <2>1. CASE t = tok
    BY <1>2, <2>1 DEF GrantsOf
  <2>2. CASE t # tok /\ GrantsOf(t) # {}
    BY <1>2, <2>2 DEF GrantsOf
  <2>3. CASE t # tok /\ GrantsOf(t) = {}
    <3>1. PICK q \in Procs : /\ pc[q] = "issue" /\ ReplicaOf[q] = r
                             /\ form[q].tok = t
      BY <1>6, <2>3 DEF BurnedInv
    <3>2. q # p
      BY <2>3, <3>1
    <3>3. pc'[q] = "issue" /\ form'[q] = form[q]
      BY <1>3, <3>1, <3>2 DEF GuardInv, TypeOK
    <3>4. QED  BY <3>1, <3>3
  <2>4. QED  BY <2>1, <2>2, <2>3
<1>7. QED  BY <1>2, <1>3, <1>5, <1>6 DEF BurnedInv

\* A refused request is one whose code is not its own: refresh requests are
\* refused before the burn.
LEMMA BurnedByFail ==
    ASSUME ~SignMayFail, GuardInv, BurnedInv, NEW p \in Procs, Fail(p)
    PROVE  BurnedInv'
<1>1. /\ UNCHANGED <<issued, nextId, burned>>
      /\ pc' = [pc EXCEPT ![p] = "idle"] /\ form' = [form EXCEPT ![p] = NoForm]
      /\ pc[p] = "issue"
  BY DEF Fail, Answer
<1>2. form[p].tok.use = "code"
  <2>1. ~Bound(form[p]) /\ p \in Busy
    BY <1>1 DEF Fail, Busy
  <2>2. QED  BY <2>1 DEF Bound, GuardInv, RequestsVerified
<1>3. ASSUME NEW q \in Procs, pc[q] = "issue", form[q].tok.use = "refresh"
      PROVE  pc'[q] = "issue" /\ form'[q] = form[q]
  BY <1>1, <1>2, <1>3 DEF GuardInv, TypeOK
<1>4. QED  BY <1>1, <1>3 DEF BurnedInv, Refreshes, GrantsOf

LEMMA BurnedByRestart ==
    ASSUME GuardInv, BurnedInv, NEW r \in Replicas, Restart(r)
    PROVE  BurnedInv'
<1>1. /\ UNCHANGED <<issued, nextId>>
      /\ \A s \in Replicas : burned'[s] = IF s = r THEN {} ELSE burned[s]
      /\ \A q \in Procs : ReplicaOf[q] # r => pc'[q] = pc[q] /\ form'[q] = form[q]
  BY DEF Restart, GuardInv, TypeOK
<1>2. QED  BY <1>1 DEF BurnedInv, Refreshes, GrantsOf

LEMMA BurnedStep ==
    ASSUME ~SignMayFail, GuardInv, BurnedInv, [Next]_vars
    PROVE  BurnedInv'
<1>1. CASE Tick \/ UNCHANGED vars
  BY <1>1, BurnedUndisturbed DEF Tick, vars, Refreshes
<1>2. ASSUME NEW r \in Replicas, NEW consent \in Consents, SealAuthReq(r, consent)
      PROVE  BurnedInv'
  <2>1. Refreshes' = Refreshes
    BY <1>2 DEF SealAuthReq, Mint, MintAuthReq, Artifact, Refreshes
  <2>2. QED  BY <1>2, <2>1, BurnedUndisturbed DEF SealAuthReq
<1>3. ASSUME NEW r \in Replicas, NEW req \in issued, SealCode(r, req)
      PROVE  BurnedInv'
  <2>1. Refreshes' = Refreshes
    BY <1>3 DEF SealCode, Mint, MintCode, Artifact, Refreshes
  <2>2. QED  BY <1>3, <2>1, BurnedUndisturbed DEF SealCode
<1>4. ASSUME NEW p \in Procs, NEW tok \in issued,
             \/ \E client, redirect, v : BeginCode(p, tok, client, redirect, v)
             \/ \E client : BeginRefresh(p, tok, client)
      PROVE  BurnedInv'
  <2>1. /\ UNCHANGED <<issued, burned>> /\ pc[p] = "idle"
        /\ pc' = [pc EXCEPT ![p] = "get"]
        /\ \E g : form' = [form EXCEPT ![p] = g]
    BY <1>4 DEF BeginCode, BeginRefresh, Begin
  <2>2. \A q \in Procs : pc[q] = "issue" => pc'[q] = "issue" /\ form'[q] = form[q]
    BY <2>1 DEF GuardInv, TypeOK
  <2>3. QED  BY <2>1, <2>2, BurnedUndisturbed DEF Refreshes
<1>5. ASSUME NEW p \in Procs, GuardGet(p)
      PROVE  BurnedInv'
  <2>1. \A q \in Procs : pc[q] = "issue" => pc'[q] = "issue" /\ form'[q] = form[q]
    BY <1>5 DEF GuardGet, Answer, GuardInv, TypeOK
  <2>2. QED  BY <1>5, <2>1, BurnedUndisturbed DEF GuardGet, Refreshes
<1>6. ASSUME NEW p \in Procs, GuardSet(p) \/ IssueGrant(p) \/ Fail(p)
      PROVE  BurnedInv'
  BY <1>6, BurnedByGuardSet, BurnedByIssue, BurnedByFail
<1>7. ASSUME NEW r \in Replicas, Restart(r)
      PROVE  BurnedInv'
  BY <1>7, BurnedByRestart
<1>8. QED  BY <1>1, <1>2, <1>3, <1>4, <1>5, <1>6, <1>7 DEF Next

\* As long as signing does not fail, no request costs a client its refresh
\* token without a new one being issued.
THEOREM BurnedToRotate ==
    ASSUME ~SignMayFail PROVE Spec => []RefreshBurnedOnlyByRotation
<1>1. Init => BurnedInv
  BY DEF Init, BurnedInv
<1>2. GuardInv /\ BurnedInv /\ [Next]_vars => BurnedInv'
  BY BurnedStep
<1>3. BurnedInv => RefreshBurnedOnlyByRotation
  BY DEF BurnedInv, RefreshBurnedOnlyByRotation, Busy
<1>4. QED  BY GuardInvariant, <1>1, <1>2, <1>3, PTL DEF Spec

-----------------------------------------------------------------------------
(* The sliding window, for requests that are answered at once.             *)

Grace(from) == IF from.use = "code" THEN 0 ELSE Leeway

\* What a request in progress holds has not lapsed since it was verified.
StillGood ==
    \A p \in Busy : Clock(ReplicaOf[p]) <= form[p].tok.exp + Grace(form[p].tok)

LEMMA StillGoodStep ==
    ASSUME Prompt, GuardInv, StillGood, [Next]_vars
    PROVE  StillGood'
<1> USE DEF StillGood, Grace
<1>1. CASE Tick
  BY <1>1 DEF Tick, Busy
<1>2. ASSUME NEW p \in Procs, NEW tok \in issued,
             \/ \E client, redirect, v : BeginCode(p, tok, client, redirect, v)
             \/ \E client : BeginRefresh(p, tok, client)
      PROVE  StillGood'
  <2>1. /\ UNCHANGED now
        /\ pc' = [pc EXCEPT ![p] = "get"]
        /\ \E f : f.tok = tok /\ form' = [form EXCEPT ![p] = f]
    BY <1>2 DEF BeginCode, BeginRefresh, Begin
  <2>2. tok.exp \in Nat /\ Clock(ReplicaOf[p]) \in Nat
    <3>1. now \in Nat /\ tok \in Token
      BY DEF GuardInv, TypeOK
    <3>2. ReplicaOf[p] \in Replicas
      OBVIOUS
    <3>3. QED  BY <3>1, <3>2, ClockNat DEF Token
  <2>3. Clock(ReplicaOf[p]) <= tok.exp + Grace(tok)
    BY <1>2, <2>2 DEF BeginCode, BeginRefresh, VerifyCode, VerifyRefreshToken,
                      ValidateWithLeeway
  <2>4. \A q \in Busy' : q = p \/ (q \in Busy /\ form'[q] = form[q])
    BY <2>1 DEF Busy, GuardInv, TypeOK
  <2>5. form'[p].tok = tok
    BY <2>1 DEF GuardInv, TypeOK
  <2>6. QED  BY <2>1, <2>3, <2>4, <2>5 DEF Clock
<1>3. ASSUME UNCHANGED now, \A q \in Busy' : q \in Busy /\ form'[q] = form[q]
      PROVE  StillGood'
  BY <1>3 DEF Clock
<1>4. ASSUME NEW p \in Procs, GuardGet(p) \/ GuardSet(p) \/ IssueGrant(p) \/ Fail(p)
      PROVE  UNCHANGED now /\ \A q \in Busy' : q \in Busy /\ form'[q] = form[q]
  BY <1>4 DEF GuardGet, GuardSet, IssueGrant, Fail, Answer, Busy, GuardInv, TypeOK
<1>5. ASSUME NEW r \in Replicas,
             \/ \E consent \in Consents : SealAuthReq(r, consent)
             \/ \E req \in issued : SealCode(r, req)
             \/ Restart(r)
      PROVE  UNCHANGED now /\ \A q \in Busy' : q \in Busy /\ form'[q] = form[q]
  BY <1>5 DEF SealAuthReq, SealCode, Restart, Busy, GuardInv, TypeOK
<1>6. CASE UNCHANGED vars
  BY <1>3, <1>6 DEF vars, Busy
<1>7. QED  BY <1>1, <1>2, <1>3, <1>4, <1>5, <1>6 DEF Next

\* A jti that is new is nobody's parent, and the only step that issues refresh
\* tokens dates them at a moment when what it was given was still good.
LEMMA WindowStep ==
    ASSUME GuardInv, Shapes, StillGood, SlidingWindow, [Next]_vars
    PROVE  SlidingWindow'
<1> USE DEF SlidingWindow, Refreshes
<1>0. \A t \in issued : t.parent \in Nat /\ t.id \in Nat /\ t.parent < nextId
  BY DEF Token, GuardInv, TypeOK, Shapes
<1>1. nextId \in Nat
  BY DEF GuardInv, TypeOK
<1>2. ASSUME NEW p \in Procs, IssueGrant(p)
      PROVE  SlidingWindow'
  <2> DEFINE tok == form[p].tok
  <2>1. PICK a, f : /\ FreshPair(a, f, tok)
                    /\ issued' = issued \union {a, f} /\ nextId' = nextId + 2
                    /\ f.iat = Clock(ReplicaOf[p])
    BY <1>2, IssuedByGrant
  <2>2. f.iat <= tok.exp + Grace(tok)
    BY <1>2, <2>1 DEF StillGood, IssueGrant, Busy
  <2>3. ASSUME NEW from \in issued', from.id = f.parent
        PROVE  from = tok
    BY <1>0, <1>1, <2>1, <2>3 DEF FreshPair, GuardInv, TypeOK
  <2>4. ASSUME NEW t \in Refreshes, NEW from \in issued', from.id = t.parent
        PROVE  from \in issued
    BY <1>0, <1>1, <2>1, <2>4 DEF FreshPair
  <2>5. Refreshes' = Refreshes \union {f}
    BY <2>1 DEF FreshPair
  <2>6. QED  BY <2>2, <2>3, <2>4, <2>5 DEF Grace
<1>3. ASSUME NEW t, t.use # "refresh", t.id = nextId, issued' = issued \union {t}
      PROVE  SlidingWindow'
  BY <1>0, <1>1, <1>3
<1>4. ASSUME NEW r \in Replicas,
             \/ \E consent \in Consents : SealAuthReq(r, consent)
             \/ \E req \in issued : SealCode(r, req)
      PROVE  \E t : t.use # "refresh" /\ t.id = nextId /\ issued' = issued \union {t}
  BY <1>4 DEF SealAuthReq, SealCode, Mint, MintAuthReq, MintCode, Artifact
<1>5. ASSUME NEW p \in Procs, NEW tok \in issued,
             \/ \E client, redirect, v : BeginCode(p, tok, client, redirect, v)
             \/ \E client : BeginRefresh(p, tok, client)
             \/ GuardGet(p) \/ GuardSet(p) \/ Fail(p)
      PROVE  UNCHANGED issued
  BY <1>5 DEF BeginCode, BeginRefresh, Begin, GuardGet, GuardSet, Fail
<1>6. CASE Tick \/ (\E r \in Replicas : Restart(r)) \/ UNCHANGED vars
  BY <1>6 DEF Tick, Restart, vars
<1>7. ASSUME UNCHANGED issued PROVE SlidingWindow'
  BY <1>7
<1>8. CASE \E p \in Procs : GuardGet(p) \/ GuardSet(p) \/ Fail(p)
  BY <1>8, <1>7 DEF GuardGet, GuardSet, Fail
<1>9. QED  BY <1>2, <1>3, <1>4, <1>5, <1>6, <1>7, <1>8 DEF Next

\* Served at once, a client gets a new token pair only within the lifetime of
\* what it shows.
THEOREM WindowSlides == ASSUME Prompt PROVE Spec => []SlidingWindow
<1>1. Init => StillGood /\ SlidingWindow
  BY DEF Init, StillGood, SlidingWindow, Refreshes, Busy
<1>2. GuardInv /\ LineageInv /\ StillGood /\ SlidingWindow /\ [Next]_vars
          => StillGood' /\ SlidingWindow'
  BY StillGoodStep, WindowStep DEF LineageInv
<1>3. QED  BY GuardInvariant, LineageInvariant, <1>1, <1>2, PTL DEF Spec

-----------------------------------------------------------------------------
(* Where the long-lived tokens work.                                       *)

\* What an artifact owes to the replica that minted it.
OfItsReplica ==
    \A t \in issued :
        /\ t.use = "authreq" => /\ t.bind.resource = Config[t.by].resource
                                /\ t.bind.sub \in Config[t.by].allowed
        /\ t.use = "access" => t.iss = Config[t.by].issuer

LEMMA OfItsReplicaStep ==
    ASSUME GuardInv, OfItsReplica, [Next]_vars
    PROVE  OfItsReplica'
<1> USE DEF OfItsReplica
<1>1. CASE UNCHANGED <<issued, nextId>>
  BY <1>1
<1>2. ASSUME NEW t, FreshAuthReq(t), issued' = issued \union {t}
      PROVE  OfItsReplica'
  BY <1>2 DEF FreshAuthReq
<1>3. ASSUME NEW t, NEW req, FreshCode(t, req), issued' = issued \union {t}
      PROVE  OfItsReplica'
  BY <1>3 DEF FreshCode
<1>4. ASSUME NEW a, NEW f, NEW from, FreshPair(a, f, from), issued' = issued \union {a, f}
      PROVE  OfItsReplica'
  BY <1>4 DEF FreshPair
<1>5. QED  BY <1>1, <1>2, <1>3, <1>4, IssuedStep

\* The replicas are one service, and its consents cover what it requires.
OneService ==
    /\ \A r, q \in Replicas : Config[r] = Config[q]
    /\ \A b \in Consents, r \in Replicas : Config[r].required \subseteq b.scope

\* With clocks within the leeway, an access or refresh token of such a service
\* works on all of its replicas for the whole of its life.
THEOREM LongLivedWorkEverywhere ==
    ASSUME OneService PROVE Spec => []LongLivedPortable
<1>1. Init => OfItsReplica
  BY DEF Init, OfItsReplica
<1>2. GuardInv /\ OfItsReplica /\ [Next]_vars => OfItsReplica'
  BY OfItsReplicaStep
<1>3. GuardInv /\ LineageInv /\ OfItsReplica => LongLivedPortable
  <2> SUFFICES ASSUME GuardInv, LineageInv, OfItsReplica,
                      NEW t \in issued, NEW r \in Replicas,
                      Near(r, t.by), Clock(t.by) <= t.exp
               PROVE  /\ t.use = "refresh" => VerifyRefreshToken(t, Clock(r))
                      /\ t.use = "access" /\ Config[r] = Config[t.by] =>
                            McpVerify(r, t) = 200
    BY DEF LongLivedPortable
  <2>1. t \in Token /\ t.by \in Replicas
    BY DEF GuardInv, TypeOK, Token
  <2>2. ValidateWithLeeway(t, Clock(r), Leeway)
    <3> DEFINE here == Skew[r]
               there == Skew[t.by]
    <3>1. t.iat <= now + there /\ now + there <= t.exp
      BY DEF GuardInv, MintedByNow, Clock
    <3>2. here \in Nat /\ there \in Nat
      BY <2>1
    <3>3. t.iat \in Nat /\ t.exp \in Nat /\ now \in Nat
      BY <2>1 DEF GuardInv, TypeOK, Token
    <3>4. here <= there + Leeway /\ there <= here + Leeway
      BY DEF Near
    <3> HIDE DEF here, there
    <3>5. t.iat <= (now + here) + Leeway /\ now + here <= t.exp + Leeway
      BY <3>1, <3>2, <3>3, <3>4
    <3>6. QED  BY <3>5 DEF ValidateWithLeeway, Clock, here
  <2>3. ASSUME t.use = "access"
        PROVE  McpVerify(r, t) = 200
    <3>1. PICK b \in issued : b.use = "authreq" /\ GrantOf(b.bind) = GrantOf(t.bind)
      BY <2>3 DEF LineageInv, LineageKept
    <3>2. /\ t.bind.resource = b.bind.resource /\ t.bind.sub = b.bind.sub
          /\ t.bind.scope = b.bind.scope
      BY <3>1 DEF GrantOf
    <3>3. b \in Token /\ b.by \in Replicas
      BY DEF GuardInv, TypeOK, Token
    <3>4. Config[r] = Config[b.by] /\ Config[r] = Config[t.by]
      BY <2>1, <3>3 DEF OneService
    <3>5. Config[r].required \subseteq b.bind.scope
      <4>1. b.bind \in Consents \union Grants
        BY <3>3 DEF Token
      <4>2. PICK c \in Consents : b.bind.scope = c.scope
        BY <4>1 DEF Grants, GrantOf
      <4>3. QED  BY <4>2 DEF OneService
    <3>6. VerifyAccessToken(t, Clock(r), Config[r])
      BY <2>2, <2>3, <3>1, <3>2, <3>4 DEF OfItsReplica, VerifyAccessToken
    <3>7. t.bind.sub \in Config[r].allowed
      BY <3>1, <3>2, <3>4 DEF OfItsReplica
    <3>8. QED  BY <3>2, <3>5, <3>6, <3>7 DEF McpVerify, HasRequiredScopes
  <2>4. QED  BY <2>2, <2>3 DEF VerifyRefreshToken
<1>4. QED  BY GuardInvariant, LineageInvariant, <1>1, <1>2, <1>3, PTL DEF Spec

-----------------------------------------------------------------------------
(* How often a code is redeemed.                                           *)

\* The guard of r has never had to evict since r started.
Kept(r) == Capacity = 0 \/ Cardinality(burned[r]) <= Capacity

\* A request issues after it burned, a guard has what was burned there and no
\* more, and has all of it until it must evict.
BurnedFirst ==
    /\ \A p \in Procs : pc[p] = "issue" => form[p].tok.id \in burned[ReplicaOf[p]]
    /\ \A r \in Replicas :
          /\ IsFiniteSet(burned[r]) /\ Keys(guard[r]) \subseteq burned[r]
          /\ \A k \in burned[r] : k < nextId
          /\ Kept(r) => burned[r] \subseteq Keys(guard[r])

\* A step that burns nothing, nor touches the items of a guard.
LEMMA BurnedFirstUndisturbed ==
    ASSUME GuardInv, BurnedFirst, [Next]_vars, UNCHANGED burned,
           \A r \in Replicas : Keys(guard'[r]) = Keys(guard[r]),
           \A p \in Procs : pc'[p] = "issue" => pc[p] = "issue" /\ form'[p] = form[p]
    PROVE  BurnedFirst'
<1>1. nextId \in Nat /\ nextId' \in Nat /\ nextId <= nextId'
  <2>1. nextId \in Nat
    BY DEF GuardInv, TypeOK
  <2>2. QED  BY <2>1, IssuedStep
<1>2. \A r \in Replicas : burned[r] \subseteq Nat
  BY DEF GuardInv, TypeOK
<1>3. QED  BY <1>1, <1>2 DEF BurnedFirst, Kept

LEMMA OneMore ==
    ASSUME NEW S, IsFiniteSet(S), NEW x
    PROVE  /\ IsFiniteSet(S \union {x})
           /\ Cardinality(S) \in Nat /\ Cardinality(S \union {x}) \in Nat
           /\ Cardinality(S \union {x}) <= Cardinality(S) + 1
           /\ x \notin S => Cardinality(S \union {x}) = Cardinality(S) + 1
<1> DEFINE T == S \union {x}
<1>1. IsFiniteSet(T) /\ Cardinality(T) = IF x \in S THEN Cardinality(S) ELSE Cardinality(S) + 1
  BY FS_AddElement, Zenon
<1>2. Cardinality(S) \in Nat /\ Cardinality(T) \in Nat
  BY <1>1, FS_CardinalityType
<1> HIDE DEF T
<1>3. QED  BY <1>1, <1>2 DEF T

LEMMA BurnedFirstBySet ==
    ASSUME GuardInv, BurnedFirst, NEW p \in Procs, GuardSet(p)
    PROVE  BurnedFirst'
<1> USE DEF GuardInv, TypeOK
<1> DEFINE r == ReplicaOf[p]
           id == form[p].tok.id
           c == CacheSet(guard[r], id, "seen", GuardTTL(form[p]), Clock(r), Capacity)
<1>1. p \in Busy /\ form[p].tok \in issued /\ id \in Nat /\ id < nextId /\ r \in Replicas
  BY DEF GuardSet, Busy, Token
<1>2. /\ UNCHANGED <<nextId, form>>
      /\ guard' = [guard EXCEPT ![r] = c]
      /\ burned' = [burned EXCEPT ![r] = @ \union {id}]
      /\ pc' = [pc EXCEPT ![p] = "issue"]
  BY DEF GuardSet
<1>3. Keys(c) = (Keys(guard[r]) \ Evicted(guard[r], id, Capacity)) \union {id}
  BY DEF CacheSet, Keys
<1> HIDE DEF c, id, r
<1>4. IsFiniteSet(burned[r]) /\ Keys(guard[r]) \subseteq burned[r]
  BY <1>1 DEF BurnedFirst
<1>5. IsFiniteSet(burned[r] \union {id})
  BY <1>4, OneMore
<1>6. ASSUME Capacity = 0 \/ Cardinality(burned[r] \union {id}) <= Capacity
      PROVE  burned[r] \union {id} \subseteq Keys(c)
  <2>1. CASE id \in burned[r]
    <3>1. burned[r] \union {id} = burned[r]
      BY <2>1
    <3>2. Keys(guard[r]) = burned[r]
      BY <1>1, <1>6, <3>1 DEF BurnedFirst, Kept
    <3>3. Evicted(guard[r], id, Capacity) = {}
      BY <2>1, <3>2 DEF Evicted
    <3>4. QED  BY <1>3, <3>1, <3>2, <3>3
  <2>2. CASE id \notin burned[r]
    <3>0. Cardinality(burned[r]) \in Nat
      BY <1>4, OneMore
    <3>1. Cardinality(burned[r] \union {id}) = Cardinality(burned[r]) + 1
      BY <1>4, <2>2, OneMore
    <3>2. Capacity = 0 \/ Cardinality(burned[r]) < Capacity
      BY <1>6, <3>0, <3>1
    <3>3. Kept(r)
      BY <3>0, <3>2 DEF Kept
    <3>4. Keys(guard[r]) = burned[r]
      BY <1>1, <1>4, <3>3 DEF BurnedFirst
    <3>5. Evicted(guard[r], id, Capacity) = {}
      BY <3>0, <3>2, <3>4 DEF Evicted
    <3>6. QED  BY <1>3, <3>4, <3>5
  <2>3. QED  BY <2>1, <2>2
<1>7. Keys(c) \subseteq burned[r] \union {id}
  BY <1>3, <1>4
<1>8. ASSUME NEW s \in Replicas
      PROVE  /\ IsFiniteSet(burned'[s]) /\ Keys(guard'[s]) \subseteq burned'[s]
             /\ \A k \in burned'[s] : k < nextId'
             /\ Kept(s)' => burned'[s] \subseteq Keys(guard'[s])
  <2>1. CASE s = r
    <3>1. burned'[s] = burned[r] \union {id} /\ guard'[s] = c
      BY <1>1, <1>2, <2>1
    <3>2. \A k \in burned'[s] : k < nextId'
      BY <1>1, <1>2, <3>1 DEF BurnedFirst
    <3>3. QED  BY <1>5, <1>6, <1>7, <3>1, <3>2 DEF Kept
  <2>2. CASE s # r
    <3>1. burned'[s] = burned[s] /\ guard'[s] = guard[s]
      BY <1>2, <2>2
    <3>2. QED  BY <1>2, <3>1 DEF BurnedFirst, Kept
  <2>3. QED  BY <2>1, <2>2
<1>9. \A q \in Procs : pc'[q] = "issue" => form'[q].tok.id \in burned'[ReplicaOf[q]]
  BY <1>1, <1>2 DEF BurnedFirst, r, id
<1>10. QED  BY <1>8, <1>9 DEF BurnedFirst

LEMMA BurnedFirstStep ==
    ASSUME GuardInv, BurnedFirst, [Next]_vars
    PROVE  BurnedFirst'
<1>1. CASE Tick \/ UNCHANGED vars
  BY <1>1, BurnedFirstUndisturbed DEF Tick, vars
<1>2. ASSUME NEW r \in Replicas,
             \/ \E consent \in Consents : SealAuthReq(r, consent)
             \/ \E req \in issued : SealCode(r, req)
      PROVE  BurnedFirst'
  BY <1>2, BurnedFirstUndisturbed DEF SealAuthReq, SealCode
<1>3. ASSUME NEW p \in Procs, NEW tok \in issued,
             \/ \E client, redirect, v : BeginCode(p, tok, client, redirect, v)
             \/ \E client : BeginRefresh(p, tok, client)
      PROVE  BurnedFirst'
  <2>1. /\ UNCHANGED <<guard, burned>> /\ pc' = [pc EXCEPT ![p] = "get"]
        /\ \E g : form' = [form EXCEPT ![p] = g]
    BY <1>3 DEF BeginCode, BeginRefresh, Begin
  <2>2. \A q \in Procs : pc'[q] = "issue" => pc[q] = "issue" /\ form'[q] = form[q]
    BY <2>1 DEF GuardInv, TypeOK
  <2>3. QED  BY <2>1, <2>2, BurnedFirstUndisturbed
<1>4. ASSUME NEW p \in Procs, GuardGet(p)
      PROVE  BurnedFirst'
  <2>1. \A q \in Procs : pc'[q] = "issue" => pc[q] = "issue" /\ form'[q] = form[q]
    BY <1>4 DEF GuardGet, Answer, GuardInv, TypeOK
  <2>2. \A r \in Replicas : Keys(guard'[r]) = Keys(guard[r])
    BY <1>4 DEF GuardGet, AfterGet, Keys, GuardInv, TypeOK
  <2>3. QED  BY <1>4, <2>1, <2>2, BurnedFirstUndisturbed DEF GuardGet
<1>5. ASSUME NEW p \in Procs, IssueGrant(p) \/ Fail(p)
      PROVE  BurnedFirst'
  <2>1. \A q \in Procs : pc'[q] = "issue" => pc[q] = "issue" /\ form'[q] = form[q]
    BY <1>5 DEF IssueGrant, Fail, Answer, GuardInv, TypeOK
  <2>2. QED  BY <1>5, <2>1, BurnedFirstUndisturbed DEF IssueGrant, Fail
<1>6. ASSUME NEW p \in Procs, GuardSet(p)
      PROVE  BurnedFirst'
  BY <1>6, BurnedFirstBySet
<1>7. ASSUME NEW r \in Replicas, Restart(r)
      PROVE  BurnedFirst'
  <2>1. /\ UNCHANGED nextId
        /\ \A s \in Replicas : \/ burned'[s] = {} /\ Keys(guard'[s]) = {} /\ s = r
                               \/ burned'[s] = burned[s] /\ guard'[s] = guard[s] /\ s # r
        /\ \A q \in Procs : pc'[q] = "issue" =>
                pc[q] = "issue" /\ form'[q] = form[q] /\ ReplicaOf[q] # r
    BY <1>7 DEF Restart, GuardInv, TypeOK, EmptyCache, Keys
  <2>2. IsFiniteSet({})
    BY FS_EmptySet
  <2>3. QED  BY <2>1, <2>2 DEF BurnedFirst, Kept
<1>8. QED  BY <1>1, <1>2, <1>3, <1>4, <1>5, <1>6, <1>7 DEF Next

LEMMA BurnedFirstInvariant == Spec => []BurnedFirst
<1>1. Init => BurnedFirst
  BY FS_EmptySet DEF Init, BurnedFirst, EmptyCache, Keys
<1>2. QED  BY <1>1, GuardInvariant, BurnedFirstStep, PTL DEF Spec

\* The request slots that may still open a family for a code: it is not burned
\* on their replica, or they hold it past the guard.
MayOpen(p, t) ==
    \/ t.id \notin burned[ReplicaOf[p]]
    \/ pc[p] \in {"set", "issue"} /\ form[p].tok = t

LEMMA BurnedGrows ==
    ASSUME GuardInv, [Next]_vars
    PROVE  \/ /\ restarts' = restarts
              /\ \A r \in Replicas : burned[r] \subseteq burned'[r]
           \/ restarts' = restarts + 1 /\ UNCHANGED issued
<1> USE DEF GuardInv, TypeOK
<1>1. ASSUME NEW p \in Procs, NEW tok \in issued,
             \/ \E client, redirect, v : BeginCode(p, tok, client, redirect, v)
             \/ \E client : BeginRefresh(p, tok, client)
      PROVE  UNCHANGED <<restarts, burned>>
  BY <1>1 DEF BeginCode, BeginRefresh, Begin
<1>2. ASSUME NEW p \in Procs, GuardGet(p) \/ IssueGrant(p) \/ Fail(p)
      PROVE  UNCHANGED <<restarts, burned>>
  BY <1>2 DEF GuardGet, IssueGrant, Fail
<1>3. ASSUME NEW p \in Procs, GuardSet(p)
      PROVE  restarts' = restarts /\ \A r \in Replicas : burned[r] \subseteq burned'[r]
  BY <1>3 DEF GuardSet
<1>4. ASSUME NEW r \in Replicas,
             \/ \E consent \in Consents : SealAuthReq(r, consent)
             \/ \E req \in issued : SealCode(r, req)
      PROVE  UNCHANGED <<restarts, burned>>
  BY <1>4 DEF SealAuthReq, SealCode
<1>5. ASSUME NEW r \in Replicas, Restart(r)
      PROVE  restarts' = restarts + 1 /\ UNCHANGED issued
  BY <1>5 DEF Restart
<1>6. CASE Tick \/ UNCHANGED vars
  BY <1>6 DEF Tick, vars
<1>7. QED  BY <1>1, <1>2, <1>3, <1>4, <1>5, <1>6 DEF Next

\* The guard turns a burned code away, so a slot that has let a code go never
\* gets hold of it again, within the code's lifetime.
LEMMA MayOpenStep ==
    ASSUME GuardInv, BurnedFirst, [Next]_vars, restarts' = restarts,
           NEW t \in Codes, NEW p \in Procs, MayOpen(p, t)',
           Kept(ReplicaOf[p]), Clock(ReplicaOf[p]) <= t.exp \/ StillGood
    PROVE  MayOpen(p, t)
<1> USE DEF GuardInv, TypeOK
<1> DEFINE r == ReplicaOf[p]
<1> SUFFICES ASSUME ~MayOpen(p, t) PROVE FALSE
  OBVIOUS
<1>0. restarts \in Nat /\ r \in Replicas
  OBVIOUS
<1>1. t.id \in burned[r] /\ ~(pc[p] \in {"set", "issue"} /\ form[p].tok = t)
  BY DEF MayOpen
<1>2. pc'[p] \in {"set", "issue"} /\ form'[p].tok = t
  <2>1. t.id \in burned'[r]
    BY <1>0, <1>1, BurnedGrows
  <2>2. QED  BY <2>1 DEF MayOpen
<1>3. ASSUME pc'[p] = pc[p] /\ form'[p] = form[p] PROVE FALSE
  BY <1>1, <1>2, <1>3
<1>4. ASSUME NEW q \in Procs, NEW tok \in issued,
             \/ \E client, redirect, v : BeginCode(q, tok, client, redirect, v)
             \/ \E client : BeginRefresh(q, tok, client)
      PROVE  FALSE
  <2>1. pc' = [pc EXCEPT ![q] = "get"] /\ \E g : form' = [form EXCEPT ![q] = g]
    BY <1>4 DEF BeginCode, BeginRefresh, Begin
  <2>2. QED  BY <1>2, <1>3, <2>1
<1>5. ASSUME NEW q \in Procs, GuardSet(q) \/ IssueGrant(q) \/ Fail(q)
      PROVE  FALSE
  <2>1. CASE q # p
    BY <1>3, <1>5, <2>1 DEF GuardSet, IssueGrant, Fail, Answer
  <2>2. CASE q = p
    BY <1>1, <1>2, <1>5, <2>2 DEF GuardSet, IssueGrant, Fail, Answer
  <2>3. QED  BY <2>1, <2>2
<1>6. ASSUME NEW q \in Procs, GuardGet(q)
      PROVE  FALSE
  <2>1. CASE q # p
    BY <1>3, <1>6, <2>1 DEF GuardGet, Answer
  <2>2. CASE q = p
    <3>1. /\ ~Hit(guard[r], form[p].tok.id, Clock(r)) /\ form' = form
          /\ pc[p] = "get"
      BY <1>2, <1>6, <2>2 DEF GuardGet, Answer
    <3>2. form[p].tok = t /\ p \in Busy
      BY <1>2, <3>1 DEF Busy
    <3>3. t \in issued /\ t.use = "code" /\ t.exp \in Nat /\ Clock(r) \in Nat
      BY <1>0, ClockNat DEF Codes, Token
    <3>4. Clock(r) <= t.exp
      BY <3>2, <3>3 DEF StillGood, Grace
    <3>5. t.id \in Keys(guard[r])
      BY <1>0, <1>1 DEF BurnedFirst
    <3>6. t.exp <= guard[r].items[t.id].exp /\ guard[r].items[t.id].exp \in Nat
      BY <1>0, <3>3, <3>5 DEF EntriesOutlast, Guarded, ItemsOK
    <3> HIDE DEF r
    <3>7. QED  BY <3>1, <3>2, <3>3, <3>4, <3>5, <3>6 DEF Hit
  <2>3. QED  BY <2>1, <2>2
<1>7. ASSUME NEW s \in Replicas,
             \/ \E consent \in Consents : SealAuthReq(s, consent)
             \/ \E req \in issued : SealCode(s, req)
      PROVE  FALSE
  BY <1>3, <1>7 DEF SealAuthReq, SealCode
<1>8. ASSUME NEW s \in Replicas, Restart(s) PROVE FALSE
  BY <1>0, <1>8 DEF Restart
<1>9. CASE Tick \/ UNCHANGED vars
  BY <1>3, <1>9 DEF Tick, vars
<1>10. QED  BY <1>4, <1>5, <1>6, <1>7, <1>8, <1>9 DEF Next

\* A code's families change only when a request that holds it issues, which
\* then holds it no longer.
LEMMA GrantsStep ==
    ASSUME GuardInv, BurnedFirst, Shapes, [Next]_vars, NEW t \in Codes
    PROVE  \/ GrantsOf(t)' = GrantsOf(t)
           \/ \E p \in Procs : \E g :
                 /\ GrantsOf(t)' = GrantsOf(t) \union {g}
                 /\ g.by = ReplicaOf[p] /\ g.iat = Clock(ReplicaOf[p])
                 /\ UNCHANGED <<now, restarts>>
                 /\ MayOpen(p, t) /\ ~MayOpen(p, t)'
<1> USE DEF GrantsOf, Refreshes
<1>0. \A u \in issued : u \in Token /\ u.id < nextId
  BY DEF GuardInv, TypeOK
<1>1. ASSUME NEW p \in Procs, IssueGrant(p)
      PROVE  \/ GrantsOf(t)' = GrantsOf(t)
             \/ \E g : /\ GrantsOf(t)' = GrantsOf(t) \union {g}
                       /\ g.by = ReplicaOf[p] /\ g.iat = Clock(ReplicaOf[p])
                       /\ UNCHANGED <<now, restarts>>
                       /\ MayOpen(p, t) /\ ~MayOpen(p, t)'
  <2> DEFINE tok == form[p].tok
  <2>1. PICK a, f : /\ FreshPair(a, f, tok)
                    /\ issued' = issued \union {a, f} /\ nextId' = nextId + 2
                    /\ f.iat = Clock(ReplicaOf[p]) /\ f.by = ReplicaOf[p]
    BY <1>1, IssuedByGrant
  <2>2. Refreshes' = Refreshes \union {f} /\ f.parent = tok.id
    BY <2>1 DEF FreshPair
  <2>3. CASE tok # t
    <3>1. tok.id # t.id
      BY <2>1, <2>3 DEF FreshPair, Codes, GuardInv, TypeOK
    <3>2. QED  BY <2>2, <3>1
  <2>4. CASE tok = t
    <3>1. /\ UNCHANGED <<now, restarts, burned>> /\ pc[p] = "issue"
          /\ pc' = [pc EXCEPT ![p] = "idle"]
      BY <1>1 DEF IssueGrant, Answer
    <3>2. t.id \in burned[ReplicaOf[p]] /\ pc'[p] = "idle"
      BY <2>4, <3>1 DEF BurnedFirst, GuardInv, TypeOK
    <3>3. MayOpen(p, t) /\ ~MayOpen(p, t)'
      BY <2>4, <3>1, <3>2 DEF MayOpen
    <3>4. GrantsOf(t)' = GrantsOf(t) \union {f}
      BY <2>2, <2>4
    <3>5. QED  BY <2>1, <3>1, <3>3, <3>4
  <2>5. QED  BY <2>3, <2>4
<1>2. ASSUME NEW u, u.use # "refresh", issued' = issued \union {u}
      PROVE  GrantsOf(t)' = GrantsOf(t)
  BY <1>2
<1>3. ASSUME NEW r \in Replicas,
             \/ \E consent \in Consents : SealAuthReq(r, consent)
             \/ \E req \in issued : SealCode(r, req)
      PROVE  \E u : u.use # "refresh" /\ issued' = issued \union {u}
  BY <1>3 DEF SealAuthReq, SealCode, Mint, MintAuthReq, MintCode, Artifact
<1>4. ASSUME NEW p \in Procs, NEW tok \in issued,
             \/ \E client, redirect, v : BeginCode(p, tok, client, redirect, v)
             \/ \E client : BeginRefresh(p, tok, client)
             \/ GuardGet(p) \/ GuardSet(p) \/ Fail(p)
      PROVE  UNCHANGED issued
  BY <1>4 DEF BeginCode, BeginRefresh, Begin, GuardGet, GuardSet, Fail
<1>5. CASE Tick \/ (\E r \in Replicas : Restart(r)) \/ UNCHANGED vars
  BY <1>5 DEF Tick, Restart, vars
<1>6. ASSUME UNCHANGED issued PROVE GrantsOf(t)' = GrantsOf(t)
  BY <1>6
<1>7. CASE \E p \in Procs : GuardGet(p) \/ GuardSet(p) \/ Fail(p)
  BY <1>6, <1>7 DEF GuardGet, GuardSet, Fail
<1>8. QED  BY <1>1, <1>2, <1>3, <1>4, <1>5, <1>6, <1>7 DEF Next

\* A code that has just been minted has no families.
LEMMA NewCode ==
    ASSUME GuardInv, Shapes, [Next]_vars, NEW t \in Codes', t \notin Codes
    PROVE  GrantsOf(t)' = {}
<1> USE DEF GrantsOf, Refreshes, Codes
<1>0. \A u \in issued : u.parent \in Nat /\ u.parent < nextId
  BY DEF GuardInv, TypeOK, Token, Shapes
<1>1. nextId \in Nat
  BY DEF GuardInv, TypeOK
<1>2. ASSUME NEW u, FreshAuthReq(u), issued' = issued \union {u}
      PROVE  GrantsOf(t)' = {}
  BY <1>2 DEF FreshAuthReq
<1>3. ASSUME NEW u, NEW req, FreshCode(u, req), issued' = issued \union {u}
      PROVE  GrantsOf(t)' = {}
  BY <1>0, <1>1, <1>3 DEF FreshCode
<1>4. ASSUME NEW a, NEW f, NEW from, FreshPair(a, f, from), issued' = issued \union {a, f}
      PROVE  GrantsOf(t)' = {}
  BY <1>4 DEF FreshPair
<1>5. CASE UNCHANGED issued
  BY <1>5
<1>6. QED  BY <1>2, <1>3, <1>4, <1>5, IssuedStep

\* No clock goes back.
LEMMA Later ==
    ASSUME GuardInv, [Next]_vars, NEW r \in Replicas, NEW t \in issued, Clock(r)' <= t.exp
    PROVE  Clock(r) <= t.exp
<1>1. /\ now \in Nat /\ t.exp \in Nat /\ Skew[r] \in Nat
      /\ now' = now \/ now' = now + 1
  <2>1. now' = now \/ now' = now + 1
    BY DEF Next, vars, Tick, SealAuthReq, SealCode, BeginCode, BeginRefresh, Begin,
       GuardGet, GuardSet, IssueGrant, Fail, Restart
  <2>2. QED  BY <2>1 DEF GuardInv, TypeOK, Token
<1>2. QED  BY <1>1 DEF Clock

SlotsOf(r) == {p \in Procs : ReplicaOf[p] = r}

\* Of the slots of S, those that may still open a family for t.
Openers(t, S) == {p \in S : MayOpen(p, t)}

\* The families that a replica opened for a code within the code's lifetime.
InTime(t, r) == {g \in GrantsOf(t) : g.by = r /\ g.iat <= t.exp}

\* As long as no guard evicted or was lost, every slot opens one family at
\* most: those that did so cannot do it again while the code lives.
OncePerSlot ==
    \A r \in Replicas, t \in Codes : restarts = 0 /\ Kept(r) =>
        /\ Cardinality(InTime(t, r)) <= Cardinality(SlotsOf(r))
        /\ Clock(r) <= t.exp =>
              Cardinality(InTime(t, r)) + Cardinality(Openers(t, SlotsOf(r)))
                  <= Cardinality(SlotsOf(r))

LEMMA Slots ==
    ASSUME NEW S, S \subseteq Procs, NEW t
    PROVE  /\ IsFiniteSet(S) /\ Cardinality(S) \in Nat
           /\ IsFiniteSet(Openers(t, S)) /\ Cardinality(Openers(t, S)) \in Nat
           /\ Cardinality(Openers(t, S)) <= Cardinality(S)
<1>1. IsFiniteSet(S)
  BY FS_Subset
<1>2. Openers(t, S) \subseteq S
  BY DEF Openers
<1>3. QED  BY <1>1, <1>2, FS_Subset, FS_CardinalityType

\* What happens to the slots of S that may open a family: there are no more
\* of them, and fewer if one of them just did.
LEMMA FewerOpeners ==
    ASSUME NEW S, S \subseteq Procs, NEW t,
           \A p \in S : MayOpen(p, t)' => MayOpen(p, t)
    PROVE  /\ Cardinality(Openers(t, S)') \in Nat
           /\ Cardinality(Openers(t, S)') <= Cardinality(Openers(t, S))
           /\ \A p \in S : MayOpen(p, t) /\ ~MayOpen(p, t)' =>
                 Cardinality(Openers(t, S)') + 1 <= Cardinality(Openers(t, S))
<1> DEFINE O == Openers(t, S)
           P == {p \in S : MayOpen(p, t)'}
<1>0. Openers(t, S)' = P
  BY DEF Openers
<1>1. IsFiniteSet(O) /\ Cardinality(O) \in Nat /\ P \subseteq O
  BY Slots DEF Openers
<1> HIDE DEF O, P
<1>2. IsFiniteSet(P) /\ Cardinality(P) \in Nat /\ Cardinality(P) <= Cardinality(O)
  BY <1>1, FS_Subset, FS_CardinalityType
<1>3. ASSUME NEW p \in S, MayOpen(p, t), ~MayOpen(p, t)'
      PROVE  Cardinality(P) + 1 <= Cardinality(O)
  <2>1. p \in O /\ p \notin P
    BY <1>3 DEF O, P, Openers
  <2>2. P \union {p} \subseteq O
    BY <1>1, <2>1
  <2>3. Cardinality(P \union {p}) <= Cardinality(O)
    BY <1>1, <2>2, FS_Subset
  <2>4. Cardinality(P \union {p}) = Cardinality(P) + 1
    BY <1>2, <2>1, OneMore
  <2>5. QED  BY <2>3, <2>4
<1>4. QED  BY <1>0, <1>2, <1>3 DEF O

FinitelyMany == IsFiniteSet(issued)

LEMMA FiniteGrants ==
    ASSUME FinitelyMany, NEW t, NEW r
    PROVE  /\ IsFiniteSet(GrantsOf(t)) /\ Cardinality(GrantsOf(t)) \in Nat
           /\ IsFiniteSet(InTime(t, r)) /\ Cardinality(InTime(t, r)) \in Nat
<1>1. GrantsOf(t) \subseteq issued /\ InTime(t, r) \subseteq issued
  BY DEF GrantsOf, Refreshes, InTime
<1>2. QED  BY <1>1, FS_Subset, FS_CardinalityType DEF FinitelyMany

LEMMA FiniteIssued == Spec => []FinitelyMany
<1> USE DEF FinitelyMany
<1>1. Init => FinitelyMany
  BY FS_EmptySet DEF Init
<1>2. GuardInv /\ FinitelyMany /\ [Next]_vars => FinitelyMany'
  <2> SUFFICES ASSUME GuardInv, FinitelyMany, [Next]_vars PROVE FinitelyMany'
    OBVIOUS
  <2>1. ASSUME NEW a, NEW f, issued' = issued \union {a, f} PROVE FinitelyMany'
    <3>1. IsFiniteSet(issued \union {a})
      BY OneMore
    <3>2. IsFiniteSet((issued \union {a}) \union {f})
      BY <3>1, OneMore
    <3>3. (issued \union {a}) \union {f} = issued'
      BY <2>1
    <3>4. QED  BY <3>2, <3>3
  <2>2. ASSUME NEW a, issued' = issued \union {a} PROVE FinitelyMany'
    BY <2>2, OneMore
  <2>3. QED  BY <2>1, <2>2, IssuedStep
<1> HIDE DEF FinitelyMany
<1>3. QED  BY <1>1, <1>2, GuardInvariant, PTL DEF Spec

LEMMA OncePerSlotStep ==
    ASSUME GuardInv, BurnedFirst, BurnedFirst', Shapes, FinitelyMany,
           OncePerSlot, [Next]_vars
    PROVE  OncePerSlot'
<1> SUFFICES ASSUME NEW r \in Replicas, NEW t \in Codes', restarts' = 0, Kept(r)'
             PROVE  /\ Cardinality(InTime(t, r)') <= Cardinality(SlotsOf(r))
                    /\ Clock(r)' <= t.exp =>
                          Cardinality(InTime(t, r)') + Cardinality(Openers(t, SlotsOf(r))')
                              <= Cardinality(SlotsOf(r))
  BY DEF OncePerSlot, SlotsOf, Openers
<1> DEFINE S == SlotsOf(r)
<1>0. S \subseteq Procs /\ Cardinality(S) \in Nat
  BY Slots DEF SlotsOf
<1>1. restarts = 0 /\ restarts' = restarts /\ \A q \in Replicas : burned[q] \subseteq burned'[q]
  BY BurnedGrows DEF GuardInv, TypeOK
<1>2. Kept(r)
  <2>1. Cardinality(burned[r]) <= Cardinality(burned'[r])
    BY <1>1, FS_Subset DEF BurnedFirst
  <2>2. Cardinality(burned[r]) \in Nat /\ Cardinality(burned'[r]) \in Nat
    BY FS_CardinalityType DEF BurnedFirst
  <2>3. QED  BY <2>1, <2>2 DEF Kept
<1>3. CASE t \notin Codes
  <2>1. InTime(t, r)' = {}
    BY <1>3, NewCode DEF InTime
  <2>2. Cardinality(InTime(t, r)') = 0
    BY <2>1, FS_EmptySet
  <2>3. /\ Cardinality(Openers(t, S)') \in Nat
        /\ Cardinality(Openers(t, S)') <= Cardinality(S)
    <3>1. Openers(t, S)' \subseteq S
      BY DEF Openers, SlotsOf
    <3>2. IsFiniteSet(S)
      BY <1>0, Slots
    <3>3. QED  BY <3>1, <3>2, FS_Subset, FS_CardinalityType
  <2>4. QED  BY <1>0, <2>2, <2>3
<1>4. CASE t \in Codes
  <2>0. Cardinality(InTime(t, r)) \in Nat /\ Cardinality(Openers(t, S)) \in Nat
    BY <1>0, FiniteGrants, Slots
  <2>1. Cardinality(InTime(t, r)) <= Cardinality(S)
    BY <1>1, <1>2, <1>4 DEF OncePerSlot
  <2>2. ASSUME Clock(r) <= t.exp
        PROVE  /\ Cardinality(InTime(t, r)) + Cardinality(Openers(t, S)) <= Cardinality(S)
               /\ \A p \in S : MayOpen(p, t)' => MayOpen(p, t)
    BY <1>1, <1>2, <1>4, <2>2, MayOpenStep DEF OncePerSlot, SlotsOf
  <2>3. Clock(r)' <= t.exp => Clock(r) <= t.exp
    BY <1>4, Later DEF Codes
  <2>4. ASSUME InTime(t, r)' = InTime(t, r)
        PROVE  /\ Cardinality(InTime(t, r)') <= Cardinality(S)
               /\ Clock(r)' <= t.exp =>
                     Cardinality(InTime(t, r)') + Cardinality(Openers(t, S)') <= Cardinality(S)
    <3>1. ASSUME Clock(r)' <= t.exp
          PROVE  Cardinality(InTime(t, r)') + Cardinality(Openers(t, S)') <= Cardinality(S)
      <4>1. /\ Cardinality(Openers(t, S)') \in Nat
            /\ Cardinality(Openers(t, S)') <= Cardinality(Openers(t, S))
        BY <1>0, <2>2, <2>3, <3>1, FewerOpeners
      <4>2. QED  BY <1>0, <2>0, <2>2, <2>3, <2>4, <3>1, <4>1
    <3>2. QED  BY <2>1, <2>4, <3>1
  <2>5. CASE GrantsOf(t)' = GrantsOf(t)
    BY <2>4, <2>5 DEF InTime
  <2>6. ASSUME NEW p \in Procs, NEW g,
               GrantsOf(t)' = GrantsOf(t) \union {g},
               g.by = ReplicaOf[p], g.iat = Clock(ReplicaOf[p]),
               UNCHANGED <<now, restarts>>,
               MayOpen(p, t), ~MayOpen(p, t)'
        PROVE  /\ Cardinality(InTime(t, r)') <= Cardinality(S)
               /\ Clock(r)' <= t.exp =>
                     Cardinality(InTime(t, r)') + Cardinality(Openers(t, S)') <= Cardinality(S)
    <3>1. CASE ~(ReplicaOf[p] = r /\ Clock(r) <= t.exp)
      BY <2>4, <2>6, <3>1 DEF InTime
    <3>2. CASE ReplicaOf[p] = r /\ Clock(r) <= t.exp
      <4>1. InTime(t, r)' = InTime(t, r) \union {g}
        BY <2>6, <3>2 DEF InTime
      <4>2. /\ Cardinality(InTime(t, r)') \in Nat
            /\ Cardinality(InTime(t, r)') <= Cardinality(InTime(t, r)) + 1
        BY <4>1, FiniteGrants, OneMore
      <4>3. /\ Cardinality(Openers(t, S)') \in Nat
            /\ Cardinality(Openers(t, S)') + 1 <= Cardinality(Openers(t, S))
        BY <1>0, <2>2, <2>6, <3>2, FewerOpeners DEF SlotsOf
      <4>4. QED  BY <1>0, <2>0, <2>2, <3>2, <4>2, <4>3
    <3>3. QED  BY <3>1, <3>2
  <2>7. QED  BY <1>4, <2>5, <2>6, GrantsStep
<1>5. QED  BY <1>3, <1>4

\* While a code lives, a replica opens more families for it than it has request
\* slots only if its guard evicted or some replica restarted.
THEOREM ReopenedByEvictionOnly == Spec => []ReopenedOnlyByEviction
<1>1. Init => OncePerSlot
  BY DEF Init, OncePerSlot, Codes
<1>2. GuardInv /\ BurnedFirst /\ FinitelyMany /\ OncePerSlot => ReopenedOnlyByEviction
  <2> SUFFICES ASSUME GuardInv, BurnedFirst, FinitelyMany, OncePerSlot,
                      NEW r \in Replicas, NEW t \in Codes,
                      restarts = 0, ~(Cardinality(burned[r]) > Capacity)
               PROVE  ~(Cardinality(InTime(t, r)) > Cardinality(SlotsOf(r)))
    BY DEF ReopenedOnlyByEviction, InTime, SlotsOf, GuardInv, TypeOK
  <2>1. Cardinality(burned[r]) \in Nat
    BY FS_CardinalityType DEF BurnedFirst
  <2>2. Cardinality(InTime(t, r)) \in Nat /\ Cardinality(SlotsOf(r)) \in Nat
    BY FiniteGrants, Slots DEF SlotsOf
  <2>3. Kept(r)
    BY <2>1 DEF Kept
  <2>4. QED  BY <2>2, <2>3 DEF OncePerSlot
<1>3. GuardInv /\ BurnedFirst /\ BurnedFirst' /\ LineageInv /\ FinitelyMany
          /\ OncePerSlot /\ [Next]_vars => OncePerSlot'
  BY OncePerSlotStep DEF LineageInv
<1>4. QED  BY GuardInvariant, BurnedFirstInvariant, LineageInvariant, FiniteIssued,
              <1>1, <1>2, <1>3, PTL DEF Spec

\* No guard has burned more than it holds since its replica started.
NeverFull == \A r \in Replicas : Kept(r)

\* Every slot opens one family at most for each time that a guard starts.
RaceInv ==
    \A t \in Codes :
        Cardinality(GrantsOf(t)) + Cardinality(Openers(t, Procs))
            <= Cardinality(Procs) * (1 + restarts)

\* n slots more, for one start more.
LEMMA OneStartMore ==
    ASSUME NEW n \in Nat, NEW k \in Nat
    PROVE  /\ n * (1 + (k + 1)) = n * (1 + k) + n
           /\ n <= n * (1 + k) /\ n * (1 + k) \in Nat
  OBVIOUS

LEMMA RaceStep ==
    ASSUME GuardInv, BurnedFirst, Shapes, FinitelyMany, NeverFull, StillGood,
           RaceInv, [Next]_vars
    PROVE  RaceInv'
<1> DEFINE n == Cardinality(Procs)
<1> SUFFICES ASSUME NEW t \in Codes'
             PROVE  Cardinality(GrantsOf(t)') + Cardinality(Openers(t, Procs)')
                        <= n * (1 + restarts')
  BY DEF RaceInv, GrantsOf, Refreshes, Openers
<1>0. n \in Nat /\ restarts \in Nat
  BY Slots DEF GuardInv, TypeOK
<1>1. restarts' = restarts \/ (restarts' = restarts + 1 /\ UNCHANGED issued)
  BY BurnedGrows
<1>2. /\ Cardinality(Openers(t, Procs)') \in Nat
      /\ Cardinality(Openers(t, Procs)') <= n
  <2>1. Openers(t, Procs)' \subseteq Procs
    BY DEF Openers
  <2>2. QED  BY <2>1, FS_Subset, FS_CardinalityType
<1>3. Cardinality(GrantsOf(t)) \in Nat /\ Cardinality(Openers(t, Procs)) \in Nat
  BY FiniteGrants, Slots
<1> HIDE DEF n
<1>4. CASE t \notin Codes
  <2>1. Cardinality(GrantsOf(t)') = 0
    BY <1>4, NewCode, FS_EmptySet
  <2>2. restarts' \in Nat
    BY <1>0, <1>1
  <2>3. n <= n * (1 + restarts') /\ n * (1 + restarts') \in Nat
    BY <1>0, <2>2, OneStartMore
  <2>4. QED  BY <1>0, <1>2, <2>1, <2>3
<1>5. CASE t \in Codes /\ restarts' = restarts + 1 /\ UNCHANGED issued
  <2>1. GrantsOf(t)' = GrantsOf(t)
    BY <1>5 DEF GrantsOf, Refreshes
  <2>2. Cardinality(GrantsOf(t)) + Cardinality(Openers(t, Procs)) <= n * (1 + restarts)
    BY <1>5 DEF RaceInv, n
  <2>3. n * (1 + restarts') = n * (1 + restarts) + n /\ n * (1 + restarts) \in Nat
    BY <1>0, <1>5, OneStartMore
  <2>4. QED  BY <1>0, <1>2, <1>3, <2>1, <2>2, <2>3
<1>6. CASE t \in Codes /\ restarts' = restarts
  <2>1. Cardinality(GrantsOf(t)) + Cardinality(Openers(t, Procs)) <= n * (1 + restarts)
    BY <1>6 DEF RaceInv, n
  <2>2. \A p \in Procs : MayOpen(p, t)' => MayOpen(p, t)
    BY <1>6, MayOpenStep DEF NeverFull
  <2>3. Cardinality(Openers(t, Procs)') <= Cardinality(Openers(t, Procs))
    BY <2>2, FewerOpeners
  <2>4. n * (1 + restarts) \in Nat
    BY <1>0, OneStartMore
  <2>5. CASE GrantsOf(t)' = GrantsOf(t)
    BY <1>2, <1>3, <1>6, <2>1, <2>3, <2>4, <2>5
  <2>6. ASSUME NEW p \in Procs, NEW g, GrantsOf(t)' = GrantsOf(t) \union {g},
               MayOpen(p, t), ~MayOpen(p, t)'
        PROVE  Cardinality(GrantsOf(t)') + Cardinality(Openers(t, Procs)') <= n * (1 + restarts)
    <3>1. Cardinality(Openers(t, Procs)') + 1 <= Cardinality(Openers(t, Procs))
      BY <2>2, <2>6, FewerOpeners
    <3>2. /\ Cardinality(GrantsOf(t)') \in Nat
          /\ Cardinality(GrantsOf(t)') <= Cardinality(GrantsOf(t)) + 1
      BY <2>6, FiniteGrants, OneMore
    <3>3. QED  BY <1>2, <1>3, <2>1, <2>4, <3>1, <3>2
  <2>7. QED  BY <1>6, <2>5, <2>6, GrantsStep
<1>7. QED  BY <1>1, <1>4, <1>5, <1>6

LEMMA StillGoodInvariant == ASSUME Prompt PROVE Spec => []StillGood
<1>1. Init => StillGood
  BY DEF Init, StillGood, Busy
<1>2. GuardInv /\ StillGood /\ [Next]_vars => StillGood'
  BY StillGoodStep
<1>3. QED  BY GuardInvariant, <1>1, <1>2, PTL DEF Spec

LEMMA RaceInvariant == ASSUME Prompt PROVE Spec /\ []NeverFull => []RaceInv
<1>1. Init => RaceInv
  BY DEF Init, RaceInv, Codes
<1>2. GuardInv /\ BurnedFirst /\ LineageInv /\ FinitelyMany /\ NeverFull /\ StillGood
          /\ RaceInv /\ [Next]_vars => RaceInv'
  BY RaceStep DEF LineageInv
<1>3. QED  BY GuardInvariant, BurnedFirstInvariant, LineageInvariant, FiniteIssued,
              StillGoodInvariant, <1>1, <1>2, PTL DEF Spec

\* However requests served at once interleave, and on however many replicas, a
\* code opens one family per request slot at most, and once more per slot for
\* each restart, as long as the guards hold what is burned.
THEOREM RacesAreBounded == ASSUME Prompt PROVE Spec /\ []NeverFull => []RaceIsBounded
<1>1. GuardInv /\ FinitelyMany /\ RaceInv => RaceIsBounded
  <2> SUFFICES ASSUME GuardInv, FinitelyMany, RaceInv, NEW t \in Codes
               PROVE  Cardinality(GrantsOf(t)) <= Cardinality(Procs) * (1 + restarts)
    BY DEF RaceIsBounded
  <2>1. Cardinality(GrantsOf(t)) \in Nat /\ Cardinality(Openers(t, Procs)) \in Nat
    BY FiniteGrants, Slots
  <2>2. Cardinality(Procs) * (1 + restarts) \in Nat
    BY OneStartMore, Slots DEF GuardInv, TypeOK
  <2>3. QED  BY <2>1, <2>2 DEF RaceInv
<1>2. QED  BY GuardInvariant, FiniteIssued, RaceInvariant, <1>1, PTL

-----------------------------------------------------------------------------
(* The promise of SingleUse.                                               *)

\* One request at a time, answered at once, by replicas whose clocks agree and
\* that do not restart.
Serial ==
    /\ Prompt /\ MaxRestarts = 0
    /\ \A p, q \in Procs : p = q
    /\ \A r, q \in Replicas : Skew[r] = Skew[q]

NeverRestarted == restarts = 0

\* What a single request has in hand has opened no family yet.
LEMMA FirstGrant ==
    ASSUME Serial, GuardInv, FinitelyMany, RaceInv, NeverRestarted,
           NEW p \in Procs, pc[p] = "issue", form[p].tok \in Codes
    PROVE  GrantsOf(form[p].tok) = {}
<1> DEFINE t == form[p].tok
<1>1. Cardinality(Procs) = 1
  <2>1. Procs = {p}
    BY DEF Serial
  <2>2. QED  BY <2>1, FS_Singleton
<1>2. Cardinality(GrantsOf(t)) + Cardinality(Openers(t, Procs)) <= 1
  BY <1>1 DEF RaceInv, NeverRestarted
<1>3. p \in Openers(t, Procs)
  BY DEF Openers, MayOpen
<1>4. IsFiniteSet(Openers(t, Procs)) /\ Cardinality(Openers(t, Procs)) \in Nat
  BY Slots
<1>5. Cardinality(Openers(t, Procs)) # 0
  BY <1>3, <1>4, FS_EmptySet
<1>6. IsFiniteSet(GrantsOf(t)) /\ Cardinality(GrantsOf(t)) \in Nat
  BY FiniteGrants
<1> HIDE DEF t
<1>7. Cardinality(GrantsOf(t)) = 0
  BY <1>2, <1>4, <1>5, <1>6
<1>8. QED  BY <1>6, <1>7, FS_EmptySet DEF t

\* A code is approved, and has not lapsed yet.
LEMMA ApproveRefined ==
    ASSUME GuardInv, LineageInv, NEW r \in Replicas, NEW req \in issued, SealCode(r, req)
    PROVE  Promise!Approve
<1> DEFINE t == MintCode(nextId, Clock(r), r, req)
<1>1. issued' = issued \union {t} /\ now' = now
  BY DEF SealCode, Mint
<1>2. /\ t.use = "code" /\ t.id = nextId /\ t.by = r
      /\ t.iat = Clock(r) /\ t.exp = Clock(r) + CodeTTL
  BY DEF MintCode, Artifact
<1>3. Clock(r) \in Nat /\ nextId \in Nat
  BY ClockNat DEF GuardInv, TypeOK
<1> HIDE DEF t
<1>4. Codes' = Codes \union {t} /\ Refreshes' = Refreshes
  BY <1>1, <1>2 DEF Codes, Refreshes
<1>5. \A u \in issued : u.id # nextId /\ u.parent # nextId
  BY <1>3 DEF GuardInv, TypeOK, Token, LineageInv, Shapes
<1>6. CodeGrants' = CodeGrants
  BY <1>2, <1>4, <1>5 DEF CodeGrants, Refreshes
<1>7. {u \in Codes' : Clock(u.by)' > u.exp} = {u \in Codes : Clock(u.by) > u.exp}
  BY <1>1, <1>2, <1>3, <1>4 DEF Clock
<1>8. nextId \notin {c.id : c \in Codes} /\ {c.id : c \in Codes}' = {c.id : c \in Codes} \union {nextId}
  BY <1>2, <1>4, <1>5 DEF Codes
<1>9. QED  BY <1>6, <1>7, <1>8 DEF Promise!Approve

LEMMA LapseRefined ==
    ASSUME GuardInv, Tick
    PROVE  Promise!Lapse
<1>1. UNCHANGED issued /\ now' = now + 1
  BY DEF Tick
<1>2. Codes' = Codes /\ CodeGrants' = CodeGrants
  BY <1>1 DEF Codes, CodeGrants, Refreshes
<1>3. \A u \in Codes : Clock(u.by) > u.exp => Clock(u.by)' > u.exp
  <2>1. \A u \in Codes : now \in Nat /\ u.exp \in Nat /\ Skew[u.by] \in Nat
    BY DEF GuardInv, TypeOK, Token, Codes
  <2>2. QED  BY <1>1, <2>1 DEF Clock
<1>4. QED  BY <1>2, <1>3 DEF Promise!Lapse

\* A code is redeemed for the first time, before it lapsed.
LEMMA RedeemRefined ==
    ASSUME Serial, GuardInv, LineageInv, FinitelyMany, StillGood, RaceInv, NeverRestarted,
           NEW p \in Procs, IssueGrant(p), form[p].tok \in Codes
    PROVE  Promise!Redeem
<1> DEFINE tok == form[p].tok
           r == ReplicaOf[p]
<1>1. PICK a, f : /\ FreshPair(a, f, tok)
                  /\ issued' = issued \union {a, f} /\ nextId' = nextId + 2
  BY IssuedByGrant
<1>2. Codes' = Codes /\ Refreshes' = Refreshes \union {f}
      /\ f.parent = tok.id /\ f.family = nextId + 1
  BY <1>1 DEF FreshPair, Codes, Refreshes, LineageInv, Shapes
<1>3. now' = now /\ pc[p] = "issue" /\ p \in Busy
  BY DEF IssueGrant, Busy
<1>4. CodeGrants' = CodeGrants \union {f}
  BY <1>2 DEF CodeGrants
<1>5. tok.id \notin {g.parent : g \in CodeGrants}
  BY <1>3, FirstGrant DEF CodeGrants, GrantsOf
<1>6. \A c \in Codes : c.id = tok.id => Clock(c.by) <= c.exp
  <2>1. ASSUME NEW c \in Codes, c.id = tok.id PROVE c = tok
    BY <2>1 DEF Codes, GuardInv, TypeOK
  <2>2. tok.by \in Replicas /\ tok.exp \in Nat /\ r \in Replicas /\ Clock(r) \in Nat
    <3>1. tok \in Token /\ now \in Nat /\ r \in Replicas
      BY DEF Codes, GuardInv, TypeOK
    <3>2. QED  BY <3>1, ClockNat DEF Token
  <2>3. Clock(tok.by) = Clock(r)
    BY <2>2 DEF Serial, Clock
  <2>4. Clock(r) <= tok.exp
    BY <1>3, <2>2 DEF StillGood, Grace, Codes
  <2>5. QED  BY <2>1, <2>3, <2>4
<1>7. \A g \in CodeGrants : g.family # f.family
  <2>1. ASSUME NEW g \in CodeGrants PROVE g.family # nextId + 1
    <3>1. PICK h \in Refreshes : h.id = g.family
      BY DEF LineageInv, FamilyHeads, CodeGrants
    <3>2. h.id \in Nat /\ nextId \in Nat /\ h.id < nextId
      BY DEF Refreshes, GuardInv, TypeOK, Token
    <3>3. QED  BY <3>1, <3>2
  <2>2. QED  BY <1>2, <2>1
<1> HIDE DEF tok, r
<1>8. {t \in Codes' : Clock(t.by)' > t.exp} = {t \in Codes : Clock(t.by) > t.exp}
  BY <1>2, <1>3 DEF Clock
<1>9. /\ {g.parent : g \in CodeGrants}' = {g.parent : g \in CodeGrants} \union {tok.id}
      /\ {g.family : g \in CodeGrants}' = {g.family : g \in CodeGrants} \union {f.family}
      /\ f.family \notin {g.family : g \in CodeGrants}
  BY <1>2, <1>4, <1>7
<1>10. tok.id \in {c.id : c \in Codes}
  BY DEF tok
<1>11. tok.id \notin {c.id : c \in {t \in Codes : Clock(t.by) > t.exp}}
  <2>1. \A c \in Codes : Clock(c.by) \in Nat /\ c.exp \in Nat
    <3>1. \A c \in Codes : c \in Token
      BY DEF Codes, GuardInv, TypeOK
    <3>2. \A c \in Codes : c.by \in Replicas /\ c.exp \in Nat
      BY <3>1 DEF Token
    <3>3. QED  BY <3>2, ClockNat DEF GuardInv, TypeOK
  <2>2. QED  BY <1>6, <2>1
<1>12. QED  BY <1>2, <1>5, <1>8, <1>9, <1>10, <1>11 DEF Promise!Redeem

\* Nothing that SingleUse speaks of changes.
LEMMA PromiseStutters ==
    ASSUME Codes' = Codes, CodeGrants' = CodeGrants, UNCHANGED now
    PROVE  UNCHANGED Promise!vars
  BY DEF Promise!vars, Clock

LEMMA PromiseStep ==
    ASSUME Serial, GuardInv, LineageInv, FinitelyMany, StillGood, RaceInv, NeverRestarted,
           [Next]_vars
    PROVE  [Promise!Next]_(Promise!vars)
<1>1. ASSUME UNCHANGED <<issued, now>> PROVE UNCHANGED Promise!vars
  BY <1>1, PromiseStutters DEF Codes, CodeGrants, Refreshes
<1>2. CASE Tick
  BY <1>2, LapseRefined DEF Promise!Next
<1>3. ASSUME NEW r \in Replicas, NEW consent \in Consents, SealAuthReq(r, consent)
      PROVE  UNCHANGED Promise!vars
  <2>1. PICK t : t.use = "authreq" /\ issued' = issued \union {t} /\ now' = now
    BY <1>3 DEF SealAuthReq, Mint, MintAuthReq, Artifact
  <2>2. QED  BY <2>1, PromiseStutters DEF Codes, CodeGrants, Refreshes
<1>4. ASSUME NEW r \in Replicas, NEW req \in issued, SealCode(r, req)
      PROVE  Promise!Next
  BY <1>4, ApproveRefined DEF Promise!Next
<1>5. ASSUME NEW p \in Procs, IssueGrant(p)
      PROVE  [Promise!Next]_(Promise!vars)
  <2> DEFINE tok == form[p].tok
  <2>1. PICK a, f : FreshPair(a, f, tok) /\ issued' = issued \union {a, f} /\ now' = now
    BY <1>5, IssuedByGrant DEF IssueGrant
  <2>2. CASE tok \in Codes
    BY <1>5, <2>2, RedeemRefined DEF Promise!Next
  <2>3. CASE tok \notin Codes
    <3>1. Codes' = Codes /\ Refreshes' = Refreshes \union {f} /\ f.parent = tok.id
      BY <2>1 DEF FreshPair, Codes, Refreshes
    <3>2. \A c \in Codes : c.id # tok.id
      BY <2>1, <2>3 DEF FreshPair, Codes, GuardInv, TypeOK
    <3>3. CodeGrants' = CodeGrants
      BY <3>1, <3>2 DEF CodeGrants
    <3>4. QED  BY <2>1, <3>1, <3>3, PromiseStutters
  <2>4. QED  BY <2>2, <2>3
<1>6. ASSUME NEW p \in Procs, NEW tok \in issued,
             \/ \E client, redirect, v : BeginCode(p, tok, client, redirect, v)
             \/ \E client : BeginRefresh(p, tok, client)
      PROVE  UNCHANGED Promise!vars
  BY <1>1, <1>6 DEF BeginCode, BeginRefresh, Begin
<1>7. ASSUME NEW p \in Procs, GuardGet(p) \/ GuardSet(p) \/ Fail(p)
      PROVE  UNCHANGED Promise!vars
  BY <1>1, <1>7 DEF GuardGet, GuardSet, Fail
<1>8. ASSUME NEW r \in Replicas, Restart(r) PROVE FALSE
  BY <1>8 DEF Restart, NeverRestarted, Serial
<1>9. CASE UNCHANGED vars
  BY <1>1, <1>9 DEF vars
<1>10. QED  BY <1>2, <1>3, <1>4, <1>5, <1>6, <1>7, <1>8, <1>9 DEF Next

\* Replicas that serve one request at a time keep the promise of SingleUse, as
\* long as their guards hold what is burned: every step of the token endpoint
\* is a step of the promise or none.
THEOREM PromiseIsKept == ASSUME Serial PROVE Spec /\ []NeverFull => PromiseKept
<1>0. Prompt
  BY DEF Serial
<1>1. Init => Promise!Init
  BY DEF Init, Promise!Init, Codes, CodeGrants, Refreshes
<1>2. Spec => []NeverRestarted
  <2>1. Init => NeverRestarted
    BY DEF Init, NeverRestarted
  <2>2. NeverRestarted /\ [Next]_vars => NeverRestarted'
    <3> SUFFICES ASSUME NeverRestarted, [Next]_vars PROVE restarts' = restarts
      BY DEF NeverRestarted
    <3>1. ASSUME NEW r \in Replicas, Restart(r) PROVE FALSE
      BY <3>1 DEF Restart, NeverRestarted, Serial
    <3>2. QED  BY <3>1 DEF Next, vars, Tick, SealAuthReq, SealCode, BeginCode,
                 BeginRefresh, Begin, GuardGet, GuardSet, IssueGrant, Fail
  <2>3. QED  BY <2>1, <2>2, PTL DEF Spec
<1>3. GuardInv /\ LineageInv /\ FinitelyMany /\ StillGood /\ RaceInv /\ NeverRestarted
          /\ [Next]_vars => [Promise!Next]_(Promise!vars)
  BY PromiseStep
<1>4. Spec => []StillGood
  BY <1>0, StillGoodInvariant
<1>5. Spec /\ []NeverFull => []RaceInv
  BY <1>0, RaceInvariant
<1>6. QED  BY GuardInvariant, LineageInvariant, FiniteIssued, <1>1, <1>2, <1>3, <1>4, <1>5,
              PTL DEF Spec, PromiseKept, Promise!Spec
=============================================================================
