---------------------------- MODULE TokenEndpoint ----------------------------
(***************************************************************************)
(* POST /oauth2/token: redeeming authorization codes and rotating refresh  *)
(* tokens (internal/web/mcp.go), over the replay guard                     *)
(* (internal/mcpauth/store.go) and the artifacts of module Artifacts, on   *)
(* several replicas whose clocks differ.  Nothing is shared by the         *)
(* replicas but the keys: each has its own guard, and loses it when it     *)
(* restarts.                                                               *)
(*                                                                         *)
(* A process is one request being served.  SeenBefore takes no lock        *)
(* across its Get and its Set, so a request is served in the steps         *)
(*   Begin (verify the artifact) - GuardGet - GuardSet - answer,           *)
(* and the steps of different requests interleave.                         *)
(***************************************************************************)
EXTENDS Artifacts, TtlCache

CONSTANTS
    Replicas, Procs,
    ReplicaOf,      \* the replica that serves a process
    Skew,           \* how far each replica's clock is ahead of real time
    Config,         \* per replica: issuer, resource, required, allowed
    Capacity,       \* the guard's maxSize (defaultReplayGuardSize)
    Prompt,         \* TRUE: no clock ticks while a request is being served
    SignMayFail,    \* TRUE: signing a token pair may return an error
    MaxTime, MaxIds, MaxBlobs, MaxRestarts      \* bounds of the model

ASSUME TokenAssumption ==
    /\ ReplicaOf \in [Procs -> Replicas] /\ IsFiniteSet(Procs)
    /\ Skew \in [Replicas -> Nat]
    /\ Capacity \in Nat
    /\ Prompt \in BOOLEAN /\ SignMayFail \in BOOLEAN
    /\ MaxTime \in Nat /\ MaxIds \in Nat
    /\ MaxBlobs \in Nat /\ MaxRestarts \in Nat

VARIABLES
    now,        \* real time
    issued,     \* every artifact minted so far; any party may present any
    nextId,     \* the next jti
    guard,      \* guard[r]: the MemoryReplayGuard of replica r
    pc, form,   \* per process: where it is, and the parsed request
    restarts,   \* how many replica restarts there have been
    burned      \* burned[r]: ids Set in r's guard since r started (history)

vars == <<now, issued, nextId, guard, pc, form, restarts, burned>>

Clock(r) == now + Skew[r]

NoForm == [grant |-> "none"]

Busy == {p \in Procs : pc[p] # "idle"}

\* Keeps jti's below MaxIds: what requests in progress may mint is reserved.
RoomFor(n) == nextId + n + 2 * Cardinality(Busy) <= MaxIds + 1

Init ==
    /\ now = 0
    /\ issued = {}
    /\ nextId = 1
    /\ guard = [r \in Replicas |-> EmptyCache]
    /\ pc = [p \in Procs |-> "idle"]
    /\ form = [p \in Procs |-> NoForm]
    /\ restarts = 0
    /\ burned = [r \in Replicas |-> {}]

-----------------------------------------------------------------------------
(* Time, and the artifacts that come from /oauth2/authorize: module        *)
(* Authorize models the two handlers, here they only seal what they seal.  *)

Tick ==
    /\ now < MaxTime
    /\ Prompt => Busy = {}
    /\ now' = now + 1
    /\ UNCHANGED <<issued, nextId, guard, pc, form, restarts, burned>>

Mint(t, n) ==
    /\ issued' = issued \union t
    /\ nextId' = nextId + n

\* A consent blob for this replica's resource and a user it allows.
SealAuthReq(r, consent) ==
    /\ RoomFor(1)
    /\ Cardinality({t \in issued : t.use = "authreq"}) < MaxBlobs
    /\ consent.resource = Config[r].resource
    /\ consent.sub \in Config[r].allowed
    /\ Mint({MintAuthReq(nextId, Clock(r), r, consent)}, 1)
    /\ UNCHANGED <<now, guard, pc, form, restarts, burned>>

\* The user approves.  The blob is not used up by it.
SealCode(r, req) ==
    /\ RoomFor(1)
    /\ VerifyAuthReq(req, Clock(r))
    /\ Mint({MintCode(nextId, Clock(r), r, req)}, 1)
    /\ UNCHANGED <<now, guard, pc, form, restarts, burned>>

-----------------------------------------------------------------------------
(* The token endpoint.  A request that fails a check before the guard is   *)
(* answered 400 and changes nothing, so only those that pass have a step.  *)

Begin(p, f) ==
    /\ pc[p] = "idle"
    /\ RoomFor(2)
    /\ pc' = [pc EXCEPT ![p] = "get"]
    /\ form' = [form EXCEPT ![p] = f]
    /\ UNCHANGED <<now, issued, nextId, guard, restarts, burned>>

\* The client and redirect_uri of the request are those of some consent, the
\* verifier is any: nothing but the code itself is looked at yet.
BeginCode(p, code, client, redirect, verifier) ==
    /\ VerifyCode(code, Clock(ReplicaOf[p]))
    /\ Begin(p, [grant |-> "authorization_code", tok |-> code,
                 client |-> client, redirect |-> redirect,
                 verifier |-> verifier])

\* A public client may leave client_id out; if sent, it must match.
BeginRefresh(p, refresh, client) ==
    /\ VerifyRefreshToken(refresh, Clock(ReplicaOf[p]))
    /\ client \in {Absent, refresh.bind.client}
    /\ Begin(p, [grant |-> "refresh_token", tok |-> refresh,
                 client |-> client])

Answer(p) ==
    /\ pc' = [pc EXCEPT ![p] = "idle"]
    /\ form' = [form EXCEPT ![p] = NoForm]

\* SeenBefore's Get.  A hit is answered "already used".
GuardGet(p) ==
    LET r == ReplicaOf[p]
        id == form[p].tok.id
    IN /\ pc[p] = "get"
       /\ guard' = [guard EXCEPT ![r] = AfterGet(@, id, Clock(r))]
       /\ IF Hit(guard[r], id, Clock(r))
          THEN Answer(p)
          ELSE pc' = [pc EXCEPT ![p] = "set"] /\ UNCHANGED form
       /\ UNCHANGED <<now, issued, nextId, restarts, burned>>

GuardTTL_Short(f) == CodeTTL
GuardTTL(f) == IF f.grant = "authorization_code" THEN CodeTTL ELSE RefreshTTL

GuardSet_Forgets(p) ==
    /\ pc[p] = "set"
    /\ pc' = [pc EXCEPT ![p] = "issue"]
    /\ UNCHANGED <<now, issued, nextId, guard, form, restarts, burned>>

\* SeenBefore's Set: from here on the artifact is burned on this replica.
GuardSet(p) ==
    LET r == ReplicaOf[p]
        id == form[p].tok.id
    IN /\ pc[p] = "set"
       /\ guard' = [guard EXCEPT ![r] =
             CacheSet(@, id, "seen", GuardTTL(form[p]), Clock(r), Capacity)]
       /\ burned' = [burned EXCEPT ![r] = @ \union {id}]
       /\ pc' = [pc EXCEPT ![p] = "issue"]
       /\ UNCHANGED <<now, issued, nextId, form, restarts>>

Bound_Both(f) ==
    /\ f.client = f.tok.bind.client
    /\ f.grant = "authorization_code" => VerifyPKCE(f.verifier, f.tok.bind.challenge)

\* A code is bound to its client, redirect_uri and PKCE challenge, and these
\* are checked only now that it is burned.
Bound(f) ==
    f.grant = "authorization_code" =>
        /\ f.client = f.tok.bind.client
        /\ f.redirect = f.tok.bind.redirect
        /\ VerifyPKCE(f.verifier, f.tok.bind.challenge)

\* IssueGrant: an access token and a refresh token, answered with 200.
IssueGrant(p) ==
    LET r == ReplicaOf[p]
        from == form[p].tok
    IN /\ pc[p] = "issue"
       /\ Bound(form[p])
       /\ Mint({AccessToken(nextId, Clock(r), r, Config[r].issuer, from),
                RefreshToken(nextId + 1, Clock(r), r, from)}, 2)
       /\ Answer(p)
       /\ UNCHANGED <<now, guard, restarts, burned>>

\* invalid_grant after the burn, or (if signing may fail) server_error.
Fail(p) ==
    /\ pc[p] = "issue"
    /\ ~Bound(form[p]) \/ SignMayFail
    /\ Answer(p)
    /\ UNCHANGED <<now, issued, nextId, guard, restarts, burned>>

-----------------------------------------------------------------------------
\* A replica restarts: its guard is gone and so are the requests it served.
Restart(r) ==
    /\ restarts < MaxRestarts
    /\ restarts' = restarts + 1
    /\ guard' = [guard EXCEPT ![r] = EmptyCache]
    /\ burned' = [burned EXCEPT ![r] = {}]
    /\ pc' = [p \in Procs |-> IF ReplicaOf[p] = r THEN "idle" ELSE pc[p]]
    /\ form' = [p \in Procs |-> IF ReplicaOf[p] = r THEN NoForm ELSE form[p]]
    /\ UNCHANGED <<now, issued, nextId>>

Next ==
    \/ Tick
    \/ \E r \in Replicas :
          \/ \E consent \in Consents : SealAuthReq(r, consent)
          \/ \E req \in issued : SealCode(r, req)
          \/ Restart(r)
    \/ \E p \in Procs :
          \/ \E code \in issued, b \in Consents, v \in Verifiers :
                BeginCode(p, code, b.client, b.redirect, v)
          \/ \E refresh \in issued,
                client \in {b.client : b \in Consents} \union {Absent} :
                BeginRefresh(p, refresh, client)
          \/ GuardGet(p) \/ GuardSet(p) \/ IssueGrant(p) \/ Fail(p)

Spec == Init /\ [][Next]_vars

-----------------------------------------------------------------------------
(* GET /mcp-verify: the status answered for a bearer token.  It changes    *)
(* nothing, so it is an operator.                                          *)

HasRequiredScopes(scope, required) == required \subseteq scope

McpVerify(r, t) ==
    IF ~VerifyAccessToken(t, Clock(r), Config[r]) THEN 401
    ELSE IF /\ t.bind.sub \in Config[r].allowed
            /\ HasRequiredScopes(t.bind.scope, Config[r].required)
         THEN 200
         ELSE 403

-----------------------------------------------------------------------------
(* Properties.                                                             *)

Token ==
    [use : {"authreq", "code", "access", "refresh"}, id : Nat, iat : Nat,
     exp : Nat, bind : Consents \union Grants, family : Nat,
     iss : {Absent} \union {Config[r].issuer : r \in Replicas},
     by : Replicas, parent : Nat, root : Nat]

\* The types of the variables; jti's are unique, and unused from nextId on.
TypeOK ==
    /\ now \in Nat /\ nextId \in Nat \ {0} /\ restarts \in Nat
    /\ issued \subseteq Token
    /\ \A t, u \in issued : t.id < nextId /\ (t.id = u.id => t = u)
    /\ DOMAIN guard = Replicas
    /\ \A r \in Replicas : ItemsOK(guard[r], Nat, {"seen"})
    /\ pc \in [Procs -> {"idle", "get", "set", "issue"}]
    /\ DOMAIN form = Procs
    /\ \A p \in Busy : form[p].tok \in issued
    /\ burned \in [Replicas -> SUBSET Nat]

Codes == {t \in issued : t.use = "code"}
Refreshes == {t \in issued : t.use = "refresh"}

\* The rotation families a code opened, by their first refresh token.
GrantsOf(t) == {g \in Refreshes : g.parent = t.id}

\* A code that was burned on a replica is rejected there for as long as it
\* would otherwise be accepted, unless capacity pushed it out of the guard:
\* the guard's entry, set at the time of use, outlasts the code's own expiry.
GuardCoversCodes ==
    \A r \in Replicas : \A t \in Codes :
        t.id \in Keys(guard[r]) /\ VerifyCode(t, Clock(r))
            => Hit(guard[r], t.id, Clock(r))

\* A refresh token rotated on the replica that minted it is rejected there up
\* to its nominal expiry.  (Not through the leeway after it: see
\* RotatedRefreshRejected.)
GuardCoversRefreshes ==
    \A r \in Replicas : \A t \in Refreshes :
        t.id \in Keys(guard[r]) /\ t.by = r /\ Clock(r) <= t.exp
            => Hit(guard[r], t.id, Clock(r))

(***************************************************************************)
(* The inductive invariant behind the two.  An entry's expiry is computed  *)
(* from the time of use, an artifact's from the time of minting; the first *)
(* is the later one because a request in progress holds an artifact that   *)
(* was already issued by its replica's clock.                              *)
(***************************************************************************)
MintedByNow ==
    \A t \in issued :
        /\ t.iat <= Clock(t.by)
        /\ t.use = "code" => t.exp = t.iat + CodeTTL
        /\ t.use = "refresh" => t.exp = t.iat + RefreshTTL

RequestsVerified ==
    \A p \in Busy :
        \/ /\ form[p].grant = "authorization_code"
           /\ form[p].tok.use = "code"
           /\ form[p].tok.iat <= Clock(ReplicaOf[p])
        \/ /\ form[p].grant = "refresh_token"
           /\ form[p].tok.use = "refresh"

Guarded(t, r) == t.use = "code" \/ (t.use = "refresh" /\ t.by = r)

EntriesOutlast ==
    \A r \in Replicas :
        /\ \A k \in Keys(guard[r]) : k < nextId
        /\ \A t \in issued :
              Guarded(t, r) /\ t.id \in Keys(guard[r])
                  => t.exp <= guard[r].items[t.id].exp

\* TypeOK, and what the properties above need to be inductive.
GuardInv == TypeOK /\ MintedByNow /\ RequestsVerified /\ EntriesOutlast

\* "Rotation: burn the presented token; a reused (already-rotated) token is
\* rejected": a refresh token is rotated into at most one successor.
RotatedRefreshRejected ==
    \A t \in Refreshes : Cardinality(GrantsOf(t)) <= 1

\* While a code lives, a replica opens more families for it than it serves
\* requests at a time only if the code's entry was evicted, which takes more
\* burned artifacts than the guard holds, or if some replica restarted: clocks
\* that differ and expired entries do not reopen a code.  (A request that
\* stalls between VerifyCode and SeenBefore until code and entry have both
\* expired is let through; the family it opens is issued after t.exp.)
ReopenedOnlyByEviction ==
    \A r \in Replicas : \A t \in Codes :
        Cardinality({g \in GrantsOf(t) : g.by = r /\ g.iat <= t.exp})
            > Cardinality({p \in Procs : ReplicaOf[p] = r})
        => restarts > 0 \/ Cardinality(burned[r]) > Capacity

\* The get-then-set race of SeenBefore is bounded: however the requests on a
\* replica interleave, a code opens at most one family per request slot, and
\* once more per slot after each restart.
RaceIsBounded ==
    \A t \in Codes :
        Cardinality(GrantsOf(t)) <= Cardinality(Procs) * (1 + restarts)

\* A refresh token is burned only to be rotated: no request that is refused
\* (a wrong client_id, say) costs the client its session.  A burned code is
\* different: the checks after the burn may leave it without a grant.
RefreshBurnedOnlyByRotation ==
    \A r \in Replicas : \A t \in Refreshes :
        t.id \in burned[r] =>
            \/ GrantsOf(t) # {}
            \/ \E p \in Busy : pc[p] = "issue" /\ form[p].tok = t

\* Everything issued goes back to one approved consent blob, and still names
\* its user, client, resource and scope: rotation neither widens nor drifts.
LineageKept ==
    \A t \in issued :
        t.use # "authreq" =>
            /\ \E b \in issued : /\ b.use = "authreq" /\ b.id = t.root
                                 /\ GrantOf(b.bind) = GrantOf(t.bind)
            /\ \E c \in Codes : c.root = t.root

\* A rotation family is one session: its tokens share their consent and there
\* is exactly one code that opened it.
FamilyIsOneSession ==
    \A t, u \in Refreshes :
        t.family = u.family =>
            /\ t.bind = u.bind /\ t.root = u.root
            /\ t.parent # u.parent =>
                  ~(\E c \in Codes : c.id = t.parent)
                  \/ ~(\E c \in Codes : c.id = u.parent)

\* Refresh lifetime is a sliding window: a token pair is minted only while its
\* code is within its lifetime, or its refresh token within its lifetime and
\* the leeway (every request being answered promptly).
SlidingWindow ==
    \A t \in Refreshes : \A from \in issued :
        from.id = t.parent =>
            t.iat <= from.exp + (IF from.use = "code" THEN 0 ELSE Leeway)

\* Replica clocks that differ by no more than the leeway.
Near(r, q) == Skew[r] <= Skew[q] + Leeway /\ Skew[q] <= Skew[r] + Leeway

\* An access or refresh token works on every replica during its whole life as
\* its own replica sees it, when the clocks are within the leeway.
LongLivedPortable ==
    \A t \in issued, r \in Replicas :
        Near(r, t.by) /\ Clock(t.by) <= t.exp =>
            /\ t.use = "refresh" => VerifyRefreshToken(t, Clock(r))
            /\ t.use = "access" /\ Config[r] = Config[t.by] =>
                  McpVerify(r, t) = 200

\* A token let through to the resource was approved, by a user the replica
\* allows, for that very resource and for every scope it demands, whatever
\* other resources the replicas' shared key signs for.
LetThroughAsApproved ==
    \A r \in Replicas : \A t \in issued :
        McpVerify(r, t) = 200 =>
            \E b \in issued : /\ b.use = "authreq" /\ b.id = t.root
                              /\ b.bind.resource = Config[r].resource
                              /\ b.bind.sub \in Config[r].allowed
                              /\ Config[r].required \subseteq b.bind.scope
                              /\ \E c \in Codes : c.root = b.id

\* Serving one request at a time, a replica keeps the promise of SingleUse.
CodeGrants == {g \in Refreshes : \E c \in Codes : c.id = g.parent}

Promise == INSTANCE SingleUse WITH
    codes    <- {c.id : c \in Codes},
    lapsed   <- {c.id : c \in {t \in Codes : Clock(t.by) > t.exp}},
    redeemed <- {g.parent : g \in CodeGrants},
    families <- {g.family : g \in CodeGrants}

PromiseKept == Promise!Spec
=============================================================================
