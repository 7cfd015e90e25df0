-------------------------------- MODULE Urls --------------------------------
(***************************************************************************)
(* The rules about URLs that clients and operators send in: redirect URIs  *)
(* and metadata URLs (internal/mcpauth/cimd.go), MCP_ISSUER, MCP_RESOURCE  *)
(* and the documents found through them (internal/mcpauth/mcpauth.go), and *)
(* the origin that the consent page may submit to (internal/utils/http.go).*)
(*                                                                         *)
(* A URL is the record that Go's url.Parse splits it into.  The host name  *)
(* is kept in lower case with a flag for any other spelling.  A path is    *)
(* the sequence of its segments: "/" is <<"">>, "/mcp/" is <<"mcp", "">>.  *)
(* A fragment may be missing, empty (a bare "#") or not.                   *)
(***************************************************************************)
EXTENDS Naturals, Sequences

NoPart == "absent"
Url(scheme, host, path) ==
    [scheme |-> scheme, userinfo |-> NoPart, host |-> host, upper |-> FALSE,
     port |-> "", path |-> path, query |-> "", fragment |-> NoPart]

NoUrl == Url("", "", <<>>)
HasHost(u) == u.host # "" \/ u.port # ""
Lower(u) == [u EXCEPT !.upper = FALSE]

\* strings.TrimRight(path, "/") and strings.Trim(path, "/").
TrimRight(path) ==
    LET last == {i \in 1..Len(path) : path[i] # ""}
    IN IF last = {} THEN <<>>
       ELSE SubSeq(path, 1, CHOOSE i \in last : \A j \in last : j <= i)

Trim(path) ==
    LET kept == {i \in 1..Len(path) : path[i] # ""}
    IN IF kept = {} THEN <<>>
       ELSE SubSeq(TrimRight(path), CHOOSE i \in kept : \A j \in kept : i <= j,
                   Len(TrimRight(path)))
-----------------------------------------------------------------------------
(***************************************************************************)
(* Redirect URIs and metadata URLs.                                        *)
(***************************************************************************)
Loopback(u) == u.host \in {"127.0.0.1", "::1", "localhost"}

ValidateRedirectURI_AnyHttp(u) ==
    HasHost(u) /\ u.fragment = NoPart /\ u.scheme \in {"https", "http"}

ValidateRedirectURI(u) ==
    /\ HasHost(u)
    /\ u.fragment = NoPart
    /\ u.scheme = "https" \/ (u.scheme = "http" /\ Loopback(u))

\* One of the listed URIs; a loopback URI may also differ from it in the port,
\* and then carries no userinfo.
MatchRedirectURI(listed, u) ==
    \/ u \in listed
    \/ /\ u.userinfo = NoPart /\ u.fragment \in {NoPart, ""} /\ Loopback(u)
       /\ \E w \in listed : /\ Loopback(w)
                            /\ w.scheme = u.scheme
                            /\ w.host = u.host /\ w.upper = u.upper
                            /\ w.path = u.path /\ w.query = u.query

ValidateCIMDURL(u) ==
    /\ u.scheme = "https" /\ HasHost(u)
    /\ u.userinfo = NoPart /\ u.fragment = NoPart
    /\ Trim(u.path) # <<>>

\* OriginOf: what the consent page's form-action is extended with.
OriginOf(u) ==
    [scheme |-> u.scheme, host |-> u.host, upper |-> u.upper, port |-> u.port]
-----------------------------------------------------------------------------
(***************************************************************************)
(* The configured URLs.                                                    *)
(***************************************************************************)
RequireHTTPSURL(u) ==
    u.scheme = "https" /\ HasHost(u) /\ u.fragment \in {NoPart, ""}

\* Scheme and host in lower case; userinfo is dropped.
NormalizeResource(u) ==
    [Lower(u) EXCEPT !.userinfo = NoPart, !.fragment = NoPart]

\* Whether a client's resource parameter is the configured one.
MatchesResource(resource, got) ==
    /\ got.scheme # "" /\ HasHost(got) /\ got.fragment \in {NoPart, ""}
    /\ NormalizeResource(got) = NormalizeResource(resource)

WellKnown(name) == <<".well-known", name>>

\* RFC 9728: the well-known suffix goes between the resource's host and path.
DerivePRMURL(resource) ==
    [Url("https", resource.host, WellKnown("oauth-protected-resource")
                                   \o TrimRight(resource.path))
     EXCEPT !.port = resource.port]

\* strings.TrimRight(issuer, "/").
IssuerOf(u) ==
    IF u.query = "" THEN [u EXCEPT !.path = TrimRight(@)] ELSE u
=============================================================================
