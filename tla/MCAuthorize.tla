----------------------------- MODULE MCAuthorize -----------------------------
EXTENDS Authorize, TLC

CONSTANTS alice, bob, eve

\* A remote callback, the same without encryption, one on a host that is legal
\* but odd, and a loopback one that arrives on two ports.
Remote == Url("https", "app.example", <<"cb">>)
Odd == Url("https", "odd;example", <<"cb">>)
Clear == Url("http", "app.example", <<"cb">>)
Loop(port) == [Url("http", "localhost", <<"cb">>) EXCEPT !.port = port]
LoopbackUri == Loop("")

MCResource == Url("https", "mcp.example", <<"mcp">>)

Query(c, u, scope, state) ==
    [client |-> c, redirect |-> u, type |-> "code", challenge |-> "S",
     resource |-> MCResource, scope |-> scope, state |-> state]

MCScopes == <<"read", "write">>
MCListings == {{}, {Remote, Odd}, {LoopbackUri}, {Remote, Clear}}

\* One person with two e-mail addresses, of which one is on the allowlist.
MCSub == (alice :> "a") @@ (eve :> "a") @@ (bob :> "b")

Plain == Query("cimd", Remote, <<>>, "s1")

\* Flows with everything right, which differ in what they ask for.
GoodRequests == {
    Query("cimd", Remote, <<"read">>, "s1"),
    Query("dcr", Loop("5001"), <<"write", "read", "write">>, "s2")}

\* Each thing that can be wrong with a request, and the ways to be right.
AllRequests == GoodRequests \cup {
    Plain,
    [Plain EXCEPT !.type = "token"],
    [Plain EXCEPT !.challenge = Absent],
    [Plain EXCEPT !.resource.path = <<"mcp", "">>],
    [Plain EXCEPT !.resource.upper = TRUE, !.redirect = Odd],
    [Plain EXCEPT !.scope = <<"read", "admin">>],
    [Plain EXCEPT !.redirect = Clear],
    [Plain EXCEPT !.redirect = [LoopbackUri EXCEPT !.userinfo = "app.example"]],
    [Plain EXCEPT !.redirect = [LoopbackUri EXCEPT !.fragment = "top"]],
    [Plain EXCEPT !.redirect = Loop("5002"), !.state = Absent]}
=============================================================================
