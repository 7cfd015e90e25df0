--------------------------- MODULE MCCimdResolver ---------------------------
(* Values for the constants of CimdResolver.                               *)
EXTENDS CimdResolver, TLC

CONSTANTS p1, p2

Symmetry == Permutations(Procs)

\* Two clients of hosts the policy trusts, one of another host, and URLs that
\* are no client_ids.
A == Url("https", "a.example", <<"client">>)
B == Url("https", "app.b.example", <<"client">>)
Stranger == Url("https", "c.example", <<"client">>)
Rejected == {[A EXCEPT !.scheme = "http"], [A EXCEPT !.path = <<"">>]}

MCClientIds == {A, B, Stranger} \cup Rejected
MCAllowedHosts ==
    {[host |-> "a.example", below |-> FALSE], [host |-> "b.example", below |-> TRUE]}
MCSubdomains == {<<"app.b.example", "b.example">>}

Secure == Url("https", "app.example", <<"cb">>)
Local == Url("http", "localhost", <<"cb">>)
Clear == Url("http", "app.example", <<"cb">>)

MaxAge(n) == [name |-> "max-age", secs |-> n]
NoStore == [name |-> "no-store", secs |-> 0]
Public == [name |-> "other", secs |-> 0]

\* A publishes versions whose lifetime is capped, the default, the floor, and
\* so long that it overflows, and one that is refused.  B serves A's document.
Good(ver, cc) == Document(ver, A, {Secure, Local}, TRUE, cc)
MCDocuments ==
    [u \in MCClientIds |->
        CASE u = A -> {Good(1, <<Public, MaxAge(7)>>), Good(2, <<>>),
                       Good(3, <<NoStore, MaxAge(3)>>),
                       Good(4, <<MaxAge(9), NoStore>>),
                       Document(5, A, {Secure, Clear}, TRUE, <<>>)}
          [] u = B -> {Good(1, <<Public, MaxAge(7)>>)}
          [] OTHER -> {}]
=============================================================================
