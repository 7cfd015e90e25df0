------------------------------ MODULE SingleUse ------------------------------
(***************************************************************************)
(* What the authorization-code grant promises, without guard, clocks or    *)
(* requests: a code opens at most one rotation family, and none after the  *)
(* code has lapsed.                                                        *)
(***************************************************************************)
VARIABLES
    codes,      \* the codes minted
    lapsed,     \* those whose lifetime is over
    redeemed,   \* those that opened a family
    families    \* the rotation families opened

vars == <<codes, lapsed, redeemed, families>>

Init ==
    /\ codes = {}
    /\ lapsed = {}
    /\ redeemed = {}
    /\ families = {}

Approve ==
    /\ \E c \in codes' : c \notin codes /\ codes' = codes \union {c}
    /\ UNCHANGED <<lapsed, redeemed, families>>

\* Time may end the life of several codes at once.
Lapse ==
    /\ lapsed \subseteq lapsed' /\ lapsed' \subseteq codes
    /\ UNCHANGED <<codes, redeemed, families>>

Redeem ==
    /\ \E c \in codes \ (redeemed \union lapsed) :
          redeemed' = redeemed \union {c}
    /\ \E f \in families' : f \notin families /\ families' = families \union {f}
    /\ UNCHANGED <<codes, lapsed>>

Next == Approve \/ Lapse \/ Redeem

Spec == Init /\ [][Next]_vars
=============================================================================
