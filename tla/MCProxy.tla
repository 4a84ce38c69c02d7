------------------------------ MODULE MCProxy ------------------------------
(***************************************************************************)
(* Small instances of module Proxy for TLC: two backends, one or two       *)
(* devices behind one address, two tokens, one or two handlers.            *)
(***************************************************************************)
EXTENDS AffinityProperties, TLC

CONSTANTS d1, d2, k1, a1, t1, t2, r1, r2

MCBackends == {1, 2}

\* The FNV-1a hash stands for any fixed placement: this one sends every key to
\* the first backend of the pool it is given.
MCHash(key, S) == CHOOSE b \in S : \A c \in S : b <= c

NoHint      == [d \in Devices |-> None]
HintTwo     == [d \in Devices |-> IF d = d1 THEN 2 ELSE None]
AllOwnedBy1 == [t \in Tokens |-> d1]
OneAnonKey  == [d \in Devices |-> k1]
OneAddr     == [d \in Devices |-> a1]

RequestSymmetry == Permutations(Requests)
=============================================================================
