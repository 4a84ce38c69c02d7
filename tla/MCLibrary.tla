----------------------------- MODULE MCLibrary -----------------------------
(***************************************************************************)
(* Small instances of module Library for TLC.                              *)
(***************************************************************************)
EXTENDS LibraryProperties, TLC

CONSTANTS b1, t1, u1, u2

Get(t, u) == [backend |-> b1, token |-> t, url |-> u]

\* One path, with the token and without.
WithAndWithout == {Get(t1, u1), Get(None, u1)}

\* Two paths with the token.
TwoLists == {Get(t1, u1), Get(t1, u2)}

OnePath == <<u1>>

RequestSymmetry == Permutations(Requests)
=============================================================================
