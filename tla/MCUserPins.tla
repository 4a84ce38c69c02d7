----------------------------- MODULE MCUserPins -----------------------------
(***************************************************************************)
(* Two users with a token and a device each, two backends, and one handler *)
(* that logs in, visits pages and is interrupted by an unpin.              *)
(***************************************************************************)
EXTENDS UserPins, TLC

CONSTANTS ada, bob, t1, t2, d1, d2, b1, b2, h1

MCUserOf   == (t1 :> ada) @@ (t2 :> bob)
MCDeviceOf == (t1 :> d1) @@ (t2 :> d2)

MCSymmetry == Permutations(Backends)
=============================================================================
