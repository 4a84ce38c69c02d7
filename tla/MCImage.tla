------------------------------ MODULE MCImage ------------------------------
(***************************************************************************)
(* A small instance of the image cache: one image asked for with two       *)
(* Accept headers, answers of two sizes, and room for one large or two     *)
(* small ones in memory and on disk.                                       *)
(***************************************************************************)
EXTENDS ImageProperties, TLC

CONSTANTS b1, i1, jpeg, webp, h1, h2

MCFileOrder ==
    << [backend |-> b1, image |-> i1, accept |-> webp],
       [backend |-> b1, image |-> i1, accept |-> jpeg] >>

HandlerSymmetry == Permutations(Handlers)
=============================================================================
