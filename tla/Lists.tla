-------------------------------- MODULE Lists --------------------------------
(***************************************************************************)
(* What the two caches do to their lists: Go's container/list with an      *)
(* element removed.                                                        *)
(***************************************************************************)
EXTENDS Naturals, Sequences

\* The list without the elements in K, in the same order: SelectSeq, spelled out
\* because the prover knows nothing of it.
Deleted(s, K) ==
    LET kept[i \in 0..Len(s)] ==
          IF i = 0 THEN <<>>
          ELSE IF s[i] \in K THEN kept[i - 1] ELSE Append(kept[i - 1], s[i])
    IN  kept[Len(s)]
=============================================================================
