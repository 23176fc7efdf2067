-------------------------------- MODULE Sift --------------------------------
(***************************************************************************)
(* SelectSeq for a set of positions instead of a test of items, by a       *)
(* recursive function: a form that proofs can take apart.                  *)
(***************************************************************************)
EXTENDS Integers, Sequences

(* The items of s at the positions in keep, in their order.                *)
Kept(s, keep) ==
    LET kept[n \in 0..Len(s)] == IF n = 0 THEN <<>>
                                 ELSE IF n \in keep THEN Append(kept[n - 1], s[n])
                                 ELSE kept[n - 1]
    IN  kept[Len(s)]

(* The items of s that are in S.                                           *)
Sifted(s, S) == Kept(s, {i \in DOMAIN s : s[i] \in S})
=============================================================================
