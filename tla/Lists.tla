-------------------------------- MODULE Lists --------------------------------
(***************************************************************************)
(* Lists without recursion: the part of a list at a set of positions, and  *)
(* a list without one of its elements.                                     *)
(***************************************************************************)
EXTENDS Naturals, Sequences, FiniteSets

\* The elements at the positions of keep, in their order (SelectSeq without recursion).
Picked(list, keep) ==
    [i \in 1 .. Cardinality(keep) |->
       list[CHOOSE p \in keep : Cardinality({q \in keep : q < p}) = i - 1]]

Removed(list, k) == SubSeq(list, 1, k - 1) \o SubSeq(list, k + 1, Len(list))
=============================================================================
