------------------------------- MODULE Lists -------------------------------
(* Lists as the repository uses them.  (SelectSeq takes an operator, about   *)
(* which nothing can be proved once and for all.)                            *)
EXTENDS Naturals, Sequences

(* What is left of a list when only the elements at these places stay, in    *)
(* their order.                                                              *)
Kept(list, places) ==
    LET kept[n \in 0 .. Len(list)] ==
            IF n = 0 THEN << >>
            ELSE IF n \in places THEN Append(kept[n - 1], list[n])
            ELSE kept[n - 1]
    IN  kept[Len(list)]
=============================================================================
