--------------------------------- MODULE Lists ---------------------------------
(***************************************************************************)
(* What the code does with its vectors when it throws entries out of them  *)
(* or shows some of them only.                                             *)
(***************************************************************************)
EXTENDS Naturals, Sequences

\* Vec::retain, and a filter that is collected: the entries at the positions of
\* keep, in the order they had.
Retain(list, keep) ==
  LET kept[n \in 0..Len(list)] ==
        IF n = 0 THEN <<>>
        ELSE IF n \in keep THEN Append(kept[n - 1], list[n])
        ELSE kept[n - 1]
  IN  kept[Len(list)]
=============================================================================
