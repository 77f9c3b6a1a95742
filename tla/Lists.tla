--------------------------------- MODULE Lists ---------------------------------
(***************************************************************************)
(* What the page does to its lists.                                         *)
(***************************************************************************)
EXTENDS Naturals, Sequences

(* The elements of s at the places in K, in their order (filter).           *)
Kept(s, K) ==
  LET upTo[n \in 0..Len(s)] ==
        IF n = 0 THEN <<>>
        ELSE IF n \in K THEN Append(upTo[n - 1], s[n]) ELSE upTo[n - 1]
  IN  upTo[Len(s)]
===============================================================================
