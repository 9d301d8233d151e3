---------------------------- MODULE KeptElements ----------------------------
(* The loop that goes over a list and keeps what it wants, in its order.   *)
EXTENDS Naturals, Sequences

\* The elements of s at the positions in T.
Keep(s, T) ==
  LET kept[i \in 0..Len(s)] ==
        IF i = 0 THEN << >>
        ELSE IF i \in T THEN Append(kept[i - 1], s[i]) ELSE kept[i - 1]
  IN kept[Len(s)]
=============================================================================
