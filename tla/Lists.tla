------------------------------- MODULE Lists -------------------------------
(***************************************************************************)
(* What the components do to lists besides appending and popping: taking   *)
(* elements out (list.remove, key by key), and walking positions in        *)
(* ascending order.                                                        *)
(***************************************************************************)
EXTENDS Naturals, Sequences

(* The elements of s that are not in S, in the order they had.             *)
Leaving(s, S) ==
  LET kept[i \in 0..Len(s)] ==
        IF i = 0 THEN <<>>
        ELSE IF s[i] \in S THEN kept[i - 1] ELSE Append(kept[i - 1], s[i])
  IN  kept[Len(s)]

(* The elements of S, a set of numbers from 1 to n, in ascending order.    *)
Ascending(S, n) == Leaving([i \in 1..n |-> i], (1..n) \ S)
=============================================================================
