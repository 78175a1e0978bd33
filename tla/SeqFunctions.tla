------------------------------- MODULE SeqFunctions -------------------------------
(* Functions of sequences, by recursion over their length.                  *)
EXTENDS Naturals, Sequences

\* The elements of s that are in T, in their order.
Select(s, T) ==
    LET of[n \in 0 .. Len(s)] ==
            IF n = 0 THEN <<>>
            ELSE IF s[n] \in T THEN Append(of[n - 1], s[n]) ELSE of[n - 1]
    IN  of[Len(s)]

\* The sum of the weights of the first n elements of s, for every n.
Sums(s, weight) ==
    LET of[n \in 0 .. Len(s)] == IF n = 0 THEN 0 ELSE of[n - 1] + weight[s[n]]
    IN  of
=============================================================================
