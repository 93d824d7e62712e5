-------------------------------- MODULE Filter --------------------------------
(* `Array.filter`, as a recursive function so that it can be proved about. *)
EXTENDS Integers, Sequences

\* What is left of s when only the elements of S stay, in their order.
Filtered(s, S) ==
  LET left[n \in 0..Len(s)] ==
        IF n = 0 THEN <<>>
        ELSE IF s[n] \in S THEN Append(left[n - 1], s[n])
        ELSE left[n - 1]
  IN  left[Len(s)]
=============================================================================
