-------------------------------- MODULE Lists --------------------------------
(***************************************************************************)
(* What the game does to its lists of characters and events: elements are  *)
(* taken off, and walks look for the first of those that matter.           *)
(***************************************************************************)
EXTENDS Naturals, Sequences, Functions

\* What is left of s when the elements of out are taken off.
Without(s, out) ==
  LET kept[n \in 0..Len(s)] ==
        IF n = 0 THEN <<>>
        ELSE IF s[n] \in out THEN kept[n-1] ELSE Append(kept[n-1], s[n])
  IN kept[Len(s)]

\* s from its end to its head.
Backward(s) == [k \in 1..Len(s) |-> s[Len(s) + 1 - k]]

\* The lists of ss, one behind the other.
Joined(ss) ==
  LET upto[n \in 0..Len(ss)] == IF n = 0 THEN <<>> ELSE upto[n-1] \o ss[n]
  IN upto[Len(ss)]

\* y is x, or comes after it; x and those who do; and the first of T.
Before(s, x, y) == \E j, k \in DOMAIN s : j <= k /\ s[j] = x /\ s[k] = y
From(s, x) == {y \in Range(s) : Before(s, x, y)}
Foremost(s, T) == CHOOSE x \in Range(s) \cap T : \A y \in Range(s) \cap T : Before(s, x, y)
=============================================================================
