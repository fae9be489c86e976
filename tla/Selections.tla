------------------------------ MODULE Selections ------------------------------
(* Array.prototype.filter, for a test that is membership in a set: the     *)
(* elements of s that are in T, in order.                                  *)
EXTENDS Integers, Sequences

Kept(s, T) ==
  LET kept[i \in 0..Len(s)] ==
        IF i = 0 THEN <<>>
        ELSE IF s[i] \in T THEN Append(kept[i - 1], s[i]) ELSE kept[i - 1]
  IN kept[Len(s)]
=============================================================================
