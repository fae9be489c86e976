----------------------------- MODULE BoundedLog -----------------------------
(* What a log aggregator promises of its memory: the last Capacity entries *)
(* it accepted, oldest first.                                              *)
EXTENDS Integers, Sequences

CONSTANTS Entries, Capacity
VARIABLE recent

Last(s) == SubSeq(s, IF Len(s) > Capacity THEN Len(s) - Capacity + 1 ELSE 1, Len(s))

Init == recent = <<>>
Accept(e) == recent' = Last(Append(recent, e))
Spec == Init /\ [][\E e \in Entries : Accept(e)]_recent
=============================================================================
