------------------------------ MODULE SeenCache ------------------------------
(***************************************************************************)
(* What a duplicate-suppression cache promises: it remembers the Capacity  *)
(* most recently inserted ids, newest last, except that a sweep may forget *)
(* some of the oldest.  There is no clock and no index structure here;     *)
(* DedupCache implements this.                                             *)
(***************************************************************************)
EXTENDS LruOps

VARIABLE recency    \* the remembered ids, oldest first, without repetition

\* The last n elements of s, or all of them when there are fewer.
LastN(s, n) == IF Len(s) <= n THEN s ELSE SubSeq(s, Len(s) - n + 1, Len(s))

Others(s, p) == IF Contains(s, p) THEN DropAt(s, Position(s, p)) ELSE s

Init == recency = << >>

Remember(p) == recency' = LastN(Append(Others(recency, p), p), Capacity)

Forget == \E k \in 1..Len(recency) :
             recency' = SubSeq(recency, k + 1, Len(recency))

Next == Forget \/ \E p \in PacketId : Remember(p)

Spec == Init /\ [][Next]_recency
=============================================================================
