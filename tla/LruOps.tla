------------------------------- MODULE LruOps -------------------------------
(***************************************************************************)
(* The bounded, least-recently-used memory of packet ids that DedupCache   *)
(* promises its callers, as operators on a sequence of ids: the front is   *)
(* the oldest id, the back the newest.  Variable-free, so that the cache's *)
(* specification and the forwarding pipeline share one definition.         *)
(***************************************************************************)
EXTENDS Naturals, Sequences

CONSTANTS
    PacketId,   \* the packet ids in use (uint32_t packet_id)
    Capacity    \* capacity_: how many ids are remembered at most

ASSUME CapacityAssumption == Capacity \in Nat

Ids(s) == {s[i] : i \in 1..Len(s)}

\* DedupCache::Contains
Contains(s, p) == p \in Ids(s)

\* s with its k-th element taken out
DropAt(s, k) == [i \in 1..(Len(s) - 1) |-> IF i < k THEN s[i] ELSE s[i + 1]]

Position(s, p) == CHOOSE k \in 1..Len(s) : s[k] = p

\* An id already there moves to the back, whatever the capacity.
Refresh(s, p) == Append(DropAt(s, Position(s, p)), p)

\* Mutant of Admit: one id more than the capacity is let in.
AdmitOneTooMany(s, p) == Append(IF Len(s) > Capacity THEN Tail(s) ELSE s, p)

\* A new id goes to the back; a full cache gives up its front first.
Admit(s, p) == Append(IF Len(s) >= Capacity THEN Tail(s) ELSE s, p)

\* DedupCache::Insert
Insert(s, p) ==
    IF Capacity = 0 THEN s
    ELSE IF Contains(s, p) THEN Refresh(s, p)
    ELSE Admit(s, p)

\* The ids that Insert(s, p) does not let the cache keep: the front of a full
\* cache, and p itself when there is no room for anything.
Evicted(s, p) ==
    IF Capacity = 0 THEN {p}
    ELSE {q \in Ids(s) : /\ ~ Contains(s, p)
                         /\ Len(s) >= Capacity
                         /\ q = Head(s)}

Distinct(s) == \A i, j \in 1..Len(s) : s[i] = s[j] => i = j
=============================================================================
