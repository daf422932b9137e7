----------------------------- MODULE DedupCache -----------------------------
(***************************************************************************)
(* DedupCache as the code builds it: lru_order_ is a linked list of cells, *)
(* oldest first, and index_ maps a packet id to the list iterator of its   *)
(* cell.  A cell is a node of the list and keeps its address (Cell) for as *)
(* long as it is linked, which is what makes an iterator kept in index_    *)
(* valid or dangling.  The clock is the steady clock the two methods read. *)
(***************************************************************************)
EXTENDS Naturals, Sequences, FiniteSets

CONSTANTS
    PacketId, Capacity,
    Cell,       \* addresses of list nodes
    Ttl,        \* ttl_
    MaxClock    \* bound on the clock

\* There is a free list node whenever one is wanted: push_back never fails.
ASSUME DedupAssumption ==
    /\ Capacity \in Nat
    /\ Ttl \in Nat
    /\ MaxClock \in Nat
    /\ IsFiniteSet(Cell)
    /\ Cardinality(Cell) > Capacity

VARIABLES
    lru_order,      \* sequence of the linked cells
    entry,          \* what each cell holds; Free when it is not linked
    index,          \* packet id -> cell
    clock,          \* steady_clock
    last_seen       \* ghost: packet id -> when it was last inserted

cacheVars == <<lru_order, entry, index, clock, last_seen>>

Free == [packet_id |-> "none"]
Linked == {lru_order[i] : i \in 1..Len(lru_order)}

CacheInit ==
    /\ lru_order = << >>
    /\ entry = [c \in Cell |-> Free]
    /\ index = << >>
    /\ clock = 0
    /\ last_seen = << >>

Contains(p) == p \in DOMAIN index

Forgetting(f, p) == [q \in DOMAIN f \ {p} |-> f[q]]
Setting(f, p, v) == [q \in DOMAIN f \union {p} |-> IF q = p THEN v ELSE f[q]]

\* Mutant of Refresh: the cell is restamped but not spliced to the back.
RefreshInPlace(p) ==
    /\ Contains(p)
    /\ entry' = [entry EXCEPT ![index[p]].inserted_at = clock]
    /\ UNCHANGED <<lru_order, index>>

\* The list without its k-th cell.
Unlinked(k) ==
    [i \in 1..(Len(lru_order) - 1) |-> IF i < k THEN lru_order[i] ELSE lru_order[i + 1]]

\* Insert of an id that is there: splice its cell to the back, restamp it.
Refresh(p) ==
    LET c == index[p] IN
    /\ Contains(p)
    /\ \E k \in 1..Len(lru_order) :
         lru_order[k] = c /\ lru_order' = Append(Unlinked(k), c)
    /\ entry' = [entry EXCEPT ![c].inserted_at = clock]
    /\ UNCHANGED index

\* Mutant of Admit: the evicted id keeps its iterator in index_.
AdmitLeavingIterator(p) ==
    LET full  == Len(lru_order) >= Capacity
        front == Head(lru_order)
    IN
    /\ ~ Contains(p)
    /\ \E c \in Cell \ Linked :
         /\ lru_order' = Append(IF full THEN Tail(lru_order) ELSE lru_order, c)
         /\ entry' = [d \in Cell |->
                        IF d = c THEN [packet_id |-> p, inserted_at |-> clock]
                        ELSE IF full /\ d = front THEN Free ELSE entry[d]]
         /\ index' = Setting(index, p, c)

\* Mutant of Admit: one id more than the capacity is let in.
AdmitOneTooMany(p) ==
    LET full  == Cardinality(DOMAIN index) > Capacity
        front == Head(lru_order)
    IN
    /\ ~ Contains(p)
    /\ \E c \in Cell \ Linked :
         /\ lru_order' = Append(IF full THEN Tail(lru_order) ELSE lru_order, c)
         /\ entry' = [d \in Cell |->
                        IF d = c THEN [packet_id |-> p, inserted_at |-> clock]
                        ELSE IF full /\ d = front THEN Free ELSE entry[d]]
         /\ index' = Setting(IF full THEN Forgetting(index, entry[front].packet_id)
                             ELSE index, p, c)

\* Insert of a new id: a full cache first unlinks its front cell.
Admit(p) ==
    LET full  == Cardinality(DOMAIN index) >= Capacity /\ lru_order # << >>
        front == Head(lru_order)
    IN
    /\ ~ Contains(p)
    /\ \E c \in Cell \ Linked :
         /\ lru_order' = Append(IF full THEN Tail(lru_order) ELSE lru_order, c)
         /\ entry' = [d \in Cell |->
                        IF d = c THEN [packet_id |-> p, inserted_at |-> clock]
                        ELSE IF full /\ d = front THEN Free
                        ELSE entry[d]]
         /\ index' = Setting(IF full
                             THEN Forgetting(index, entry[front].packet_id)
                             ELSE index, p, c)

Insert(p) ==
    /\ IF Capacity = 0 THEN UNCHANGED <<lru_order, entry, index>>
                       ELSE Refresh(p) \/ Admit(p)
    /\ last_seen' = Setting(last_seen, p, clock)
    /\ UNCHANGED clock

Expired(c) == clock - entry[c].inserted_at > Ttl

\* The loop stops at the first cell from the front that has not expired.
SweepLength ==
    CHOOSE k \in 0..Len(lru_order) :
       /\ \A i \in 1..k : Expired(lru_order[i])
       /\ k < Len(lru_order) => ~ Expired(lru_order[k + 1])

SweptIds == {entry[lru_order[i]].packet_id : i \in 1..SweepLength}

EvictExpired ==
    /\ lru_order' = SubSeq(lru_order, SweepLength + 1, Len(lru_order))
    /\ index' = [q \in DOMAIN index \ SweptIds |-> index[q]]
    /\ entry' = [c \in Cell |->
                    IF c \in Linked /\ entry[c].packet_id \in SweptIds THEN Free
                    ELSE entry[c]]
    /\ UNCHANGED <<clock, last_seen>>

ClockAdvances ==
    /\ clock < MaxClock
    /\ clock' = clock + 1
    /\ UNCHANGED <<lru_order, entry, index, last_seen>>

CacheNext == EvictExpired \/ ClockAdvances \/ \E p \in PacketId : Insert(p)

CacheSpec == CacheInit /\ [][CacheNext]_cacheVars

-----------------------------------------------------------------------------
(* No dangling iterator: every iterator in index_ points at a linked cell  *)
(* that holds its id, and every linked cell is found through index_, so    *)
(* the splice in Insert and the erase in both eviction loops are safe.     *)
IteratorsValid ==
    /\ \A p \in DOMAIN index : index[p] \in Linked /\ entry[index[p]].packet_id = p
    /\ \A c \in Linked : /\ entry[c].packet_id \in DOMAIN index
                         /\ index[entry[c].packet_id] = c

(* EvictExpired stops at the first fresh entry, on the ground that the     *)
(* list is ordered by insertion time (dedup_cache.cpp:40-41): whenever a   *)
(* sweep comes, it leaves no expired id behind and drops no id inserted    *)
(* within the ttl.                                                         *)
SweepIsExact ==
    DOMAIN index \ SweptIds = {p \in DOMAIN index : clock - last_seen[p] <= Ttl}

(* The cache is the abstract one: the list read as ids is the recency      *)
(* order, an insertion keeps the Capacity newest, a sweep drops a prefix.  *)
Recency == [i \in 1..Len(lru_order) |-> entry[lru_order[i]].packet_id]

Abstract == INSTANCE SeenCache WITH recency <- Recency

ImplementsSeenCache == Abstract!Spec
=============================================================================
