-------------------------- MODULE StructuresProofs --------------------------
(***************************************************************************)
(* The two data structures the forwarding pipeline stands on: the          *)
(* duplicate cache and the timer wheel.                                    *)
(***************************************************************************)
EXTENDS TimerWheel, DedupCache, SequenceTheorems, FiniteSetTheorems, WellFoundedInduction,
        TLAPS

-----------------------------------------------------------------------------
(***************************************************************************)
(* The duplicate cache. No iterator dangles, the sweep is exact, and the   *)
(* list with its index implements SeenCache, for any capacity, ttl and     *)
(* ids. The invariant relates the three representations an id has: its     *)
(* place in the list, its iterator and its time stamp.                     *)
(***************************************************************************)

Stamp == [packet_id : PacketId, inserted_at : Nat]

(* What the variables range over.                                          *)
CacheTypes ==
    /\ lru_order \in Seq(Cell)
    /\ entry \in [Cell -> Stamp \union {Free}]
    /\ DOMAIN index \subseteq PacketId
    /\ index \in [DOMAIN index -> Cell]
    /\ clock \in Nat
    /\ DOMAIN last_seen \subseteq PacketId
    /\ last_seen \in [DOMAIN last_seen -> Nat]

(* A cell is linked once, and what is linked holds an entry.               *)
LinkedOnce ==
    /\ Len(lru_order) <= Capacity
    /\ \A i, j \in 1..Len(lru_order) : lru_order[i] = lru_order[j] => i = j
    /\ \A i \in 1..Len(lru_order) : entry[lru_order[i]] \in Stamp

(* An entry carries the time of the last insertion of its id.              *)
StampedLast ==
    \A p \in DOMAIN index :
       p \in DOMAIN last_seen /\ entry[index[p]].inserted_at = last_seen[p]

(* The list is in order of insertion: what EvictExpired relies on.         *)
InInsertionOrder ==
    /\ \A i, j \in 1..Len(lru_order) :
         i < j => entry[lru_order[i]].inserted_at <= entry[lru_order[j]].inserted_at
    /\ \A i \in 1..Len(lru_order) : entry[lru_order[i]].inserted_at <= clock

CacheInv ==
    /\ CacheTypes /\ LinkedOnce /\ IteratorsValid /\ StampedLast /\ InInsertionOrder

(* The cache as its constructor leaves it, empty, satisfies the invariant. *)
LEMMA CacheInitially == CacheInit => CacheInv
<1> SUFFICES ASSUME CacheInit PROVE CacheInv
  OBVIOUS
<1>1. Len(lru_order) = 0 /\ DOMAIN index = {} /\ DOMAIN last_seen = {}
  BY DEF CacheInit
<1>2. CacheTypes
  BY DEF CacheInit, CacheTypes
<1> QED
  BY <1>1, <1>2, DedupAssumption
     DEF CacheInv, LinkedOnce, IteratorsValid, Linked, StampedLast, InInsertionOrder

(* The iterators, position by position.                                    *)
LEMMA Positions ==
    ASSUME CacheInv
    PROVE  /\ Len(lru_order) \in Nat /\ Capacity \in Nat
           /\ \A i \in 1..Len(lru_order) :
                /\ lru_order[i] \in Cell
                /\ entry[lru_order[i]].packet_id \in DOMAIN index
                /\ index[entry[lru_order[i]].packet_id] = lru_order[i]
           /\ \A i, j \in 1..Len(lru_order) :
                entry[lru_order[i]].packet_id = entry[lru_order[j]].packet_id => i = j
           /\ \A p \in DOMAIN index : \E i \in 1..Len(lru_order) :
                index[p] = lru_order[i] /\ entry[lru_order[i]].packet_id = p
<1>1. /\ Len(lru_order) \in Nat /\ Capacity \in Nat
      /\ \A i \in 1..Len(lru_order) : lru_order[i] \in Cell
  BY DedupAssumption, ElementOfSeq, LenProperties DEF CacheInv, CacheTypes
<1>2. \A i \in 1..Len(lru_order) : /\ entry[lru_order[i]].packet_id \in DOMAIN index
                                   /\ index[entry[lru_order[i]].packet_id] = lru_order[i]
  BY DEF CacheInv, IteratorsValid, Linked
<1>3. \A p \in DOMAIN index : \E i \in 1..Len(lru_order) :
         index[p] = lru_order[i] /\ entry[lru_order[i]].packet_id = p
  BY DEF CacheInv, IteratorsValid, Linked
<1>4. \A i, j \in 1..Len(lru_order) :
         entry[lru_order[i]].packet_id = entry[lru_order[j]].packet_id => i = j
  BY <1>2 DEF CacheInv, LinkedOnce
<1> QED
  BY <1>1, <1>2, <1>3, <1>4

(* There are as many iterators as linked cells.                            *)
LEMMA IndexSize ==
    ASSUME CacheInv
    PROVE  Cardinality(DOMAIN index) = Len(lru_order)
<1> DEFINE n == Len(lru_order)
           f == [i \in 1..n |-> entry[lru_order[i]].packet_id]
<1>1. f \in Bijection(1..n, DOMAIN index)
  <2>1. f \in [1..n -> DOMAIN index]
    BY Positions
  <2>2. f \in Injection(1..n, DOMAIN index)
    BY <2>1, Positions DEF Injection, IsInjective
  <2>3. f \in Surjection(1..n, DOMAIN index)
    BY <2>1, Positions DEF Surjection
  <2> QED BY <2>2, <2>3 DEF Bijection
<1>2. IsFiniteSet(1..n) /\ Cardinality(1..n) = n
  <2>0. 1 \in Int /\ n \in Int /\ n \in Nat
    BY Positions
  <2>1. /\ IsFiniteSet(1..n)
        /\ Cardinality(1..n) = IF 1 > n THEN 0 ELSE n - 1 + 1
    BY <2>0, FS_Interval, Zenon
  <2> QED BY <2>0, <2>1
<1>3. Cardinality(DOMAIN index) = n
  <2> HIDE DEF f
  <2>1. ExistsBijection(1..n, DOMAIN index)
    BY <1>1 DEF ExistsBijection
  <2> QED BY <1>2, <2>1, FS_Bijection
<1> QED
  BY <1>3

(* What the splice of Refresh does to the list.                            *)
LEMMA Refreshed ==
    ASSUME CacheInv, NEW p \in PacketId, Refresh(p)
    PROVE  \E k \in 1..Len(lru_order) :
             /\ lru_order[k] = index[p] /\ entry[lru_order[k]].packet_id = p
             /\ lru_order' \in Seq(Cell) /\ Len(lru_order') = Len(lru_order)
             /\ \A i \in 1..(Len(lru_order) - 1) :
                  lru_order'[i] = IF i < k THEN lru_order[i] ELSE lru_order[i + 1]
             /\ lru_order'[Len(lru_order)] = lru_order[k]
<1> DEFINE n == Len(lru_order)
<1>1. PICK k \in 1..n : lru_order[k] = index[p] /\ lru_order' = Append(Unlinked(k), index[p])
  BY DEF Refresh
<1>2. n \in Nat /\ n - 1 \in Nat /\ index[p] \in Cell /\ p \in DOMAIN index
  BY <1>1, Positions DEF CacheInv, CacheTypes, Refresh, Contains
<1>3. entry[lru_order[k]].packet_id = p
  BY <1>1, <1>2 DEF CacheInv, IteratorsValid
<1> DEFINE t == Unlinked(k)
<1>4. \A i \in 1..(n - 1) : i \in 1..n /\ i + 1 \in 1..n
  BY <1>2
<1>5. t \in [1..(n - 1) -> Cell]
  BY <1>4, Positions DEF Unlinked
<1>6. t \in Seq(Cell) /\ Len(t) = n - 1
  BY <1>2, <1>5, SeqDef, LenProperties
<1>7. \A i \in 1..(n - 1) : t[i] = IF i < k THEN lru_order[i] ELSE lru_order[i + 1]
  BY DEF Unlinked
<1> HIDE DEF t
<1>8. /\ Append(t, index[p]) \in Seq(Cell) /\ Len(Append(t, index[p])) = n
      /\ \A i \in 1..(n - 1) : Append(t, index[p])[i] = t[i]
      /\ Append(t, index[p])[n] = index[p]
  BY <1>2, <1>6, AppendProperties
<1> QED
  BY <1>1, <1>3, <1>7, <1>8 DEF t

(* Insert of an id that is there keeps every iterator valid: splice moves  *)
(* the list node, it does not make a new one.                              *)
LEMMA RefreshKeeps ==
    ASSUME CacheInv, NEW p \in PacketId, Refresh(p),
           last_seen' = Setting(last_seen, p, clock), clock' = clock
    PROVE  CacheInv'
<1> DEFINE n == Len(lru_order)
<1>1. PICK k \in 1..n :
             /\ lru_order[k] = index[p] /\ entry[lru_order[k]].packet_id = p
             /\ lru_order' \in Seq(Cell) /\ Len(lru_order') = n
             /\ \A i \in 1..(n - 1) :
                  lru_order'[i] = IF i < k THEN lru_order[i] ELSE lru_order[i + 1]
             /\ lru_order'[n] = lru_order[k]
  BY Refreshed
<1>2. n \in Nat /\ k \in 1..n /\ p \in DOMAIN index /\ index' = index
  BY Positions DEF Refresh, Contains
<1>3. /\ entry' \in [Cell -> Stamp \union {Free}]
      /\ \A c \in Cell : c # lru_order[k] => entry'[c] = entry[c]
      /\ entry'[lru_order[k]] = [packet_id |-> p, inserted_at |-> clock]
  <2>1. entry' = [entry EXCEPT ![lru_order[k]].inserted_at = clock]
    BY <1>1 DEF Refresh
  <2>2. entry[lru_order[k]] \in Stamp /\ clock \in Nat /\ lru_order[k] \in Cell
    BY Positions DEF CacheInv, CacheTypes, LinkedOnce
  <2>3. entry[lru_order[k]] = [packet_id |-> p, inserted_at |-> entry[lru_order[k]].inserted_at]
    BY <1>1, <2>2 DEF Stamp
  <2>4. [entry[lru_order[k]] EXCEPT !.inserted_at = clock] = [packet_id |-> p, inserted_at |-> clock]
    BY <2>3
  <2>5. entry \in [Cell -> Stamp \union {Free}]
    BY DEF CacheInv, CacheTypes
  <2>6. entry' = [entry EXCEPT ![lru_order[k]] = [packet_id |-> p, inserted_at |-> clock]]
    BY <2>1, <2>4
  <2>7. [packet_id |-> p, inserted_at |-> clock] \in Stamp
    BY <2>2 DEF Stamp
  <2> QED BY <2>2, <2>5, <2>6, <2>7
<1> HIDE DEF n
<1>4. \A i \in 1..n : \/ i = n /\ lru_order'[i] = lru_order[k]
                      \/ i < n /\ i < k /\ lru_order'[i] = lru_order[i]
                      \/ i < n /\ i >= k /\ lru_order'[i] = lru_order[i + 1]
  BY <1>1, <1>2
<1>s. \A i \in 1..n : \E j \in 1..n :
         /\ lru_order'[i] = lru_order[j]
         /\ \/ i = n /\ j = k
            \/ i < n /\ i < k /\ j = i
            \/ i < n /\ i >= k /\ j = i + 1
  BY <1>2, <1>4
<1>5. \A i, j \in 1..n : lru_order[i] = lru_order[j] => i = j
  BY DEF CacheInv, LinkedOnce, n
<1>6. \A j \in 1..n : /\ lru_order[j] \in Cell /\ entry[lru_order[j]] \in Stamp
                      /\ entry'[lru_order[j]] \in Stamp
                      /\ entry'[lru_order[j]].packet_id = entry[lru_order[j]].packet_id
                      /\ j # k => entry'[lru_order[j]] = entry[lru_order[j]]
  <2>1. \A j \in 1..n : lru_order[j] \in Cell /\ entry[lru_order[j]] \in Stamp
    BY Positions DEF CacheInv, LinkedOnce, n
  <2>2. [packet_id |-> p, inserted_at |-> clock] \in Stamp
    BY DEF CacheInv, CacheTypes, Stamp
  <2> QED BY <1>1, <1>2, <1>3, <1>5, <2>1, <2>2
<1>7. CacheTypes'
  <2>1. /\ DOMAIN last_seen' \subseteq PacketId
        /\ last_seen' \in [DOMAIN last_seen' -> Nat]
    BY DEF CacheInv, CacheTypes, Setting
  <2> QED BY <1>1, <1>2, <1>3, <2>1 DEF CacheInv, CacheTypes
<1>8. LinkedOnce'
  <2>1. \A i, j \in 1..n : lru_order'[i] = lru_order'[j] => i = j
    BY <1>2, <1>s, <1>5
  <2>2. \A i \in 1..n : entry'[lru_order'[i]] \in Stamp
    BY <1>s, <1>6
  <2> QED BY <1>1, <2>1, <2>2 DEF CacheInv, LinkedOnce, n
<1>9. Linked' = Linked
  <2>1. Linked' = {lru_order'[i] : i \in 1..n} /\ Linked = {lru_order[i] : i \in 1..n}
    BY <1>1 DEF Linked, n
  <2>2. \A j \in 1..n : \E i \in 1..n : lru_order'[i] = lru_order[j]
    <3> SUFFICES ASSUME NEW j \in 1..n PROVE \E i \in 1..n : lru_order'[i] = lru_order[j]
      OBVIOUS
    <3>1. CASE j = k
      BY <1>1, <1>2, <3>1
    <3>2. CASE j < k
      BY <1>1, <1>2, <3>2
    <3>3. CASE j > k
      <4>1. j - 1 \in 1..(n - 1) /\ ~ (j - 1 < k) /\ (j - 1) + 1 = j /\ j - 1 \in 1..n
        BY <1>2, <3>3
      <4> QED BY <1>1, <4>1
    <3> QED BY <1>2, <3>1, <3>2, <3>3
  <2>3. Linked' \subseteq Linked
    BY <1>s, <2>1
  <2>4. Linked \subseteq Linked'
    BY <2>1, <2>2
  <2> QED BY <2>3, <2>4
<1>10. IteratorsValid'
  <2>1. \A c \in Linked : c \in Cell /\ entry'[c].packet_id = entry[c].packet_id
    BY <1>6 DEF Linked, n
  <2> QED BY <1>2, <1>9, <2>1 DEF CacheInv, IteratorsValid
<1>11. StampedLast'
  <2> SUFFICES ASSUME NEW q \in DOMAIN index
               PROVE  q \in DOMAIN last_seen' /\ entry'[index[q]].inserted_at = last_seen'[q]
    BY <1>2 DEF StampedLast
  <2>1. q \in DOMAIN last_seen /\ entry[index[q]].inserted_at = last_seen[q]
    BY DEF CacheInv, StampedLast
  <2>2. last_seen'[q] = IF q = p THEN clock ELSE last_seen[q]
    BY <2>1 DEF Setting
  <2>3. q \in DOMAIN last_seen'
    BY <2>1 DEF Setting
  <2>4. CASE q = p
    BY <1>1, <1>3, <2>2, <2>3, <2>4
  <2>5. CASE q # p
    <3>1. index[q] \in Cell /\ index[q] # lru_order[k]
      BY <1>1, <2>5, Positions DEF n
    <3> QED BY <1>3, <2>1, <2>2, <2>3, <2>5, <3>1
  <2> QED BY <2>4, <2>5
<1>12. InInsertionOrder'
  <2>0. /\ clock \in Nat
        /\ \A i, j \in 1..n :
             i < j => entry[lru_order[i]].inserted_at <= entry[lru_order[j]].inserted_at
        /\ \A i \in 1..n : /\ entry[lru_order[i]].inserted_at \in Nat
                           /\ entry[lru_order[i]].inserted_at <= clock
    BY <1>6 DEF CacheInv, CacheTypes, InInsertionOrder, Stamp, n
  <2>1. \A i \in 1..n : /\ entry'[lru_order'[i]].inserted_at \in Nat
                        /\ entry'[lru_order'[i]].inserted_at <= clock
    BY <1>s, <1>3, <1>6, <2>0
  <2>2. entry'[lru_order'[n]].inserted_at = clock
    BY <1>1, <1>2, <1>3
  <2>3. ASSUME NEW i \in 1..n, NEW j \in 1..n, i < j
        PROVE  entry'[lru_order'[i]].inserted_at <= entry'[lru_order'[j]].inserted_at
    <3>1. CASE j = n
      BY <2>1, <2>2, <3>1
    <3>2. CASE j # n
      <4>1. PICK a \in 1..n : /\ lru_order'[i] = lru_order[a]
                              /\ \/ i < k /\ a = i
                                 \/ i >= k /\ a = i + 1
        BY <1>2, <1>s, <2>3, <3>2
      <4>2. PICK b \in 1..n : /\ lru_order'[j] = lru_order[b]
                              /\ \/ j < k /\ b = j
                                 \/ j >= k /\ b = j + 1
        BY <1>2, <1>s, <2>3, <3>2
      <4>3. a < b /\ a # k /\ b # k
        BY <1>2, <2>3, <4>1, <4>2
      <4> QED BY <1>6, <2>0, <4>1, <4>2, <4>3
    <3> QED BY <3>1, <3>2
  <2> QED BY <1>1, <2>1, <2>3 DEF InInsertionOrder
<1> QED
  BY <1>7, <1>8, <1>10, <1>11, <1>12 DEF CacheInv

-----------------------------------------------------------------------------
(* Every nonempty set of positions has a first one.                        *)
LEMMA FirstOf ==
    ASSUME NEW T, T \subseteq Nat, T # {}
    PROVE  \E x \in T : \A y \in T : x <= y
<1>1. \E x \in T : \A y \in T : ~ (<<y, x>> \in OpToRel(<, Nat))
  BY NatLessThanWellFounded, WFMin
<1>2. \A x, y \in Nat : y < x => <<y, x>> \in OpToRel(<, Nat)
  BY DEF OpToRel
<1>3. \A x, y \in Nat : y < x \/ x <= y
  OBVIOUS
<1>4. \E x \in T : \A y \in T : ~ (y < x)
  BY <1>1, <1>2, Zenon
<1> QED
  BY <1>3, <1>4

(* The sweep ends somewhere: at the first cell that has not expired.       *)
LEMMA SweepEnds ==
    ASSUME CacheInv
    PROVE  /\ SweepLength \in 0..Len(lru_order)
           /\ \A i \in 1..SweepLength : Expired(lru_order[i])
           /\ SweepLength < Len(lru_order) => ~ Expired(lru_order[SweepLength + 1])
<1> DEFINE n == Len(lru_order)
           T == {i \in 1..n : ~ Expired(lru_order[i])}
<1>0. n \in Nat
  BY Positions
<1>1. \E k \in 0..n : /\ \A i \in 1..k : Expired(lru_order[i])
                      /\ k < n => ~ Expired(lru_order[k + 1])
  <2>1. CASE T = {}
    <3>1. \A i \in 1..n : Expired(lru_order[i])
      BY <2>1
    <3> QED BY <1>0, <3>1
  <2>2. CASE T # {}
    <3>1. PICK m \in T : \A y \in T : m <= y
      <4>1. T \subseteq Nat
        BY <1>0
      <4> HIDE DEF T
      <4> QED BY <2>2, <4>1, FirstOf
    <3>2. m \in 1..n /\ ~ Expired(lru_order[m]) /\ m - 1 \in 0..n /\ (m - 1) + 1 = m
      BY <1>0, <3>1
    <3>3. \A i \in 1..(m - 1) : i \in 1..n /\ ~ (m <= i)
      BY <1>0, <3>2
    <3>4. \A i \in 1..(m - 1) : Expired(lru_order[i])
      BY <3>1, <3>3
    <3> QED BY <3>2, <3>4
  <2> QED BY <2>1, <2>2
<1> QED
  BY <1>1 DEF SweepLength

-----------------------------------------------------------------------------
(* What Admit does to the list and the index: off cells, one when the      *)
(* cache is full and none otherwise, leave the front, and a cell that was  *)
(* not linked joins the back.                                              *)
LEMMA Admitted ==
    ASSUME CacheInv, NEW p \in PacketId, Admit(p), Capacity # 0
    PROVE  \E c \in Cell \ Linked, off \in {0, 1} :
             /\ off = 1 <=> Len(lru_order) = Capacity
             /\ off <= Len(lru_order)
             /\ lru_order' \in Seq(Cell)
             /\ Len(lru_order') = Len(lru_order) - off + 1
             /\ \A i \in 1..(Len(lru_order) - off) : lru_order'[i] = lru_order[i + off]
             /\ lru_order'[Len(lru_order) - off + 1] = c
             /\ entry' \in [Cell -> Stamp \union {Free}]
             /\ entry'[c] = [packet_id |-> p, inserted_at |-> clock]
             /\ \A i \in 1..Len(lru_order) :
                  i > off => entry'[lru_order[i]] = entry[lru_order[i]]
             /\ DOMAIN index' = {p} \union {q \in DOMAIN index :
                                   off = 1 => q # entry[lru_order[1]].packet_id}
             /\ index'[p] = c
             /\ \A q \in DOMAIN index' : q # p => index'[q] = index[q]
<1> DEFINE n == Len(lru_order)
           full == Cardinality(DOMAIN index) >= Capacity /\ lru_order # << >>
           front == Head(lru_order)
<1>0. /\ n \in Nat /\ Capacity \in Nat /\ n <= Capacity /\ lru_order \in Seq(Cell)
      /\ Cardinality(DOMAIN index) = n
  BY Positions, IndexSize DEF CacheInv, CacheTypes, LinkedOnce
<1>1. PICK c \in Cell \ Linked :
         /\ lru_order' = Append(IF full THEN Tail(lru_order) ELSE lru_order, c)
         /\ entry' = [d \in Cell |->
                        IF d = c THEN [packet_id |-> p, inserted_at |-> clock]
                        ELSE IF full /\ d = front THEN Free
                        ELSE entry[d]]
         /\ index' = Setting(IF full
                             THEN Forgetting(index, entry[front].packet_id)
                             ELSE index, p, c)
  BY DEF Admit
<1>2. full <=> n = Capacity
  BY <1>0, EmptySeq
<1>3. [packet_id |-> p, inserted_at |-> clock] \in Stamp
  BY DEF CacheInv, CacheTypes, Stamp
<1>4. /\ entry' \in [Cell -> Stamp \union {Free}]
      /\ entry'[c] = [packet_id |-> p, inserted_at |-> clock]
  BY <1>1, <1>3 DEF CacheInv, CacheTypes
<1>5. \A i \in 1..n : lru_order[i] \in Cell /\ lru_order[i] # c
  BY Positions DEF Linked
<1>6. CASE full
  <2>1. n >= 1 /\ front = lru_order[1] /\ lru_order # << >> /\ n = Capacity
    <3>1. lru_order # << >> /\ n = Capacity
      BY <1>2, <1>6
    <3>2. n >= 1
      BY <1>0, <3>1, EmptySeq
    <3> QED BY <1>0, <3>1, <3>2, HeadTailProperties
  <2> DEFINE t == Tail(lru_order)
  <2>2. t \in Seq(Cell) /\ Len(t) = n - 1 /\ \A i \in 1..(n - 1) : t[i] = lru_order[i + 1]
    BY <1>0, <2>1, HeadTailProperties
  <2>3. lru_order' = Append(t, c)
    BY <1>1, <1>6
  <2> HIDE DEF t
  <2>4. /\ lru_order' \in Seq(Cell) /\ Len(lru_order') = n - 1 + 1
        /\ \A i \in 1..(n - 1) : lru_order'[i] = lru_order[i + 1]
        /\ lru_order'[n - 1 + 1] = c
    BY <1>0, <1>1, <2>2, <2>3, AppendProperties
  <2>5. \A i \in 1..n : i > 1 => entry'[lru_order[i]] = entry[lru_order[i]]
    <3>1. \A i \in 1..n : i > 1 => lru_order[i] # lru_order[1]
      BY <1>0, <2>1 DEF CacheInv, LinkedOnce
    <3> QED BY <1>1, <1>5, <2>1, <3>1
  <2>6. /\ DOMAIN index' = {p} \union {q \in DOMAIN index : q # entry[lru_order[1]].packet_id}
        /\ index'[p] = c
        /\ \A q \in DOMAIN index' : q # p => index'[q] = index[q]
    BY <1>1, <1>6, <2>1 DEF Setting, Forgetting
  <2> HIDE DEF n, full, front
  <2> QED
    BY <1>0, <1>2, <1>4, <1>6, <2>1, <2>4, <2>5, <2>6 DEF n
<1>7. CASE ~ full
  <2>1. lru_order' = Append(lru_order, c)
    BY <1>1, <1>7
  <2>2. /\ lru_order' \in Seq(Cell) /\ Len(lru_order') = n + 1
        /\ \A i \in 1..n : lru_order'[i] = lru_order[i]
        /\ lru_order'[n + 1] = c
    BY <1>0, <1>1, <2>1, AppendProperties
  <2>3. \A i \in 1..n : entry'[lru_order[i]] = entry[lru_order[i]]
    BY <1>1, <1>5, <1>7
  <2>4. /\ DOMAIN index' = {p} \union DOMAIN index
        /\ index'[p] = c
        /\ \A q \in DOMAIN index' : q # p => index'[q] = index[q]
    BY <1>1, <1>7 DEF Setting, Forgetting
  <2> HIDE DEF n, full, front
  <2>5. n - 0 = n /\ n # Capacity /\ \A i \in 1..n : i + 0 = i
    BY <1>0, <1>2, <1>7
  <2> QED
    BY <1>0, <1>4, <2>2, <2>3, <2>4, <2>5 DEF n
<1> QED
  BY <1>6, <1>7

(* Insert of a new id, with or without the eviction of the front, keeps    *)
(* the invariant: the evicted id leaves index_ together with its cell.     *)
LEMMA AdmitKeeps ==
    ASSUME CacheInv, NEW p \in PacketId, Admit(p), Capacity # 0,
           last_seen' = Setting(last_seen, p, clock), clock' = clock
    PROVE  CacheInv'
<1> DEFINE n == Len(lru_order)
<1>1. PICK c \in Cell \ Linked, off \in {0, 1} :
             /\ off = 1 <=> n = Capacity
             /\ off <= n
             /\ lru_order' \in Seq(Cell)
             /\ Len(lru_order') = n - off + 1
             /\ \A i \in 1..(n - off) : lru_order'[i] = lru_order[i + off]
             /\ lru_order'[n - off + 1] = c
             /\ entry' \in [Cell -> Stamp \union {Free}]
             /\ entry'[c] = [packet_id |-> p, inserted_at |-> clock]
             /\ \A i \in 1..n : i > off => entry'[lru_order[i]] = entry[lru_order[i]]
             /\ DOMAIN index' = {p} \union {q \in DOMAIN index :
                                   off = 1 => q # entry[lru_order[1]].packet_id}
             /\ index'[p] = c
             /\ \A q \in DOMAIN index' : q # p => index'[q] = index[q]
  BY Admitted
<1>2. /\ n \in Nat /\ Capacity \in Nat /\ n <= Capacity /\ n - off \in Nat
      /\ p \notin DOMAIN index /\ clock \in Nat
  <2>1. n \in Nat /\ Capacity \in Nat /\ n <= Capacity
    BY Positions DEF CacheInv, LinkedOnce
  <2>2. p \notin DOMAIN index /\ clock \in Nat
    BY DEF CacheInv, CacheTypes, Admit, Contains
  <2>3. (off = 0 \/ off = 1) /\ off <= n
    BY <1>1
  <2> QED BY <2>1, <2>2, <2>3
<1>3. \A i \in 1..n : /\ lru_order[i] \in Cell /\ lru_order[i] # c
                      /\ entry[lru_order[i]] \in Stamp
                      /\ entry[lru_order[i]].packet_id \in DOMAIN index
                      /\ index[entry[lru_order[i]].packet_id] = lru_order[i]
  BY <1>1, Positions DEF CacheInv, LinkedOnce, Linked
<1>4. \A i, j \in 1..n : /\ lru_order[i] = lru_order[j] => i = j
                         /\ entry[lru_order[i]].packet_id = entry[lru_order[j]].packet_id => i = j
  BY Positions DEF CacheInv, LinkedOnce
<1>n. Len(lru_order') = n - off + 1
  BY <1>1
<1>p. \A q \in DOMAIN index : \E i \in 1..n :
         index[q] = lru_order[i] /\ entry[lru_order[i]].packet_id = q
  BY Positions
<1>t. /\ \A i, j \in 1..n :
           i < j => entry[lru_order[i]].inserted_at <= entry[lru_order[j]].inserted_at
      /\ \A i \in 1..n : entry[lru_order[i]].inserted_at <= clock
  BY DEF CacheInv, InInsertionOrder
<1> HIDE DEF n
<1>5. \A i \in 1..(n - off + 1) :
         \/ i = n - off + 1 /\ lru_order'[i] = c
         \/ i \in 1..(n - off) /\ i + off \in 1..n /\ lru_order'[i] = lru_order[i + off]
            /\ i + off > off /\ entry'[lru_order'[i]] = entry[lru_order[i + off]]
  BY <1>1, <1>2
<1>6. [packet_id |-> p, inserted_at |-> clock] \in Stamp
  BY <1>2 DEF Stamp
<1>7. CacheTypes'
  <2>1. /\ DOMAIN last_seen' \subseteq PacketId
        /\ last_seen' \in [DOMAIN last_seen' -> Nat]
    BY DEF CacheInv, CacheTypes, Setting
  <2>2. DOMAIN index' \subseteq PacketId
    BY <1>1 DEF CacheInv, CacheTypes
  <2>3. index' \in [DOMAIN index' -> Cell]
    <3>1. \A q \in DOMAIN index' : index'[q] \in Cell
      BY <1>1 DEF CacheInv, CacheTypes
    <3>2. index' = [q \in DOMAIN index' |-> index'[q]]
      BY <1>1 DEF Admit, Setting
    <3> QED BY <3>1, <3>2
  <2> QED BY <1>1, <1>2, <2>1, <2>2, <2>3 DEF CacheInv, CacheTypes
<1>8. LinkedOnce'
  <2>1. n - off + 1 <= Capacity
    BY <1>1, <1>2
  <2>2. \A i, j \in 1..(n - off + 1) : lru_order'[i] = lru_order'[j] => i = j
    BY <1>2, <1>3, <1>4, <1>5
  <2>3. \A i \in 1..(n - off + 1) : entry'[lru_order'[i]] \in Stamp
    BY <1>1, <1>3, <1>5, <1>6
  <2> QED BY <1>n, <2>1, <2>2, <2>3 DEF LinkedOnce
<1>9. IteratorsValid'
  <2>1. Linked' = {lru_order'[i] : i \in 1..(n - off + 1)}
    BY <1>n DEF Linked
  <2>2. c \in Linked'
    BY <1>1, <1>2, <2>1
  <2>3. ASSUME NEW q \in DOMAIN index', q # p
        PROVE  index'[q] \in Linked' /\ entry'[index'[q]].packet_id = q
    <3>1. q \in DOMAIN index /\ (off = 1 => q # entry[lru_order[1]].packet_id)
      BY <1>1, <2>3
    <3>2. PICK i \in 1..n : index[q] = lru_order[i] /\ entry[lru_order[i]].packet_id = q
      BY <1>p, <3>1
    <3>3. i > off /\ i - off \in 1..(n - off) /\ (i - off) + off = i
      BY <1>1, <1>2, <3>1, <3>2
    <3>4. lru_order'[i - off] = lru_order[i] /\ entry'[lru_order[i]] = entry[lru_order[i]]
      BY <1>1, <3>3
    <3>5. i - off \in 1..(n - off + 1)
      BY <1>2, <3>3
    <3> QED BY <1>1, <2>1, <2>3, <3>2, <3>4, <3>5
  <2>4. ASSUME NEW i \in 1..(n - off + 1)
        PROVE  /\ entry'[lru_order'[i]].packet_id \in DOMAIN index'
               /\ index'[entry'[lru_order'[i]].packet_id] = lru_order'[i]
    <3>1. CASE i = n - off + 1 /\ lru_order'[i] = c
      BY <1>1, <3>1
    <3>2. CASE /\ i \in 1..(n - off) /\ i + off \in 1..n /\ lru_order'[i] = lru_order[i + off]
               /\ entry'[lru_order'[i]] = entry[lru_order[i + off]]
      <4> DEFINE q == entry[lru_order[i + off]].packet_id
      <4>1. q \in DOMAIN index /\ index[q] = lru_order[i + off] /\ q # p
        BY <1>2, <1>3, <3>2
      <4>2. off = 1 => q # entry[lru_order[1]].packet_id
        <5>1. off = 1 => 1 \in 1..n /\ i + off # 1
          BY <1>2, <3>2
        <5> QED BY <1>4, <3>2, <5>1
      <4>3. q \in DOMAIN index'
        BY <1>1, <4>1, <4>2
      <4> QED BY <1>1, <3>2, <4>1, <4>3
    <3> QED BY <1>5, <3>1, <3>2
  <2> QED BY <1>1, <2>1, <2>2, <2>3, <2>4 DEF IteratorsValid
<1>10. StampedLast'
  <2> SUFFICES ASSUME NEW q \in DOMAIN index'
               PROVE  q \in DOMAIN last_seen' /\ entry'[index'[q]].inserted_at = last_seen'[q]
    BY DEF StampedLast
  <2>1. CASE q = p
    BY <1>1, <2>1 DEF Setting
  <2>2. CASE q # p
    <3>1. q \in DOMAIN index /\ (off = 1 => q # entry[lru_order[1]].packet_id)
      BY <1>1, <2>2
    <3>2. q \in DOMAIN last_seen /\ entry[index[q]].inserted_at = last_seen[q]
      BY <3>1 DEF CacheInv, StampedLast
    <3>3. PICK i \in 1..n : index[q] = lru_order[i] /\ entry[lru_order[i]].packet_id = q
      BY <1>p, <3>1
    <3>4. i > off
      BY <1>1, <1>2, <3>1, <3>3
    <3>5. entry'[index'[q]] = entry[index[q]]
      BY <1>1, <2>2, <3>3, <3>4
    <3>6. q \in DOMAIN last_seen' /\ last_seen'[q] = last_seen[q]
      BY <2>2, <3>2 DEF Setting
    <3> QED BY <3>2, <3>5, <3>6
  <2> QED BY <2>1, <2>2
<1>11. InInsertionOrder'
  <2>1. \A i \in 1..n : entry[lru_order[i]].inserted_at \in Nat
    BY <1>3 DEF Stamp
  <2>2. \A i \in 1..(n - off + 1) : entry'[lru_order'[i]].inserted_at <= clock
    BY <1>1, <1>2, <1>5, <1>t
  <2>3. entry'[lru_order'[n - off + 1]].inserted_at = clock
    BY <1>1
  <2>4. ASSUME NEW i \in 1..(n - off + 1), NEW j \in 1..(n - off + 1), i < j
        PROVE  entry'[lru_order'[i]].inserted_at <= entry'[lru_order'[j]].inserted_at
    <3>1. CASE j = n - off + 1
      BY <2>2, <2>3, <3>1
    <3>2. CASE j # n - off + 1
      <4>1. /\ entry'[lru_order'[i]] = entry[lru_order[i + off]] /\ i + off \in 1..n
            /\ entry'[lru_order'[j]] = entry[lru_order[j + off]] /\ j + off \in 1..n
            /\ i + off < j + off
        BY <1>2, <1>5, <2>4, <3>2
      <4> QED BY <1>t, <4>1
    <3> QED BY <3>1, <3>2
  <2> QED BY <1>n, <2>2, <2>4 DEF InInsertionOrder
<1> QED
  BY <1>7, <1>8, <1>9, <1>10, <1>11 DEF CacheInv

-----------------------------------------------------------------------------
(* What a sweep does: the cells it passes leave the front, and their ids   *)
(* the index.                                                              *)
LEMMA Swept ==
    ASSUME CacheInv, EvictExpired
    PROVE  /\ lru_order' \in Seq(Cell)
           /\ Len(lru_order') = Len(lru_order) - SweepLength
           /\ \A i \in 1..(Len(lru_order) - SweepLength) :
                /\ lru_order'[i] = lru_order[i + SweepLength]
                /\ entry'[lru_order'[i]] = entry[lru_order[i + SweepLength]]
           /\ entry' \in [Cell -> Stamp \union {Free}]
           /\ \A q \in PacketId : q \in SweptIds <=>
                 \E i \in 1..SweepLength : q = entry[lru_order[i]].packet_id
<1> DEFINE n == Len(lru_order)
           k == SweepLength
<1>0. n \in Nat /\ k \in 0..n /\ lru_order \in Seq(Cell)
  BY Positions, SweepEnds DEF CacheInv, CacheTypes
<1>1. SweptIds = {entry[lru_order[i]].packet_id : i \in 1..k}
  BY DEF SweptIds
<1> HIDE DEF k
<1>2. lru_order' = SubSeq(lru_order, k + 1, n)
  BY DEF EvictExpired, k
<1>3. /\ lru_order' \in Seq(Cell) /\ Len(lru_order') = n - k
      /\ \A i \in 1..(n - k) : lru_order'[i] = lru_order[i + k]
  <2>1. \A i \in (k + 1)..n : lru_order[i] \in Cell
    BY <1>0, Positions
  <2>2. /\ SubSeq(lru_order, k + 1, n) \in Seq(Cell)
        /\ Len(SubSeq(lru_order, k + 1, n)) = IF k + 1 <= n THEN n - (k + 1) + 1 ELSE 0
        /\ \A i \in 1..(n - (k + 1) + 1) :
             SubSeq(lru_order, k + 1, n)[i] = lru_order[(k + 1) + i - 1]
    BY <1>0, <2>1, SubSeqProperties
  <2>3. n - (k + 1) + 1 = n - k /\ \A i \in 1..(n - k) : (k + 1) + i - 1 = i + k
    BY <1>0
  <2>4. Len(lru_order') = n - k
    BY <1>0, <1>2, <2>2
  <2> QED BY <1>2, <2>2, <2>3, <2>4
<1>4. \A i \in 1..(n - k) : entry'[lru_order'[i]] = entry[lru_order[i + k]]
  <2> SUFFICES ASSUME NEW i \in 1..(n - k)
               PROVE  entry'[lru_order[i + k]] = entry[lru_order[i + k]]
    BY <1>3
  <2>1. i + k \in 1..n /\ \A j \in 1..k : j \in 1..n /\ j # i + k
    BY <1>0
  <2>2. lru_order[i + k] \in Cell
    BY <2>1, Positions
  <2>3. entry[lru_order[i + k]].packet_id \notin SweptIds
    <3>1. \A j \in 1..k : entry[lru_order[i + k]].packet_id # entry[lru_order[j]].packet_id
      BY <2>1, Positions
    <3> QED BY <1>1, <3>1
  <2> QED BY <2>2, <2>3 DEF EvictExpired
<1>5. entry' \in [Cell -> Stamp \union {Free}]
  BY DEF CacheInv, CacheTypes, EvictExpired
<1> QED
  BY <1>1, <1>3, <1>4, <1>5 DEF k, n

(* The loop of EvictExpired keeps the invariant: what leaves the front of  *)
(* the list leaves index_, and nothing else does.                          *)
LEMMA EvictExpiredKeeps ==
    ASSUME CacheInv, EvictExpired
    PROVE  CacheInv'
<1> DEFINE n == Len(lru_order)
<1>1. PICK k \in 0..n :
           /\ Len(lru_order') = n - k
           /\ \A i \in 1..(n - k) : /\ lru_order'[i] = lru_order[i + k]
                                    /\ entry'[lru_order'[i]] = entry[lru_order[i + k]]
           /\ \A q \in PacketId : q \in SweptIds <=>
                 \E i \in 1..k : q = entry[lru_order[i]].packet_id
  BY SweepEnds, Swept
<1>2. /\ DOMAIN index' = DOMAIN index \ SweptIds
      /\ \A q \in DOMAIN index' : index'[q] = index[q]
      /\ index' = [q \in DOMAIN index' |-> index'[q]]
      /\ last_seen' = last_seen /\ clock' = clock
  BY DEF EvictExpired
<1>3. /\ n \in Nat /\ k \in 0..n /\ Capacity \in Nat /\ n <= Capacity
      /\ \A i \in 1..n : /\ lru_order[i] \in Cell
                         /\ entry[lru_order[i]] \in Stamp
                         /\ entry[lru_order[i]].packet_id \in DOMAIN index
                         /\ entry[lru_order[i]].packet_id \in PacketId
                         /\ index[entry[lru_order[i]].packet_id] = lru_order[i]
  BY <1>1, Positions DEF CacheInv, CacheTypes, LinkedOnce
<1>4. \A i, j \in 1..n : /\ lru_order[i] = lru_order[j] => i = j
                         /\ entry[lru_order[i]].packet_id = entry[lru_order[j]].packet_id => i = j
  BY Positions DEF CacheInv, LinkedOnce
<1>5. \A q \in DOMAIN index : q \in PacketId /\ \E i \in 1..n :
         index[q] = lru_order[i] /\ entry[lru_order[i]].packet_id = q
  BY Positions DEF CacheInv, CacheTypes
<1>6. \A i, j \in 1..n :
         i < j => entry[lru_order[i]].inserted_at <= entry[lru_order[j]].inserted_at
  BY DEF CacheInv, InInsertionOrder
<1> HIDE DEF n
<1>7. \A i \in 1..(n - k) : i + k \in 1..n
  BY <1>3
<1>8. CacheTypes'
  <2>1. DOMAIN index' \subseteq PacketId /\ index' \in [DOMAIN index' -> Cell]
    BY <1>2 DEF CacheInv, CacheTypes
  <2> QED BY <1>2, <2>1, Swept DEF CacheInv, CacheTypes
<1>9. LinkedOnce'
  <2>1. n - k <= Capacity
    BY <1>3
  <2>2. \A i, j \in 1..(n - k) : lru_order'[i] = lru_order'[j] => i = j
    <3> SUFFICES ASSUME NEW i \in 1..(n - k), NEW j \in 1..(n - k),
                        lru_order'[i] = lru_order'[j]
                 PROVE  i = j
      OBVIOUS
    <3>1. i + k = j + k
      BY <1>1, <1>4, <1>7
    <3> QED BY <1>3, <3>1
  <2>3. \A i \in 1..(n - k) : entry'[lru_order'[i]] \in Stamp
    BY <1>1, <1>3, <1>7
  <2> QED BY <1>1, <2>1, <2>2, <2>3 DEF LinkedOnce
<1>10. IteratorsValid'
  <2>1. Linked' = {lru_order'[i] : i \in 1..(n - k)}
    BY <1>1 DEF Linked
  <2>2. ASSUME NEW q \in DOMAIN index'
        PROVE  index'[q] \in Linked' /\ entry'[index'[q]].packet_id = q
    <3>1. q \in DOMAIN index /\ q \notin SweptIds /\ q \in PacketId
      BY <1>2, <1>5
    <3>2. PICK i \in 1..n : index[q] = lru_order[i] /\ entry[lru_order[i]].packet_id = q
      BY <1>5, <3>1
    <3>3. i \notin 1..k
      BY <1>1, <3>1, <3>2
    <3>4. i - k \in 1..(n - k) /\ (i - k) + k = i
      BY <1>3, <3>3
    <3> QED BY <1>1, <1>2, <2>1, <3>2, <3>4
  <2>3. ASSUME NEW i \in 1..(n - k)
        PROVE  /\ entry'[lru_order'[i]].packet_id \in DOMAIN index'
               /\ index'[entry'[lru_order'[i]].packet_id] = lru_order'[i]
    <3>1. /\ lru_order'[i] = lru_order[i + k] /\ i + k \in 1..n
          /\ entry'[lru_order'[i]] = entry[lru_order[i + k]]
      BY <1>1, <1>7
    <3>2. \A j \in 1..k : j \in 1..n /\ j # i + k
      BY <1>3
    <3>3. entry[lru_order[i + k]].packet_id \notin SweptIds
      <4>1. \A j \in 1..k :
              entry[lru_order[i + k]].packet_id # entry[lru_order[j]].packet_id
        BY <1>4, <3>1, <3>2
      <4> QED BY <1>1, <1>3, <3>1, <4>1
    <3> QED BY <1>2, <1>3, <3>1, <3>3
  <2> QED BY <2>1, <2>2, <2>3 DEF IteratorsValid
<1>11. StampedLast'
  <2> SUFFICES ASSUME NEW q \in DOMAIN index'
               PROVE  q \in DOMAIN last_seen /\ entry'[index'[q]].inserted_at = last_seen[q]
    BY <1>2 DEF StampedLast
  <2>1. q \in DOMAIN index /\ q \notin SweptIds /\ q \in PacketId
    BY <1>2, <1>5
  <2>2. PICK i \in 1..n : index[q] = lru_order[i] /\ entry[lru_order[i]].packet_id = q
    BY <1>5, <2>1
  <2>3. i \notin 1..k
    BY <1>1, <2>1, <2>2
  <2>4. i - k \in 1..(n - k) /\ (i - k) + k = i
    BY <1>3, <2>3
  <2>5. entry'[lru_order[i]] = entry[lru_order[i]]
    BY <1>1, <2>4
  <2> QED BY <1>2, <2>1, <2>2, <2>5 DEF CacheInv, StampedLast
<1>12. InInsertionOrder'
  <2>1. ASSUME NEW i \in 1..(n - k), NEW j \in 1..(n - k), i < j
        PROVE  entry'[lru_order'[i]].inserted_at <= entry'[lru_order'[j]].inserted_at
    <3>1. i + k < j + k /\ i + k \in 1..n /\ j + k \in 1..n
      BY <1>3, <2>1
    <3> QED BY <1>1, <1>6, <3>1
  <2>2. \A i \in 1..(n - k) : entry'[lru_order'[i]].inserted_at <= clock
    BY <1>1, <1>7 DEF CacheInv, InInsertionOrder, n
  <2> QED BY <1>1, <1>2, <2>1, <2>2 DEF InInsertionOrder
<1> QED
  BY <1>8, <1>9, <1>10, <1>11, <1>12 DEF CacheInv

(* Each method, and the clock, keeps the invariant.                        *)
LEMMA CacheInvStep == CacheInv /\ [CacheNext]_cacheVars => CacheInv'
<1> SUFFICES ASSUME CacheInv, [CacheNext]_cacheVars PROVE CacheInv'
  OBVIOUS
<1>1. CASE EvictExpired
  BY <1>1, EvictExpiredKeeps
<1>2. CASE ClockAdvances
  <2>1. InInsertionOrder'
    <3>1. \A i \in 1..Len(lru_order) : entry[lru_order[i]].inserted_at \in Nat
      BY DEF CacheInv, LinkedOnce, Stamp
    <3> QED BY <1>2, <3>1 DEF CacheInv, CacheTypes, ClockAdvances, InInsertionOrder
  <2> QED BY <1>2, <2>1 DEF CacheInv, CacheTypes, ClockAdvances, LinkedOnce,
              IteratorsValid, Linked, StampedLast
<1>3. ASSUME NEW p \in PacketId, Insert(p)
      PROVE  CacheInv'
  <2>1. CASE Capacity = 0
    <3>1. UNCHANGED <<lru_order, entry, index, clock>> /\ last_seen' = Setting(last_seen, p, clock)
      BY <1>3, <2>1 DEF Insert
    <3>2. Len(lru_order) = 0
      BY <2>1, Positions DEF CacheInv, LinkedOnce
    <3>3. DOMAIN index = {}
      <4>1. ~ \E i \in 1..Len(lru_order) : TRUE
        BY <3>2
      <4>2. \A q \in DOMAIN index : \E i \in 1..Len(lru_order) : index[q] = lru_order[i]
        BY Positions
      <4> QED BY <4>1, <4>2
    <3>4. /\ DOMAIN last_seen' \subseteq PacketId
          /\ last_seen' \in [DOMAIN last_seen' -> Nat]
      BY <3>1 DEF CacheInv, CacheTypes, Setting
    <3> QED BY <3>1, <3>3, <3>4 DEF CacheInv, CacheTypes, LinkedOnce, IteratorsValid,
               Linked, StampedLast, InInsertionOrder
  <2>2. CASE Capacity # 0
    BY <1>3, <2>2, RefreshKeeps, AdmitKeeps DEF Insert
  <2> QED BY <2>1, <2>2
<1>4. CASE UNCHANGED cacheVars
  BY <1>4 DEF cacheVars, CacheInv, CacheTypes, LinkedOnce, IteratorsValid,
              Linked, StampedLast, InInsertionOrder
<1> QED
  BY <1>1, <1>2, <1>3, <1>4 DEF CacheNext

(* Whatever is inserted and swept, in whatever order, the invariant holds. *)
THEOREM CacheInvariance == CacheSpec => []CacheInv
BY CacheInitially, CacheInvStep, PTL DEF CacheSpec

(* No iterator kept in index_ dangles, for any capacity, ttl and ids: what *)
(* the splice in Insert and both eviction loops rely on.                   *)
THEOREM NoDanglingIterator == CacheSpec => []IteratorsValid
BY CacheInvariance, PTL DEF CacheInv

(* Stopping at the first fresh entry misses nothing and drops nothing      *)
(* fresh: the comment in EvictExpired is right, for any ttl.               *)
THEOREM SweepsAreExact == CacheSpec => []SweepIsExact
<1>1. CacheInv => SweepIsExact
  <2> SUFFICES ASSUME CacheInv, NEW p \in DOMAIN index
               PROVE  p \notin SweptIds <=> clock - last_seen[p] <= Ttl
    BY DEF SweepIsExact
  <2> DEFINE n == Len(lru_order)
             k == SweepLength
  <2>1. PICK i \in 1..n : index[p] = lru_order[i] /\ entry[lru_order[i]].packet_id = p
    BY Positions
  <2>2. n \in Nat /\ k \in 0..n /\ Ttl \in Nat /\ clock \in Nat
    BY Positions, SweepEnds, DedupAssumption DEF CacheInv, CacheTypes
  <2>3. entry[lru_order[i]].inserted_at = last_seen[p]
    BY <2>1 DEF CacheInv, StampedLast
  <2>4. SweptIds = {entry[lru_order[j]].packet_id : j \in 1..k}
    BY DEF SweptIds
  <2>5. /\ \A j \in 1..k : Expired(lru_order[j])
        /\ k < n => ~ Expired(lru_order[k + 1])
    BY SweepEnds
  <2>6. \A j \in 1..n : entry[lru_order[j]].inserted_at \in Nat
    BY DEF CacheInv, LinkedOnce, Stamp
  <2> HIDE DEF k
  <2>7. CASE i \in 1..k
    <3>1. p \in SweptIds
      BY <2>1, <2>4, <2>7
    <3>2. clock - last_seen[p] > Ttl
      BY <2>3, <2>5, <2>7 DEF Expired
    <3> QED BY <2>2, <2>3, <2>6, <3>1, <3>2
  <2>8. CASE i \notin 1..k
    <3>1. k + 1 \in 1..n /\ k < n /\ k + 1 <= i
      BY <2>2, <2>8
    <3>2. p \notin SweptIds
      <4>1. \A j \in 1..k : j \in 1..n /\ j # i
        BY <2>2, <2>8
      <4>2. \A j \in 1..k : entry[lru_order[i]].packet_id # entry[lru_order[j]].packet_id
        BY <2>1, <4>1, Positions
      <4> QED BY <2>1, <2>4, <4>2
    <3>3. entry[lru_order[k + 1]].inserted_at <= entry[lru_order[i]].inserted_at
      <4>1. CASE k + 1 = i
        BY <2>6, <4>1
      <4>2. CASE k + 1 # i
        BY <2>2, <3>1, <4>2 DEF CacheInv, InInsertionOrder
      <4> QED BY <4>1, <4>2
    <3>4. ~ (clock - entry[lru_order[k + 1]].inserted_at > Ttl)
      BY <2>5, <3>1 DEF Expired
    <3>5. clock - last_seen[p] <= Ttl
      BY <2>2, <2>3, <2>6, <3>1, <3>3, <3>4
    <3> QED BY <3>2, <3>5
  <2> QED BY <2>7, <2>8
<1> QED
  BY <1>1, CacheInvariance, PTL

-----------------------------------------------------------------------------
(* The list read as ids is a sequence of ids, as long as the list.         *)
LEMMA ReadAsIds ==
    ASSUME NEW list \in Seq(Cell), NEW held,
           \A i \in 1..Len(list) : held[list[i]].packet_id \in PacketId
    PROVE  LET ids == [i \in 1..Len(list) |-> held[list[i]].packet_id] IN
           /\ ids \in Seq(PacketId) /\ Len(ids) = Len(list)
           /\ \A i \in 1..Len(list) : ids[i] = held[list[i]].packet_id
<1> DEFINE ids == [i \in 1..Len(list) |-> held[list[i]].packet_id]
<1>1. Len(list) \in Nat
  BY LenProperties
<1>2. ids \in [1..Len(list) -> PacketId]
  OBVIOUS
<1>3. ids \in Seq(PacketId) /\ Len(ids) = Len(list)
  BY <1>1, <1>2, SeqDef, LenProperties
<1> QED
  BY <1>3

(* The list of the cache, read as ids, has no repetition.                  *)
LEMMA RecencyIs ==
    ASSUME CacheInv
    PROVE  /\ Recency \in Seq(PacketId) /\ Len(Recency) = Len(lru_order)
           /\ \A i \in 1..Len(lru_order) : Recency[i] = entry[lru_order[i]].packet_id
           /\ \A i, j \in 1..Len(lru_order) : Recency[i] = Recency[j] => i = j
<1>1. /\ lru_order \in Seq(Cell)
      /\ \A i \in 1..Len(lru_order) : entry[lru_order[i]].packet_id \in PacketId
  BY Positions DEF CacheInv, CacheTypes
<1>2. /\ Recency \in Seq(PacketId) /\ Len(Recency) = Len(lru_order)
      /\ \A i \in 1..Len(lru_order) : Recency[i] = entry[lru_order[i]].packet_id
  BY <1>1, ReadAsIds DEF Recency
<1> QED
  BY <1>2, Positions

(* An insertion of an id that is there remembers it last.                  *)
LEMMA RefreshRemembers ==
    ASSUME CacheInv, NEW p \in PacketId, Refresh(p)
    PROVE  Abstract!Remember(p)
<1> DEFINE n == Len(lru_order)
           R == Recency
<1>1. PICK k \in 1..n :
             /\ lru_order[k] = index[p] /\ entry[lru_order[k]].packet_id = p
             /\ lru_order' \in Seq(Cell) /\ Len(lru_order') = n
             /\ \A i \in 1..(n - 1) :
                  lru_order'[i] = IF i < k THEN lru_order[i] ELSE lru_order[i + 1]
             /\ lru_order'[n] = lru_order[k]
  BY Refreshed
<1>2. /\ n \in Nat /\ Capacity \in Nat /\ n <= Capacity /\ n - 1 \in Nat /\ k \in 1..n
      /\ \A i \in 1..n : lru_order[i] \in Cell
  <2>1. /\ n \in Nat /\ Capacity \in Nat /\ n <= Capacity
        /\ \A i \in 1..n : lru_order[i] \in Cell
    BY Positions DEF CacheInv, LinkedOnce
  <2> HIDE DEF n
  <2> QED BY <2>1
<1>3. /\ R \in Seq(PacketId) /\ Len(R) = n
      /\ \A i \in 1..n : R[i] = entry[lru_order[i]].packet_id /\ R[i] \in PacketId
      /\ \A i, j \in 1..n : R[i] = R[j] => i = j
  BY RecencyIs, ElementOfSeq
<1>4. \A c \in Cell : entry'[c].packet_id = entry[c].packet_id
  <2>1. entry' = [entry EXCEPT ![lru_order[k]].inserted_at = clock] /\ entry \in [Cell -> Stamp \union {Free}]
    BY <1>1 DEF Refresh, CacheInv, CacheTypes
  <2>2. [entry[lru_order[k]] EXCEPT !.inserted_at = clock].packet_id = entry[lru_order[k]].packet_id
    BY <1>2 DEF CacheInv, LinkedOnce, Stamp
  <2> QED BY <1>2, <2>1, <2>2
<1> DEFINE after == [i \in 1..n |-> IF i = n THEN p ELSE IF i < k THEN R[i] ELSE R[i + 1]]
<1>a. /\ \A i \in 1..(n - 1) : i \in 1..n /\ i + 1 \in 1..n
      /\ n \in 1..n
      /\ \A i \in 1..n : i # n => i \in 1..(n - 1)
  BY <1>2
<1>5. Recency' = after
  <2>1. Recency' = [i \in 1..n |-> entry'[lru_order'[i]].packet_id]
    BY <1>1 DEF Recency
  <2>2. ASSUME NEW i \in 1..n
        PROVE  entry'[lru_order'[i]].packet_id = after[i]
    <3>1. CASE i = n
      BY <1>1, <1>2, <1>4, <3>1
    <3>2. CASE i # n
      <4>1. i \in 1..(n - 1) /\ i \in 1..n /\ i + 1 \in 1..n
        BY <1>a, <3>2
      <4>2. lru_order'[i] = IF i < k THEN lru_order[i] ELSE lru_order[i + 1]
        BY <1>1, <4>1
      <4>3. after[i] = IF i < k THEN R[i] ELSE R[i + 1]
        BY <3>2
      <4>4. /\ entry'[lru_order[i]].packet_id = R[i]
            /\ entry'[lru_order[i + 1]].packet_id = R[i + 1]
        BY <1>2, <1>3, <1>4, <4>1
      <4> HIDE DEF after, R, n
      <4> QED BY <4>2, <4>3, <4>4
    <3> QED BY <3>1, <3>2
  <2> QED BY <2>1, <2>2
<1> HIDE DEF R, n
<1>6. Abstract!Contains(R, p) /\ Abstract!Position(R, p) = k
  <2>1. R[k] = p /\ k \in 1..Len(R) /\ \A j \in 1..Len(R) : R[j] = p => j = k
    BY <1>1, <1>3
  <2> QED BY <2>1 DEF Abstract!Contains, Abstract!Ids, Abstract!Position
<1> DEFINE t == Abstract!DropAt(R, k)
<1>7. /\ t \in Seq(PacketId) /\ Len(t) = n - 1
      /\ \A i \in 1..(n - 1) : t[i] = IF i < k THEN R[i] ELSE R[i + 1]
  <2>1. t = [i \in 1..(n - 1) |-> IF i < k THEN R[i] ELSE R[i + 1]]
    BY <1>3 DEF Abstract!DropAt
  <2>2. t \in [1..(n - 1) -> PacketId]
    BY <1>3, <1>a, <2>1
  <2>3. t \in Seq(PacketId) /\ Len(t) = n - 1
    BY <1>2, <2>2, SeqDef, LenProperties
  <2> QED BY <2>1, <2>3
<1> HIDE DEF t
<1>8. /\ Append(t, p) \in Seq(PacketId) /\ Len(Append(t, p)) = n
      /\ \A i \in 1..(n - 1) : Append(t, p)[i] = t[i]
      /\ Append(t, p)[n] = p
  BY <1>2, <1>7, AppendProperties
<1>9. after = Append(t, p)
  <2>1. after \in [1..n -> PacketId]
    BY <1>3, <1>a
  <2>2. after \in Seq(PacketId) /\ Len(after) = n
    BY <1>2, <2>1, SeqDef, LenProperties
  <2>3. \A i \in 1..n : after[i] = Append(t, p)[i]
    BY <1>7, <1>8, <1>a
  <2> HIDE DEF after
  <2> QED BY <1>8, <2>2, <2>3, SeqEqual
<1>10. Abstract!LastN(Append(t, p), Capacity) = Append(t, p)
  BY <1>2, <1>8 DEF Abstract!LastN
<1>11. Abstract!Others(R, p) = t
  BY <1>6 DEF Abstract!Others, t
<1> HIDE DEF after
<1> QED
  BY <1>5, <1>9, <1>10, <1>11 DEF Abstract!Remember, R

(* An insertion of a new id remembers it last, and forgets the first one   *)
(* of a full cache.                                                        *)
LEMMA AdmitRemembers ==
    ASSUME CacheInv, NEW p \in PacketId, Admit(p), Capacity # 0
    PROVE  Abstract!Remember(p)
<1> DEFINE n == Len(lru_order)
           R == Recency
<1>1. PICK c \in Cell \ Linked, off \in {0, 1} :
             /\ off = 1 <=> n = Capacity
             /\ off <= n
             /\ lru_order' \in Seq(Cell)
             /\ Len(lru_order') = n - off + 1
             /\ \A i \in 1..(n - off) : lru_order'[i] = lru_order[i + off]
             /\ lru_order'[n - off + 1] = c
             /\ entry'[c] = [packet_id |-> p, inserted_at |-> clock]
             /\ \A i \in 1..n : i > off => entry'[lru_order[i]] = entry[lru_order[i]]
  BY Admitted
<1>2. n \in Nat /\ Capacity \in Nat /\ n <= Capacity /\ p \notin DOMAIN index
  BY Positions DEF CacheInv, LinkedOnce, Admit, Contains
<1>o. (off = 0 \/ off = 1) /\ n - off + 1 \in Nat /\ off <= n
  BY <1>1, <1>2
<1>3. /\ R \in Seq(PacketId) /\ Len(R) = n
     
      /\ \A i \in 1..n : R[i] = entry[lru_order[i]].packet_id /\ R[i] \in PacketId /\ R[i] # p
  BY <1>2, RecencyIs, ElementOfSeq, Positions
<1> DEFINE after == [i \in 1..(n - off + 1) |-> IF i = n - off + 1 THEN p ELSE R[i + off]]
<1>a. \A i \in 1..(n - off + 1) :
         i # n - off + 1 => i \in 1..(n - off) /\ i + off \in 1..n /\ i + off > off
  BY <1>2, <1>o
<1>5. Recency' = after
  <2>1. Recency' = [i \in 1..(n - off + 1) |-> entry'[lru_order'[i]].packet_id]
    BY <1>1 DEF Recency
  <2>2. ASSUME NEW i \in 1..(n - off + 1)
        PROVE  entry'[lru_order'[i]].packet_id = after[i]
    <3>1. CASE i = n - off + 1
      BY <1>1, <3>1
    <3>2. CASE i # n - off + 1
      <4>1. /\ i \in 1..(n - off) /\ i + off \in 1..n /\ i + off > off
            /\ after[i] = R[i + off]
        BY <1>a, <3>2
      <4>2. lru_order'[i] = lru_order[i + off] /\ entry'[lru_order[i + off]] = entry[lru_order[i + off]]
        BY <1>1, <4>1
      <4>3. R[i + off] = entry[lru_order[i + off]].packet_id
        BY <1>3, <4>1
      <4> HIDE DEF R, n
      <4> QED BY <4>1, <4>2, <4>3
    <3> QED BY <3>1, <3>2
  <2> QED BY <2>1, <2>2
<1> HIDE DEF R, n
<1>6. Abstract!Others(R, p) = R
  BY <1>3 DEF Abstract!Contains, Abstract!Ids, Abstract!Others
<1>7. /\ Append(R, p) \in Seq(PacketId) /\ Len(Append(R, p)) = n + 1
      /\ \A i \in 1..n : Append(R, p)[i] = R[i]
      /\ Append(R, p)[n + 1] = p
  BY <1>2, <1>3, AppendProperties
<1>8. after \in Seq(PacketId) /\ Len(after) = n - off + 1
  <2>1. after \in [1..(n - off + 1) -> PacketId]
    BY <1>3, <1>a
  <2> QED BY <1>o, <2>1, SeqDef, LenProperties
<1> DEFINE s == Append(R, p)
           last == Abstract!LastN(s, Capacity)
<1>9. last = after
  <2>1. CASE off = 0
    <3>1. n + 1 <= Capacity
      BY <1>1, <1>2, <2>1
    <3>2. last = s
      BY <1>2, <1>7, <3>1 DEF Abstract!LastN
    <3>3. \A i \in 1..(n + 1) : after[i] = s[i]
      BY <1>2, <1>7, <1>a, <2>1
    <3>4. Len(after) = n + 1
      BY <1>2, <1>8, <2>1
    <3> HIDE DEF after, last, s
    <3> QED BY <1>7, <1>8, <3>2, <3>3, <3>4, SeqEqual DEF s
  <2>2. CASE off = 1
    <3>1. n = Capacity /\ n >= 1
      BY <1>1, <1>2, <1>o, <2>2
    <3>2. last = SubSeq(s, 2, n + 1)
      BY <1>2, <1>7, <3>1 DEF Abstract!LastN
    <3>3. \A i \in 2..(n + 1) : s[i] \in PacketId
      BY <1>2, <1>3, <1>7
    <3>4. /\ last \in Seq(PacketId) /\ Len(last) = n
          /\ \A i \in 1..n : last[i] = s[i + 1]
      <4> HIDE DEF s, last
      <4>1. /\ SubSeq(s, 2, n + 1) \in Seq(PacketId)
            /\ Len(SubSeq(s, 2, n + 1)) = IF 2 <= n + 1 THEN n + 1 - 2 + 1 ELSE 0
            /\ \A i \in 1..(n + 1 - 2 + 1) : SubSeq(s, 2, n + 1)[i] = s[2 + i - 1]
        BY <1>2, <3>3, SubSeqProperties
      <4>2. n + 1 - 2 + 1 = n /\ 2 <= n + 1 /\ \A i \in 1..n : 2 + i - 1 = i + 1
        BY <1>2, <3>1
      <4> QED BY <3>2, <4>1, <4>2
    <3>5. \A i \in 1..n : after[i] = s[i + 1]
      BY <1>2, <1>7, <1>a, <2>2
    <3>6. Len(after) = n
      BY <1>2, <1>8, <2>2
    <3> HIDE DEF after, last, s
    <3> QED BY <1>8, <3>4, <3>5, <3>6, SeqEqual
  <2> QED BY <1>o, <2>1, <2>2
<1> HIDE DEF after
<1> QED
  BY <1>5, <1>6, <1>9 DEF Abstract!Remember, R

(* A sweep forgets the first ones, or changes nothing.                     *)
LEMMA SweepForgets ==
    ASSUME CacheInv, EvictExpired
    PROVE  Abstract!Forget \/ UNCHANGED Recency
<1> DEFINE n == Len(lru_order)
           R == Recency
<1>1. PICK k \in 0..n :
           /\ k = SweepLength
           /\ lru_order' \in Seq(Cell)
           /\ Len(lru_order') = n - k
           /\ \A i \in 1..(n - k) : /\ lru_order'[i] = lru_order[i + k]
                                    /\ entry'[lru_order'[i]] = entry[lru_order[i + k]]
  BY SweepEnds, Swept
<1>2. n \in Nat /\ k \in 0..n /\ n - k \in Nat
  BY <1>1, Positions
<1>3. /\ R \in Seq(PacketId) /\ Len(R) = n
      /\ \A i \in 1..n : R[i] = entry[lru_order[i]].packet_id /\ R[i] \in PacketId
  BY RecencyIs, ElementOfSeq
<1> DEFINE after == [i \in 1..(n - k) |-> R[i + k]]
<1>a. \A i \in 1..(n - k) : i + k \in 1..n
  BY <1>2
<1>4. Recency' = after
  BY <1>1, <1>3, <1>a DEF Recency
<1> HIDE DEF R, n
<1>5. after \in Seq(PacketId) /\ Len(after) = n - k
  <2>1. after \in [1..(n - k) -> PacketId]
    BY <1>3, <1>a
  <2> QED BY <1>2, <2>1, SeqDef, LenProperties
<1>6. SubSeq(R, k + 1, n) = after
  <2>1. \A i \in (k + 1)..n : R[i] \in PacketId
    BY <1>2, <1>3
  <2>2. /\ SubSeq(R, k + 1, n) \in Seq(PacketId)
        /\ Len(SubSeq(R, k + 1, n)) = IF k + 1 <= n THEN n - (k + 1) + 1 ELSE 0
        /\ \A i \in 1..(n - (k + 1) + 1) : SubSeq(R, k + 1, n)[i] = R[(k + 1) + i - 1]
    BY <1>2, <2>1, SubSeqProperties
  <2>3. n - (k + 1) + 1 = n - k /\ \A i \in 1..(n - k) : (k + 1) + i - 1 = i + k
    BY <1>2
  <2>4. Len(SubSeq(R, k + 1, n)) = n - k
    BY <1>2, <2>2
  <2>5. \A i \in 1..(n - k) : SubSeq(R, k + 1, n)[i] = after[i]
    BY <2>2, <2>3
  <2> HIDE DEF after
  <2> QED BY <1>5, <2>2, <2>4, <2>5, SeqEqual
<1>7. CASE k = 0
  <2>1. n - k = n /\ \A i \in 1..n : i + k = i
    BY <1>2, <1>7
  <2>2. \A i \in 1..n : after[i] = R[i]
    BY <2>1
  <2> HIDE DEF after
  <2>3. after = R
    BY <1>3, <1>5, <2>1, <2>2, SeqEqual
  <2> QED BY <1>4, <2>3 DEF R
<1>8. CASE k # 0
  <2>1. k \in 1..Len(R)
    BY <1>2, <1>3, <1>8
  <2>2. Recency' = SubSeq(R, k + 1, Len(R))
    BY <1>3, <1>4, <1>6
  <2> QED BY <2>1, <2>2 DEF Abstract!Forget, R
<1> QED
  BY <1>7, <1>8

(* The refinement: the linked list and its index implement the abstract    *)
(* memory of the Capacity most recent ids, for any capacity, ttl and ids.  *)
(* Every step of the cache is a step of SeenCache or leaves it as it is.   *)
THEOREM CacheRefinesSeenCache == CacheSpec => ImplementsSeenCache
<1>1. CacheInit => Abstract!Init
  <2> SUFFICES ASSUME CacheInit PROVE Abstract!Init
    OBVIOUS
  <2>1. Len(lru_order) = 0
    BY DEF CacheInit
  <2>2. Recency = << >>
    BY <2>1 DEF Recency
  <2> QED BY <2>2 DEF Abstract!Init
<1>2. CacheInv /\ [CacheNext]_cacheVars => [Abstract!Next]_Recency
  <2> SUFFICES ASSUME CacheInv, [CacheNext]_cacheVars PROVE [Abstract!Next]_Recency
    OBVIOUS
  <2>1. CASE EvictExpired
    BY <2>1, SweepForgets DEF Abstract!Next
  <2>2. CASE ClockAdvances \/ UNCHANGED cacheVars
    BY <2>2 DEF ClockAdvances, cacheVars, Recency
  <2>3. ASSUME NEW p \in PacketId, Insert(p)
        PROVE  [Abstract!Next]_Recency
    <3>1. CASE Capacity = 0
      BY <2>3, <3>1 DEF Insert, Recency
    <3>2. CASE Capacity # 0
      BY <2>3, <3>2, RefreshRemembers, AdmitRemembers DEF Insert, Abstract!Next
    <3> QED BY <3>1, <3>2
  <2> QED BY <2>1, <2>2, <2>3 DEF CacheNext
<1> QED
  BY <1>1, <1>2, CacheInvariance, PTL DEF CacheSpec, ImplementsSeenCache, Abstract!Spec

-----------------------------------------------------------------------------
(***************************************************************************)
(* The timer wheel. What has fired, what Tick has in its hands and what is *)
(* left in the heap are disjoint and in order of expiry; no delay and no   *)
(* number of timers is special.                                            *)
(***************************************************************************)

Entry == [id : Nat \ {0}, expires_at : Nat, cancelled : BOOLEAN, job : {"callback"}]

Firing == [timer : Entry, at : Nat]

(* What the variables range over.                                          *)
WheelTypes ==
    /\ timers \subseteq Entry
    /\ next_id \in Nat \ {0}
    /\ now \in Nat
    /\ tick \in [read : Nat, popped : Entry \union {NoTimer}, active : BOOLEAN]
    /\ fired \in Seq(Firing)
    /\ revoked \subseteq Nat

InTick == tick.popped # NoTimer

(* No id is given twice, and an entry is in one place: in the heap, in the *)
(* hands of Tick, or among what has fired.                                 *)
OnePlace ==
    /\ \A t \in timers : t.id < next_id
    /\ \A t, u \in timers : t.id = u.id => t = u
    /\ InTick => /\ tick.popped.id < next_id
                 /\ \A t \in timers : t.id # tick.popped.id
    /\ \A i \in 1..Len(fired) :
         /\ fired[i].timer.id < next_id
         /\ InTick => fired[i].timer.id # tick.popped.id
         /\ \A t \in timers : t.id # fired[i].timer.id

(* What has been revoked is marked wherever it still is.                   *)
RevokedIsMarked ==
    /\ \A id \in revoked : id < next_id
    /\ \A t \in timers : t.id \in revoked => t.cancelled
    /\ InTick /\ tick.popped.id \in revoked => tick.popped.cancelled

(* Tick takes entries that are due and earliest: what has fired, what Tick *)
(* holds, and what is left in the heap, are in order of expiry.            *)
InOrder ==
    /\ tick.read <= now
    /\ InTick => /\ tick.popped.expires_at <= tick.read
                 /\ \A t \in timers : tick.popped.expires_at <= t.expires_at
    /\ \A i \in 1..Len(fired) :
         /\ fired[i].timer.expires_at <= fired[i].at
         /\ fired[i].at <= now
         /\ InTick => fired[i].timer.expires_at <= tick.popped.expires_at
         /\ \A t \in timers : fired[i].timer.expires_at <= t.expires_at

WheelInv ==
    /\ WheelTypes /\ OnePlace /\ RevokedIsMarked /\ InOrder
    /\ OnTimeAndOnce /\ CancelIsFinal /\ FiresInExpiryOrder

(* The invariant holds of a wheel as it is constructed.                    *)
LEMMA WheelInvInit == Init => WheelInv
BY WheelAssumption DEF Init, WheelInv, WheelTypes, OnePlace, RevokedIsMarked, InOrder,
    OnTimeAndOnce, CancelIsFinal, FiresInExpiryOrder, InTick, Idle, NoTimer

(* The numbers the other conjuncts compare.                                *)
LEMMA WheelNumbers ==
    ASSUME WheelTypes
    PROVE  /\ next_id \in Nat /\ now \in Nat /\ tick.read \in Nat /\ Len(fired) \in Nat
           /\ \A t \in timers : t.id \in Nat /\ t.expires_at \in Nat
           /\ InTick => tick.popped.id \in Nat /\ tick.popped.expires_at \in Nat
           /\ \A i \in 1..Len(fired) : /\ fired[i].timer.id \in Nat
                                       /\ fired[i].timer.expires_at \in Nat
                                       /\ fired[i].at \in Nat
<1>1. \A i \in 1..Len(fired) : fired[i] \in Firing
  BY ElementOfSeq DEF WheelTypes
<1>2. \A t \in Entry : t.id \in Nat /\ t.expires_at \in Nat
  BY DEF Entry
<1>3. timers \subseteq Entry /\ (InTick => tick.popped \in Entry)
  BY DEF WheelTypes, InTick
<1>4. next_id \in Nat /\ now \in Nat /\ tick.read \in Nat /\ Len(fired) \in Nat
  BY DEF WheelTypes
<1> QED
  BY <1>1, <1>2, <1>3, <1>4 DEF Firing

(* The callback of a popped entry joins what has fired, at its end.        *)
LEMMA FiredGrows ==
    ASSUME WheelInv, RunCallback
    PROVE  /\ fired' \in Seq(Firing)
           /\ Len(fired') = Len(fired) + 1
           /\ \A i \in 1..Len(fired) : fired'[i] = fired[i]
           /\ fired'[Len(fired) + 1] = [timer |-> tick.popped, at |-> now]
<1>1. fired \in Seq(Firing) /\ fired' = Append(fired, [timer |-> tick.popped, at |-> now])
  BY DEF WheelInv, WheelTypes, RunCallback
<1>2. [timer |-> tick.popped, at |-> now] \in Firing
  BY DEF WheelInv, WheelTypes, RunCallback, Firing
<1> QED
  BY <1>1, <1>2, AppendProperties

(* A callback that Tick runs is due, was not cancelled before Tick took    *)
(* it, and comes after what has fired.                                     *)
LEMMA RunCallbackKeeps ==
    ASSUME WheelInv, RunCallback
    PROVE  WheelInv'
<1> DEFINE n == Len(fired)
<1>0. n \in Nat /\ InTick /\ ~ InTick'
  BY DEF WheelInv, WheelTypes, RunCallback, InTick
<1>1. tick.popped \in Entry
  BY DEF WheelInv, WheelTypes, RunCallback
<1>2. WheelTypes'
  BY FiredGrows DEF WheelInv, WheelTypes, RunCallback
<1>a. \A i \in 1..Len(fired') : \/ i \in 1..n /\ fired'[i] = fired[i]
                                \/ i = n + 1 /\ fired'[i] = [timer |-> tick.popped, at |-> now]
  BY <1>0, FiredGrows
<1>c. Len(fired') = n + 1
  BY FiredGrows
<1> HIDE DEF n
<1>3. OnePlace'
  BY <1>0, <1>1, <1>a DEF WheelInv, OnePlace, RunCallback
<1>4. RevokedIsMarked'
  BY <1>0 DEF WheelInv, RevokedIsMarked, RunCallback
<1>5. InOrder'
  BY <1>0, <1>1, <1>a, WheelNumbers DEF WheelInv, InOrder, RunCallback
<1>6. OnTimeAndOnce'
  <2>1. \A i \in 1..Len(fired') : fired'[i].timer.expires_at <= fired'[i].at
    BY <1>5 DEF InOrder
  <2>2. \A i, j \in 1..Len(fired') :
          fired'[i].timer.id = fired'[j].timer.id => i = j
    BY <1>0, <1>a DEF WheelInv, OnePlace, OnTimeAndOnce, n
  <2> QED
    BY <2>1, <2>2 DEF OnTimeAndOnce
<1>7. CancelIsFinal'
  BY <1>0, <1>1, <1>a DEF WheelInv, CancelIsFinal, RevokedIsMarked, RunCallback
<1>8. FiresInExpiryOrder'
  BY <1>0, <1>a, <1>c DEF WheelInv, InOrder, FiresInExpiryOrder, n
<1> QED
  BY <1>2, <1>3, <1>4, <1>5, <1>6, <1>7, <1>8 DEF WheelInv

(* Schedule gives a new id and an expiry that is not in the past, so that  *)
(* nothing that has fired should have waited for it.                       *)
LEMMA ScheduleKeeps ==
    ASSUME WheelInv, NEW d \in Delay, Schedule(d)
    PROVE  WheelInv'
<1> DEFINE t == Timer(next_id, now + d, "callback")
<1>0. d \in Nat
  BY WheelAssumption
<1>1. /\ t \in Entry /\ t.id = next_id /\ t.expires_at = now + d /\ t.cancelled = FALSE
      /\ timers' = timers \union {t}
  BY <1>0 DEF WheelInv, WheelTypes, Entry, Schedule, Timer
<1> HIDE DEF t
<1>2. WheelTypes'
  BY <1>1 DEF WheelInv, WheelTypes, Schedule
<1>3. OnePlace'
  <2>1. /\ next_id \in Nat /\ next_id' = next_id + 1
        /\ tick' = tick /\ fired' = fired
    BY WheelNumbers DEF WheelInv, Schedule
  <2>2. \A u \in timers : u.id < next_id /\ u.id \in Nat
    BY WheelNumbers DEF WheelInv, OnePlace
  <2>3. /\ \A u \in timers' : u.id < next_id'
        /\ \A u, v \in timers' : u.id = v.id => u = v
    BY <1>1, <2>1, <2>2 DEF WheelInv, OnePlace
  <2>4. InTick => /\ tick.popped.id < next_id'
                  /\ \A u \in timers' : u.id # tick.popped.id
    BY <1>1, <2>1, WheelNumbers DEF WheelInv, OnePlace
  <2>5. \A i \in 1..Len(fired) :
           /\ fired[i].timer.id < next_id'
           /\ \A u \in timers' : u.id # fired[i].timer.id
    BY <1>1, <2>1, WheelNumbers DEF WheelInv, OnePlace
  <2> QED
    BY <2>1, <2>3, <2>4, <2>5 DEF WheelInv, OnePlace, InTick
<1>4. RevokedIsMarked'
  BY <1>1 DEF WheelInv, WheelTypes, RevokedIsMarked, Schedule, InTick, Entry
<1>5. InOrder'
  <2>1. \A k \in Nat : k <= now => k <= t.expires_at
    BY <1>0, <1>1, WheelNumbers DEF WheelInv
  <2>2. InTick => tick.popped.expires_at <= now
    BY WheelNumbers DEF WheelInv, InOrder
  <2>3. \A i \in 1..Len(fired) : fired[i].timer.expires_at <= now
    BY WheelNumbers DEF WheelInv, InOrder
  <2> QED
    BY <1>1, <2>1, <2>2, <2>3, WheelNumbers DEF WheelInv, InOrder, Schedule, InTick
<1> QED
  BY <1>2, <1>3, <1>4, <1>5
     DEF WheelInv, OnTimeAndOnce, CancelIsFinal, FiresInExpiryOrder, Schedule

(* Cancel marks the entry of an id that is still in the heap, and only     *)
(* that.                                                                   *)
LEMMA CancelKeeps ==
    ASSUME WheelInv, NEW id \in 1..MaxTimers, Cancel(id)
    PROVE  WheelInv'
<1>1. \A t \in timers' : \E u \in timers :
         /\ t \in Entry /\ t.id = u.id /\ t.expires_at = u.expires_at
         /\ u.cancelled => t.cancelled
         /\ t.id = id => t.cancelled /\ t = [u EXCEPT !.cancelled = TRUE]
         /\ t.id # id => t = u
  BY DEF WheelInv, WheelTypes, Entry, Cancel, Cancelled
<1>2. revoked' \subseteq revoked \union {id}
      /\ (id \in revoked' => id \in revoked \/ \E u \in timers : u.id = id)
  BY DEF Cancel
<1>3. WheelTypes'
  BY <1>1, <1>2, WheelAssumption DEF WheelInv, WheelTypes, Cancel
<1>4. OnePlace'
  <2>1. ASSUME NEW t \in timers', NEW u \in timers', t.id = u.id
        PROVE  t = u
    <3>1. PICK t0 \in timers : /\ t.id = t0.id
                               /\ t.id = id => t = [t0 EXCEPT !.cancelled = TRUE]
                               /\ t.id # id => t = t0
      BY <1>1
    <3>2. PICK u0 \in timers : /\ u.id = u0.id
                               /\ u.id = id => u = [u0 EXCEPT !.cancelled = TRUE]
                               /\ u.id # id => u = u0
      BY <1>1
    <3>3. t0 = u0
      BY <2>1, <3>1, <3>2 DEF WheelInv, OnePlace
    <3> QED
      BY <2>1, <3>1, <3>2, <3>3
  <2> QED
    BY <1>1, <2>1 DEF WheelInv, OnePlace, Cancel, InTick
<1>5. RevokedIsMarked'
  <2>1. \A i \in revoked' : i < next_id'
    BY <1>2 DEF WheelInv, RevokedIsMarked, OnePlace, Cancel
  <2>2. \A t \in timers' : t.id \in revoked' => t.cancelled
    BY <1>1, <1>2 DEF WheelInv, RevokedIsMarked
  <2>3. (InTick /\ tick.popped.id \in revoked => tick.popped.cancelled)'
    BY <1>2 DEF WheelInv, RevokedIsMarked, OnePlace, Cancel, InTick
  <2> QED
    BY <2>1, <2>2, <2>3 DEF RevokedIsMarked
<1>6. InOrder'
  BY <1>1 DEF WheelInv, InOrder, Cancel, InTick
<1>7. CancelIsFinal'
  BY <1>2 DEF WheelInv, CancelIsFinal, OnePlace, Cancel
<1> QED
  BY <1>3, <1>4, <1>5, <1>6, <1>7
     DEF WheelInv, OnTimeAndOnce, FiresInExpiryOrder, Cancel

(* Tick takes a due entry that no other one precedes.                      *)
LEMMA PopFrontKeeps ==
    ASSUME WheelInv, PopFront
    PROVE  WheelInv'
<1>1. PICK t \in timers : /\ t.expires_at <= tick.read
                          /\ \A u \in timers : t.expires_at <= u.expires_at
                          /\ timers' = timers \ {t}
                          /\ tick' = [tick EXCEPT !.popped = t]
  BY DEF PopFront, DueFront
<1>2. t \in Entry /\ t # NoTimer /\ tick'.popped = t /\ tick'.read = tick.read
  BY <1>1 DEF WheelInv, WheelTypes, Entry, NoTimer
<1>3. WheelTypes'
  BY <1>1, <1>2 DEF WheelInv, WheelTypes, PopFront
<1>4. OnePlace'
  BY <1>1, <1>2 DEF WheelInv, OnePlace, PopFront, InTick
<1>5. RevokedIsMarked'
  BY <1>1, <1>2 DEF WheelInv, RevokedIsMarked, PopFront, InTick
<1>6. InOrder'
  BY <1>1, <1>2 DEF WheelInv, InOrder, PopFront, InTick
<1> QED
  BY <1>3, <1>4, <1>5, <1>6
     DEF WheelInv, OnTimeAndOnce, CancelIsFinal, FiresInExpiryOrder, PopFront

(* Each step of Tick, each call and the clock keep the invariant.          *)
LEMMA WheelInvStep == WheelInv /\ [Next]_vars => WheelInv'
<1> SUFFICES ASSUME WheelInv, [Next]_vars PROVE WheelInv'
  OBVIOUS
<1> USE DEF InTick
<1>1. CASE BeginTick
  BY <1>1 DEF WheelInv, BeginTick, WheelTypes, OnePlace, RevokedIsMarked, InOrder,
     OnTimeAndOnce, CancelIsFinal, FiresInExpiryOrder
<1>2. CASE PopFront
  BY <1>2, PopFrontKeeps
<1>3. CASE RunCallback
  BY <1>3, RunCallbackKeeps
<1>4. CASE SkipCancelled
  BY <1>4 DEF WheelInv, SkipCancelled, WheelTypes, OnePlace, RevokedIsMarked, InOrder,
     OnTimeAndOnce, CancelIsFinal, FiresInExpiryOrder
<1>5. CASE EndTick
  BY <1>5 DEF WheelInv, EndTick, Idle, WheelTypes, OnePlace, RevokedIsMarked, InOrder,
     OnTimeAndOnce, CancelIsFinal, FiresInExpiryOrder
<1>6. CASE ClockTick
  <2>1. WheelTypes'
    BY <1>6 DEF WheelInv, ClockTick, WheelTypes
  <2>2. InOrder'
    BY <1>6, WheelNumbers DEF WheelInv, ClockTick, InOrder
  <2> QED
    BY <1>6, <2>1, <2>2 DEF WheelInv, ClockTick, OnePlace, RevokedIsMarked,
       OnTimeAndOnce, CancelIsFinal, FiresInExpiryOrder
<1>7. CASE \E d \in Delay : Schedule(d)
  BY <1>7, ScheduleKeeps
<1>8. CASE \E id \in 1..MaxTimers : Cancel(id)
  BY <1>8, CancelKeeps
<1>9. CASE UNCHANGED vars
  BY <1>9 DEF vars, WheelInv, WheelTypes, OnePlace, RevokedIsMarked, InOrder,
     OnTimeAndOnce, CancelIsFinal, FiresInExpiryOrder
<1> QED
  BY <1>1, <1>2, <1>3, <1>4, <1>5, <1>6, <1>7, <1>8, <1>9 DEF Next, Tick

(* Whatever the schedule of calls, the invariant of the wheel holds.       *)
LEMMA WheelInvariance == Spec => []WheelInv
BY WheelInvInit, WheelInvStep, PTL DEF Spec

(* No callback runs before its delay has passed (timer_wheel.cpp:34) and   *)
(* none runs twice, for any delays, number of timers and clock.            *)
THEOREM FiresOnTimeAndOnce == Spec => []OnTimeAndOnce
BY WheelInvariance, PTL DEF WheelInv

(* A timer that Cancel has revoked while it was in the heap never fires:   *)
(* Tick reads the mark after the pop (timer_wheel.cpp:41).                 *)
THEOREM CancelsAreFinal == Spec => []CancelIsFinal
BY WheelInvariance, PTL DEF WheelInv

(* Callbacks run in the order of their expiry, also across calls of Tick:  *)
(* the heap gives the earliest, and a new timer is due later than all that *)
(* fired.                                                                  *)
THEOREM FiresInOrder == Spec => []FiresInExpiryOrder
BY WheelInvariance, PTL DEF WheelInv
=============================================================================
