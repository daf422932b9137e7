---------------------------- MODULE LruOpsProofs ----------------------------
(***************************************************************************)
(* What DedupCache::Insert does to the remembered ids, for every capacity  *)
(* and every set of ids.                                                   *)
(***************************************************************************)
EXTENDS LruOps, FiniteSets, SequenceTheorems, FiniteSetTheorems, TLAPS

(* A repetition-free sequence loses exactly its head with Tail.            *)
LEMMA TailForgetsHead ==
    ASSUME NEW S, NEW s \in Seq(S), s # << >>, Distinct(s)
    PROVE  /\ Tail(s) \in Seq(S)
           /\ Len(Tail(s)) = Len(s) - 1
           /\ Distinct(Tail(s))
           /\ Ids(Tail(s)) = Ids(s) \ {Head(s)}
<1>1. /\ Tail(s) \in Seq(S)
      /\ Len(s) \in Nat \ {0}
      /\ Len(Tail(s)) = Len(s) - 1
      /\ \A i \in 1..Len(Tail(s)) : Tail(s)[i] = s[i + 1]
      /\ Head(s) = s[1]
  BY HeadTailProperties, LenProperties, EmptySeq
<1>2. Distinct(Tail(s))
  <2> SUFFICES ASSUME NEW i \in 1..Len(Tail(s)), NEW j \in 1..Len(Tail(s)),
                      Tail(s)[i] = Tail(s)[j]
               PROVE  i = j
    BY DEF Distinct
  <2>1. s[i + 1] = s[j + 1] /\ i + 1 \in 1..Len(s) /\ j + 1 \in 1..Len(s)
    BY <1>1
  <2> QED BY <2>1 DEF Distinct
<1>3. Ids(Tail(s)) \subseteq Ids(s) \ {Head(s)}
  <2> SUFFICES ASSUME NEW i \in 1..Len(Tail(s))
               PROVE  Tail(s)[i] \in Ids(s) /\ Tail(s)[i] # s[1]
    BY <1>1 DEF Ids
  <2>1. Tail(s)[i] = s[i + 1] /\ i + 1 \in 1..Len(s) /\ 1 \in 1..Len(s) /\ i + 1 # 1
    BY <1>1
  <2> QED BY <2>1 DEF Distinct, Ids
<1>4. Ids(s) \ {Head(s)} \subseteq Ids(Tail(s))
  <2> SUFFICES ASSUME NEW k \in 1..Len(s), s[k] # s[1]
               PROVE  s[k] \in Ids(Tail(s))
    BY <1>1 DEF Ids
  <2>1. k - 1 \in 1..Len(Tail(s)) /\ Tail(s)[k - 1] = s[k]
    BY <1>1
  <2> QED BY <2>1 DEF Ids
<1> QED BY <1>1, <1>2, <1>3, <1>4

(* Appending a new element keeps a sequence free of repetitions.           *)
LEMMA AppendFresh ==
    ASSUME NEW S, NEW s \in Seq(S), NEW p \in S, Distinct(s), p \notin Ids(s)
    PROVE  /\ Append(s, p) \in Seq(S)
           /\ Len(Append(s, p)) = Len(s) + 1
           /\ Distinct(Append(s, p))
           /\ Ids(Append(s, p)) = Ids(s) \union {p}
<1>1. /\ Append(s, p) \in Seq(S)
      /\ Len(s) \in Nat
      /\ Len(Append(s, p)) = Len(s) + 1
      /\ \A i \in 1..Len(s) : Append(s, p)[i] = s[i]
      /\ Append(s, p)[Len(s) + 1] = p
  BY AppendProperties, LenProperties
<1>2. Distinct(Append(s, p))
  <2> SUFFICES ASSUME NEW i \in 1..(Len(s) + 1), NEW j \in 1..(Len(s) + 1),
                      Append(s, p)[i] = Append(s, p)[j]
               PROVE  i = j
    BY <1>1 DEF Distinct
  <2>1. CASE i \in 1..Len(s) /\ j \in 1..Len(s)
    BY <1>1, <2>1 DEF Distinct
  <2>2. CASE i = Len(s) + 1 /\ j \in 1..Len(s)
    BY <1>1, <2>2 DEF Ids
  <2>3. CASE i \in 1..Len(s) /\ j = Len(s) + 1
    BY <1>1, <2>3 DEF Ids
  <2> QED BY <1>1, <2>1, <2>2, <2>3
<1>3. Ids(Append(s, p)) = Ids(s) \union {p}
  <2>1. Ids(s) \union {p} \subseteq Ids(Append(s, p))
    <3>1. 1..Len(s) \subseteq 1..(Len(s) + 1) /\ Len(s) + 1 \in 1..(Len(s) + 1)
      BY <1>1
    <3> QED BY <1>1, <3>1 DEF Ids
  <2>2. ASSUME NEW i \in 1..(Len(s) + 1)
        PROVE  Append(s, p)[i] \in Ids(s) \union {p}
    <3>1. CASE i \in 1..Len(s)
      BY <1>1, <3>1 DEF Ids
    <3>2. CASE i = Len(s) + 1
      BY <1>1, <3>2
    <3> QED BY <1>1, <3>1, <3>2
  <2> QED BY <1>1, <2>1, <2>2 DEF Ids
<1> QED BY <1>1, <1>2, <1>3

(* Insert of an id that is not there: it is remembered, the oldest id of a *)
(* full cache is forgotten, no other id is touched, and a cache within its *)
(* capacity stays within it (dedup_cache.cpp:21-30).                       *)
THEOREM InsertFresh ==
    ASSUME NEW s \in Seq(PacketId), NEW p \in PacketId,
           Distinct(s), ~ Contains(s, p), Len(s) <= Capacity
    PROVE  /\ Insert(s, p) \in Seq(PacketId)
           /\ Distinct(Insert(s, p))
           /\ Len(Insert(s, p)) <= Capacity
           /\ Ids(Insert(s, p)) = (Ids(s) \union {p}) \ Evicted(s, p)
           /\ Capacity # 0 => Evicted(s, p) \subseteq Ids(s)
<1>0. Len(s) \in Nat /\ Capacity \in Nat
  BY LenProperties, CapacityAssumption
<1>1. CASE Capacity = 0
  <2>1. Len(s) = 0
    BY <1>0, <1>1
  <2>2. Ids(s) = {}
    BY <2>1 DEF Ids
  <2>3. Insert(s, p) = s /\ Evicted(s, p) = {p}
    BY <1>1 DEF Insert, Evicted
  <2> QED BY <1>1, <2>2, <2>3
<1>2. CASE Capacity # 0 /\ Len(s) >= Capacity
  <2>1. s # << >>
    BY <1>0, <1>2, EmptySeq
  <2>2. Insert(s, p) = Append(Tail(s), p)
    BY <1>2 DEF Insert, Admit
  <2>3. Head(s) \in Ids(s)
    BY <2>1, <1>0, HeadTailProperties, EmptySeq DEF Ids
  <2>4. Evicted(s, p) = {Head(s)}
    BY <1>2, <2>3 DEF Evicted
  <2>5. /\ Tail(s) \in Seq(PacketId)
        /\ Len(Tail(s)) = Len(s) - 1
        /\ Distinct(Tail(s))
        /\ Ids(Tail(s)) = Ids(s) \ {Head(s)}
    BY <2>1, TailForgetsHead
  <2>6. p \notin Ids(s)
    BY DEF Contains
  <2>7. /\ Insert(s, p) \in Seq(PacketId)
        /\ Len(Insert(s, p)) = Len(s)
        /\ Distinct(Insert(s, p))
        /\ Ids(Insert(s, p)) = Ids(Tail(s)) \union {p}
    <3>1. p \notin Ids(Tail(s))
      BY <2>5, <2>6
    <3> DEFINE t == Tail(s)
    <3>t. t \in Seq(PacketId) /\ Distinct(t) /\ p \notin Ids(t)
      BY <2>5, <3>1
    <3>2. /\ Append(t, p) \in Seq(PacketId)
          /\ Len(Append(t, p)) = Len(t) + 1
          /\ Distinct(Append(t, p))
          /\ Ids(Append(t, p)) = Ids(t) \union {p}
      <4> HIDE DEF t
      <4> QED BY <3>t, AppendFresh
    <3> QED BY <1>0, <2>2, <2>5, <3>2
  <2> QED BY <2>3, <2>4, <2>5, <2>6, <2>7
<1>3. CASE Capacity # 0 /\ ~ (Len(s) >= Capacity)
  <2>1. Insert(s, p) = Append(s, p) /\ Evicted(s, p) = {}
    BY <1>3 DEF Insert, Admit, Evicted
  <2>2. p \notin Ids(s)
    BY DEF Contains
  <2> QED BY <1>0, <1>3, <2>1, <2>2, AppendFresh
<1> QED BY <1>1, <1>2, <1>3

-----------------------------------------------------------------------------
(* Taking out the k-th element of a repetition-free sequence removes that  *)
(* id and nothing else.                                                    *)
LEMMA DropAtForgetsOne ==
    ASSUME NEW S, NEW s \in Seq(S), NEW k \in 1..Len(s), Distinct(s)
    PROVE  /\ DropAt(s, k) \in Seq(S)
           /\ Len(DropAt(s, k)) = Len(s) - 1
           /\ Distinct(DropAt(s, k))
           /\ Ids(DropAt(s, k)) = Ids(s) \ {s[k]}
<1> DEFINE t == DropAt(s, k)
           n == Len(s)
<1>0. n \in Nat /\ n - 1 \in Nat /\ k \in 1..n /\ \A i \in 1..n : s[i] \in S
  BY LenProperties, ElementOfSeq
<1>1. t = [i \in 1..(n - 1) |-> IF i < k THEN s[i] ELSE s[i + 1]]
  BY DEF DropAt
<1>2. \A i \in 1..(n - 1) : i \in 1..n /\ i + 1 \in 1..n
  BY <1>0
<1>3. t \in [1..(n - 1) -> S]
  BY <1>0, <1>1, <1>2
<1>4. t \in Seq(S) /\ Len(t) = n - 1
  BY <1>0, <1>3, SeqDef, LenProperties
<1>5. \A i \in 1..(n - 1) : \/ i < k /\ t[i] = s[i]
                            \/ i >= k /\ t[i] = s[i + 1]
  BY <1>0, <1>1
<1>d. \A i, j \in 1..n : s[i] = s[j] => i = j
  BY DEF Distinct
<1> HIDE DEF n, t
<1>6. Distinct(t)
  <2> SUFFICES ASSUME NEW i \in 1..(n - 1), NEW j \in 1..(n - 1), t[i] = t[j]
               PROVE  i = j
    BY <1>4 DEF Distinct
  <2>1. CASE i < k /\ j < k
    BY <1>0, <1>2, <1>5, <1>d, <2>1
  <2>2. CASE i < k /\ ~ (j < k)
    BY <1>0, <1>2, <1>5, <1>d, <2>2
  <2>3. CASE ~ (i < k) /\ j < k
    BY <1>0, <1>2, <1>5, <1>d, <2>3
  <2>4. CASE ~ (i < k) /\ ~ (j < k)
    <3>1. s[i + 1] = s[j + 1] /\ i + 1 \in 1..n /\ j + 1 \in 1..n
      BY <1>0, <1>2, <1>5, <2>4
    <3> QED BY <1>0, <1>d, <3>1
  <2> QED BY <2>1, <2>2, <2>3, <2>4
<1>7. ASSUME NEW i \in 1..(n - 1)
      PROVE  t[i] \in Ids(s) \ {s[k]}
  <2>1. PICK j \in 1..n : t[i] = s[j] /\ j # k
    BY <1>0, <1>2, <1>5
  <2> QED BY <1>0, <1>d, <2>1 DEF Ids, n
<1>8. ASSUME NEW j \in 1..n, j # k
      PROVE  \E i \in 1..(n - 1) : t[i] = s[j]
  <2>1. CASE j < k
    BY <1>0, <1>5, <2>1
  <2>2. CASE j > k
    <3>1. j - 1 \in 1..(n - 1) /\ j - 1 >= k /\ (j - 1) + 1 = j
      BY <1>0, <2>2
    <3>2. t[j - 1] = s[(j - 1) + 1]
      BY <1>0, <1>5, <3>1
    <3> QED BY <3>1, <3>2
  <2> QED BY <1>0, <1>8, <2>1, <2>2
<1>9. Ids(t) = Ids(s) \ {s[k]}
  <2>1. Ids(t) \subseteq Ids(s) \ {s[k]}
    BY <1>4, <1>7 DEF Ids
  <2>2. Ids(s) \ {s[k]} \subseteq Ids(t)
    BY <1>4, <1>8 DEF Ids, n
  <2> QED BY <2>1, <2>2
<1> QED BY <1>4, <1>6, <1>9 DEF t, n

(* Insert of an id that is there moves it to the back and forgets none     *)
(* (dedup_cache.cpp:14-19).                                                *)
LEMMA RefreshForgetsNone ==
    ASSUME NEW s \in Seq(PacketId), NEW p \in PacketId, Distinct(s), Contains(s, p)
    PROVE  /\ Refresh(s, p) \in Seq(PacketId)
           /\ Len(Refresh(s, p)) = Len(s)
           /\ Distinct(Refresh(s, p))
           /\ Ids(Refresh(s, p)) = Ids(s)
<1> DEFINE k == Position(s, p)
           t == DropAt(s, k)
<1>1. k \in 1..Len(s) /\ s[k] = p
  BY DEF Contains, Ids, Position
<1> HIDE DEF k
<1>2. /\ t \in Seq(PacketId) /\ Len(t) = Len(s) - 1
      /\ Distinct(t) /\ Ids(t) = Ids(s) \ {p}
  BY <1>1, DropAtForgetsOne
<1>3. Refresh(s, p) = Append(t, p)
  BY DEF Refresh, k
<1>4. p \in Ids(s) /\ Len(s) \in Nat
  BY LenProperties DEF Contains
<1> HIDE DEF t
<1>5. /\ Append(t, p) \in Seq(PacketId) /\ Len(Append(t, p)) = Len(t) + 1
      /\ Distinct(Append(t, p)) /\ Ids(Append(t, p)) = Ids(t) \union {p}
  BY <1>2, AppendFresh
<1>6. Len(t) + 1 = Len(s) /\ Ids(t) \union {p} = Ids(s)
  BY <1>2, <1>4
<1> QED BY <1>3, <1>5, <1>6

(* Insert of any id: it is remembered, what is given up for it is not, and *)
(* nothing else changes (dedup_cache.cpp:10-31).                           *)
THEOREM InsertRemembers ==
    ASSUME NEW s \in Seq(PacketId), NEW p \in PacketId, Distinct(s), Len(s) <= Capacity
    PROVE  /\ Insert(s, p) \in Seq(PacketId)
           /\ Distinct(Insert(s, p))
           /\ Len(Insert(s, p)) <= Capacity
           /\ Ids(Insert(s, p)) = (Ids(s) \union {p}) \ Evicted(s, p)
<1>1. CASE ~ Contains(s, p)
  BY <1>1, InsertFresh
<1>2. CASE Contains(s, p)
  <2>1. Capacity # 0
    BY <1>2, LenProperties DEF Contains, Ids
  <2>2. Insert(s, p) = Refresh(s, p) /\ p \in Ids(s) /\ Evicted(s, p) = {}
    BY <1>2, <2>1 DEF Insert, Contains, Evicted
  <2> QED BY <1>2, <2>2, RefreshForgetsNone
<1> QED BY <1>1, <1>2

(* A repetition-free sequence is as long as it has ids.                    *)
LEMMA DistinctCount ==
    ASSUME NEW S, NEW s \in Seq(S), Distinct(s)
    PROVE  IsFiniteSet(Ids(s)) /\ Cardinality(Ids(s)) = Len(s)
<1>1. Len(s) \in Nat
  BY LenProperties
<1>2. IsFiniteSet(1..Len(s)) /\ Cardinality(1..Len(s)) = Len(s)
  <2>0. 1 \in Int /\ Len(s) \in Int
    BY <1>1
  <2>1. /\ IsFiniteSet(1..Len(s))
        /\ Cardinality(1..Len(s)) = IF 1 > Len(s) THEN 0 ELSE Len(s) - 1 + 1
    BY <2>0, FS_Interval, Zenon
  <2> QED BY <1>1, <2>1
<1> DEFINE f == [i \in 1..Len(s) |-> s[i]]
<1>3. f \in Bijection(1..Len(s), Ids(s))
  <2>1. f \in [1..Len(s) -> Ids(s)] /\ DOMAIN f = 1..Len(s)
    BY DEF Ids
  <2>2. \A i, j \in 1..Len(s) : f[i] = f[j] => i = j
    BY DEF Distinct
  <2>3. \A p \in Ids(s) : \E i \in 1..Len(s) : f[i] = p
    BY DEF Ids
  <2> HIDE DEF f
  <2> QED BY <2>1, <2>2, <2>3 DEF Bijection, Injection, Surjection, IsInjective
<1>4. ExistsBijection(1..Len(s), Ids(s))
  BY <1>3 DEF ExistsBijection
<1> QED BY <1>2, <1>4, FS_Bijection
=============================================================================
