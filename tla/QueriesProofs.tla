--------------------------- MODULE QueriesProofs ---------------------------
(***************************************************************************)
(* Theorems about IdSetPage and TypedList and their proofs.                *)
(*                                                                         *)
(* IdSetPage: the store of retained sets keeps its limits, the locks of    *)
(* builds let one caller build at a time and go when nobody uses them,     *)
(* nobody waits for a lock in vain, and a page shows what the query        *)
(* selects.                                                                *)
(*                                                                         *)
(* TypedList, as MCQueries sets it beside IdSetPage: the related rows of   *)
(* an answer and the numbers beside its rows are true, whatever is written *)
(* between its statements.                                                 *)
(***************************************************************************)
EXTENDS MCQueries, FiniteSetTheorems, SequenceTheorems, WellFoundedInduction, TLAPS


Places == Loops \X Keys
Stations == {"idle", "waiting", "locked", "building", "putting", "page", "plain", "done", "failed"}

\* Those who hold a lock, and those who use one.
Holding == {"locked", "building", "putting"}
Using == Holding \cup {"waiting"}

\* A sequence of distinct rows, as long as a retained set may be.
Retainable == {s \in Seq(Rows) : IsInjective(s) /\ Len(s) <= MaxIds}

\* The IDs the sets of K hold, each place of each set.
Kept(K) == UNION {{k} \X DOMAIN store[k] : k \in K}

\* The store keeps what may be retained within its limits, and knows what it lost.
StoreInv ==
  /\ store \in [Keys -> Retainable \cup {None}]
  /\ expired \subseteq Stored /\ lost \subseteq Keys /\ expired \subseteq lost
  /\ IsFiniteSet(Stored) /\ Cardinality(Stored) <= MaxEntries
  /\ IsFiniteSet(Kept(Stored)) /\ Size(Stored) <= MaxSize

CallType ==
  /\ pc \in [Callers -> Stations]
  /\ asked \in [Callers -> Queries \cup {None}]
  /\ ids \in [Callers -> Retainable]
  /\ lock \in [Callers -> Callers \cup {None}]
  /\ \A c \in Callers : (asked[c] = None <=> pc[c] \in {"idle", "done", "failed"})
                          /\ (lock[c] = None <=> pc[c] \notin Using)

LockType ==
  /\ registry \in [Loops -> [Keys -> Callers \cup {None}]] /\ left \subseteq Places
  /\ holder \in [Callers -> Callers \cup {None}]
  /\ waiters \in [Callers -> Seq(Callers)]

\* A lock and who holds it know each other, and its queue is of those who wait for it.
HolderInv ==
  /\ \A c \in Callers : pc[c] \in Holding => holder[lock[c]] = c
  /\ \A m, h \in Callers : holder[m] = h => lock[h] = m /\ pc[h] \in Holding
Elements(s) == {s[i] : i \in 1 .. Len(s)}
QueueInv ==
  \A m \in Callers :
    /\ IsInjective(waiters[m])
    /\ Elements(waiters[m]) = {c \in Callers : pc[c] = "waiting" /\ lock[c] = m}

\* A lock belongs to one place, and has never been used before its maker's call.
PlaceInv ==
  /\ \A c, d \in Callers : lock[c] # None /\ lock[c] = lock[d] => Here(c) = Here(d)
  /\ \A c \in Callers, l \in Loops, k \in Keys :
       lock[c] # None /\ registry[l][k] = lock[c] => Here(c) = <<l, k>>
  /\ \A l, i \in Loops, k, j \in Keys :
       registry[l][k] # None /\ registry[l][k] = registry[i][j] => l = i /\ k = j
FreshInv ==
  \A c \in Callers : pc[c] = "idle" =>
    /\ holder[c] = None /\ waiters[c] = <<>>
    /\ \A d \in Callers : lock[d] # c
    /\ \A l \in Loops, k \in Keys : registry[l][k] # c

\* A registered lock is held, unless a caller that gave up left it.
HeldInv ==
  \A l \in Loops, k \in Keys :
    registry[l][k] = None \/ <<l, k>> \in left \/ holder[registry[l][k]] # None

\* The keys whose set is in the store or was lost from it.
Known == lost \cup (Stored \ expired)

\* A lock was dropped only when the set was in the store.
DroppedInv ==
  \A c \in Callers : lock[c] # None /\ registry[asked[c].loop][asked[c].key] # lock[c] =>
    asked[c].key \in Known

TableInv == rows \subseteq Rows /\ changes \in 0 .. MaxChanges /\ (reply # None => reply.by \in Callers)

LocksInv == CallType /\ LockType /\ HolderInv /\ QueueInv /\ PlaceInv /\ FreshInv /\ HeldInv
IInv == TableInv /\ StoreInv /\ LocksInv /\ DroppedInv /\ SingleFlight

-----------------------------------------------------------------------------
(* Sorting *)

\* A finite set of numbers has a greatest: the one whose set of numbers from it on
\* has no smaller one in it.
LEMMA GreatestElement ==
  ASSUME NEW S, S \subseteq Int, S # {}, IsFiniteSet(S)
  PROVE  \E m \in S : \A n \in S : m >= n
<1> DEFINE above(m) == {n \in S : n >= m}
           all == {above(m) : m \in S}
<1>1. all # {} /\ all \subseteq FiniteSubsetsOf(S)
  <2>1. \A m \in S : above(m) \in SUBSET S /\ IsFiniteSet(above(m))
    BY FS_Subset
  <2> QED
    BY <2>1 DEF FiniteSubsetsOf
<1> HIDE DEF all
<1>2. PICK least \in all : \A other \in all : <<other, least>> \notin StrictSubsetOrdering(S)
  BY <1>1, WFMin, FS_StrictSubsetOrderingWellFounded
<1>3. PICK m \in S : least = above(m)
  BY <1>2 DEF all
<1>4. ASSUME NEW n \in S, ~(m >= n)
      PROVE  FALSE
  <2>1. above(n) \in all
    BY DEF all
  <2>2. n \in Int /\ m \in Int /\ \A k \in S : k \in Int
    OBVIOUS
  <2>3. m \in above(m) /\ m \notin above(n)
    BY <1>4, <2>2
  <2>4. \A k \in S : k >= n => k >= m
    BY <1>4, <2>2
  <2>5. above(n) \subseteq above(m)
    BY <2>4
  <2>6. <<above(n), least>> \in StrictSubsetOrdering(S)
    BY <1>3, <2>3, <2>5 DEF StrictSubsetOrdering
  <2> QED
    BY <1>2, <2>1, <2>6
<1> QED
  BY <1>3, <1>4

Sorts(s, S) ==
  s \in [1 .. Cardinality(S) -> S] /\ \A i, j \in 1 .. Cardinality(S) : i < j => s[i] < s[j]

\* A finite set of numbers can be sorted: of the sets that cannot, a smallest one
\* without its greatest element can.
LEMMA CanBeSorted ==
  ASSUME NEW S, S \subseteq Int, IsFiniteSet(S)
  PROVE  \E s : Sorts(s, S)
<1> DEFINE unsorted == {T \in SUBSET S : \A s : ~Sorts(s, T)}
<1>1. SUFFICES ASSUME unsorted # {} PROVE FALSE
  OBVIOUS
<1>2. unsorted \subseteq FiniteSubsetsOf(S)
  BY FS_Subset DEF FiniteSubsetsOf
<1>3. PICK T \in unsorted : \A U \in unsorted : <<U, T>> \notin StrictSubsetOrdering(S)
  <2> HIDE DEF unsorted
  <2> QED
    BY <1>1, <1>2, WFMin, FS_StrictSubsetOrderingWellFounded
<1>4. T \subseteq S /\ T \subseteq Int /\ IsFiniteSet(T) /\ \A s : ~Sorts(s, T)
  BY FS_Subset
<1>5. T # {}
  <2>1. CASE T = {}
    <3>1. Cardinality(T) = 0
      BY <2>1, FS_EmptySet
    <3>2. [i \in 1 .. 0 |-> 0] \in [1 .. Cardinality(T) -> T]
      BY <3>1
    <3>3. Sorts([i \in 1 .. 0 |-> 0], T)
      BY <3>1, <3>2 DEF Sorts
    <3> QED
      BY <1>4, <3>3
  <2> QED
    BY <2>1
<1>6. PICK m \in T : \A n \in T : m >= n
  BY <1>4, <1>5, GreatestElement
<1> DEFINE U == T \ {m}
<1>7. U \subseteq T /\ U \subseteq S /\ m \notin U /\ U \cup {m} = T
  BY <1>4, <1>6
<1>8. <<U, T>> \in StrictSubsetOrdering(S)
  BY <1>4, <1>6, <1>7 DEF StrictSubsetOrdering
<1>9. PICK s : Sorts(s, U)
  BY <1>3, <1>7, <1>8
<1>10. Cardinality(U) \in Nat /\ Cardinality(T) = Cardinality(U) + 1
  <2>1. IsFiniteSet(U)
    BY <1>4, <1>7, FS_Subset
  <2> QED
    BY <1>7, <2>1, FS_AddElement, FS_CardinalityType
<1>11. m \in Int /\ \A n \in U : n \in Int /\ n < m
  BY <1>4, <1>6, <1>7
<1> DEFINE k == Cardinality(U)
           longer == [i \in 1 .. k + 1 |-> IF i = k + 1 THEN m ELSE s[i]]
<1>12. k \in Nat /\ s \in [1 .. k -> U] /\ \A i, j \in 1 .. k : i < j => s[i] < s[j]
  BY <1>9, <1>10 DEF Sorts
<1>13. Cardinality(T) = k + 1
  BY <1>10
<1> HIDE DEF U, k
<1>14. \A i \in 1 .. k + 1 : i \in 1 .. k \/ i = k + 1
  BY <1>12
<1>15. longer \in [1 .. k + 1 -> T]
  BY <1>6, <1>7, <1>12, <1>14
<1>16. ASSUME NEW i \in 1 .. k + 1, NEW j \in 1 .. k + 1, i < j
       PROVE  longer[i] < longer[j]
  <2>1. i \in 1 .. k
    BY <1>12, <1>16
  <2>2. longer[i] = s[i] /\ s[i] \in U
    BY <1>12, <2>1
  <2>3. CASE j = k + 1
    BY <1>11, <2>2, <2>3
  <2>4. CASE j \in 1 .. k
    <3>1. longer[j] = s[j] /\ s[i] < s[j]
      BY <1>12, <1>16, <2>1, <2>4
    <3> QED
      BY <2>2, <3>1
  <2> QED
    BY <1>14, <2>3, <2>4
<1> HIDE DEF longer
<1>17. Sorts(longer, T)
  BY <1>13, <1>15, <1>16 DEF Sorts
<1> QED
  BY <1>4, <1>17

LEMMA InOrderSorts ==
  ASSUME NEW S, S \subseteq Int, IsFiniteSet(S)
  PROVE  Sorts(InOrder(S), S)
<1>1. \E z \in [1 .. Cardinality(S) -> S] : \A i, j \in 1 .. Cardinality(S) : i < j => z[i] < z[j]
  BY CanBeSorted DEF Sorts
<1> QED
  BY <1>1 DEF InOrder, Sorts

\* The IDs a build collects are sorted, distinct, and as many as there are rows.
LEMMA Collected ==
  ASSUME NEW S \in SUBSET Rows
  PROVE  InOrder(S) \in Seq(Rows) /\ IsInjective(InOrder(S)) /\ Len(InOrder(S)) = Cardinality(S)
<1> DEFINE n == Cardinality(S)
           s == InOrder(S)
<1>1. S \subseteq Int /\ IsFiniteSet(S)
  BY RowsAssumption, FS_Subset DEF RowsAssumption
<1>2. n \in Nat
  BY <1>1, FS_CardinalityType
<1>3. Sorts(s, S)
  BY <1>1, InOrderSorts
<1>4. s \in [1 .. n -> S] /\ \A i, j \in 1 .. n : i < j => s[i] < s[j]
  BY <1>3 DEF Sorts
<1> HIDE DEF s, n
<1>5. s \in Seq(Rows) /\ Len(s) = n
  <2>1. s \in [1 .. n -> Rows]
    BY <1>4
  <2> QED
    BY <1>2, <2>1, IsASeq, LenProperties
<1>6. IsInjective(s)
  <2> SUFFICES ASSUME NEW i \in 1 .. n, NEW j \in 1 .. n, s[i] = s[j]
               PROVE  i = j
    BY <1>4 DEF IsInjective
  <2>1. s[i] \in Int /\ i \in Int /\ j \in Int
    <3>1. s[i] \in S
      BY <1>4
    <3>2. s[i] \in Int
      BY <1>1, <3>1
    <3> QED
      BY <1>2, <3>2
  <2>2. ~(i < j) /\ ~(j < i)
    BY <1>4, <2>1
  <2> QED
    BY <2>1, <2>2
<1> QED
  BY <1>5, <1>6 DEF s, n

-----------------------------------------------------------------------------
(* The store *)

NeverStored == \A s \in Seq(Rows) : s # None

LEMMA NotNone == NeverStored
BY NoneAssumption DEF NoneAssumption, NeverStored

LEMMA SweptKeeps ==
  ASSUME StoreInv, NEW k \in Keys, Swept(k)
  PROVE  StoreInv' /\ Stored' \ expired' = Stored \ expired /\ Known' = Known /\ lost' = lost
<1> DEFINE kept == IF k \in expired THEN Stored \ {k} ELSE Stored
<1>1. /\ store' \in [Keys -> Retainable \cup {None}]
      /\ Stored' = kept
      /\ \A j \in Stored' : store'[j] = store[j]
  BY DEF StoreInv, Swept, Stored
<1>2. expired' = expired \ {k} /\ lost' = lost
  BY DEF Swept
<1>3. Stored' \ expired' = Stored \ expired /\ expired' \subseteq Stored'
  BY <1>1, <1>2 DEF StoreInv
<1>4. IsFiniteSet(Stored') /\ Cardinality(Stored') <= Cardinality(Stored) /\ Stored' \subseteq Stored
  BY <1>1, FS_Subset DEF StoreInv
<1>5. Kept(Stored)' \subseteq Kept(Stored)
  BY <1>1, <1>4 DEF Kept
<1>6. /\ IsFiniteSet(Kept(Stored)') /\ Cardinality(Kept(Stored)') <= Cardinality(Kept(Stored))
      /\ Size(Stored) = Cardinality(Kept(Stored)) /\ Size(Stored)' = Cardinality(Kept(Stored)')
  BY <1>5, FS_Subset DEF StoreInv, Size, Kept
<1> QED
  <2>1. Cardinality(Stored) \in Nat /\ Cardinality(Stored') \in Nat /\ Cardinality(Kept(Stored)) \in Nat
        /\ Cardinality(Kept(Stored)') \in Nat
    BY <1>4, <1>6, FS_CardinalityType DEF StoreInv
  <2>2. MaxEntries \in Nat /\ MaxSize \in Nat
    BY PagingAssumption DEF PagingAssumption
  <2>3. Cardinality(Stored') <= MaxEntries
    BY <1>4, <2>1, <2>2 DEF StoreInv
  <2>4. Size(Stored)' <= MaxSize
    BY <1>6, <2>1, <2>2 DEF StoreInv
  <2>5. StoreInv'
    BY <1>1, <1>2, <1>3, <1>4, <1>6, <2>3, <2>4 DEF StoreInv
  <2> QED
    BY <1>2, <1>3, <2>5 DEF Known

\* A set put into the store is found there, and the sets it displaced are known lost.
LEMMA PutKeeps ==
  ASSUME StoreInv, NEW k \in Keys, NEW s \in Retainable, Put(k, s)
  PROVE  StoreInv' /\ Known \subseteq Known' /\ k \in Known' /\ lost \subseteq lost'
<1> DEFINE roomy == {K \in SUBSET Stored : Room(K, Len(s))}
<1>1. PICK K \in roomy :
        /\ store' = [j \in Keys |-> IF j = k THEN s ELSE IF j \in K THEN store[j] ELSE None]
        /\ expired' = (expired \cap K) \ {k}
        /\ lost' = lost \cup (Stored \ (K \cup {k}))
  BY DEF Put, PutWithin
<1>2. K \subseteq Stored /\ Room(K, Len(s)) /\ Len(s) <= MaxSize
  BY DEF Put, PutWithin
<1> HIDE DEF roomy
<1>3. s \in Seq(Rows) /\ s # None /\ Len(s) \in Nat /\ DOMAIN s = 1 .. Len(s)
  BY NotNone, LenProperties DEF Retainable, NeverStored
<1>4. /\ store' \in [Keys -> Retainable \cup {None}]
      /\ Stored' = K \cup {k}
      /\ store'[k] = s
      /\ \A j \in K : j # k => store'[j] = store[j]
  BY <1>1, <1>2, <1>3 DEF StoreInv, Stored
<1>5. IsFiniteSet(K) /\ Cardinality(K) \in Nat /\ IsFiniteSet(Stored') /\ Cardinality(Stored') \in Nat
  BY <1>2, <1>4, FS_Subset, FS_AddElement, FS_CardinalityType DEF StoreInv
<1>6. MaxEntries \in Nat \ {0} /\ MaxSize \in Nat
  BY PagingAssumption DEF PagingAssumption
<1>7. Cardinality(Stored') <= MaxEntries
  <2>1. Cardinality(Stored') <= Cardinality(K) + 1
    BY <1>4, <1>5, FS_AddElement
  <2>2. K = {} => Cardinality(K) = 0
    BY FS_EmptySet
  <2> QED
    BY <1>2, <1>5, <1>6, <2>1, <2>2 DEF Room
<1> DEFINE new == {k} \X DOMAIN s
<1>8. Kept(Stored)' \subseteq Kept(K) \cup new
  BY <1>4 DEF Kept
<1>9. IsFiniteSet(Kept(K)) /\ Cardinality(Kept(K)) \in Nat
  <2>1. Kept(K) \subseteq Kept(Stored)
    BY <1>2 DEF Kept
  <2> QED
    BY <2>1, FS_Subset, FS_CardinalityType DEF StoreInv
<1>10. IsFiniteSet(new) /\ Cardinality(new) = Len(s)
  <2>1. IsFiniteSet(1 .. Len(s)) /\ Cardinality(1 .. Len(s)) = Len(s)
    BY <1>3, FS_Interval
  <2>2. IsFiniteSet({k}) /\ Cardinality({k}) = 1
    BY FS_Singleton
  <2>3. Cardinality({k} \X (1 .. Len(s))) = 1 * Len(s) /\ IsFiniteSet({k} \X (1 .. Len(s)))
    BY <2>1, <2>2, FS_Product
  <2>4. 1 * Len(s) = Len(s)
    <3>1. \A n \in Nat : 1 * n = n
      OBVIOUS
    <3> QED
      BY <1>3, <3>1
  <2>5. new = {k} \X (1 .. Len(s))
    BY <1>3
  <2> HIDE DEF new
  <2> QED
    BY <2>3, <2>4, <2>5
<1> HIDE DEF new
<1>11. /\ IsFiniteSet(Kept(K) \cup new) /\ Cardinality(Kept(K) \cup new) \in Nat
       /\ Cardinality(Kept(K) \cup new) <= Cardinality(Kept(K)) + Len(s)
  <2>1. /\ IsFiniteSet(Kept(K) \cup new)
        /\ Cardinality(Kept(K) \cup new) = Cardinality(Kept(K)) + Cardinality(new) - Cardinality(Kept(K) \cap new)
    BY <1>9, <1>10, FS_Union
  <2>2. Cardinality(Kept(K) \cap new) \in Nat
    BY <1>9, FS_Intersection, FS_CardinalityType
  <2> QED
    BY <1>3, <1>9, <1>10, <2>1, <2>2, FS_CardinalityType
<1>12. /\ IsFiniteSet(Kept(Stored)') /\ Cardinality(Kept(Stored)') \in Nat
       /\ Cardinality(Kept(Stored)') <= Cardinality(Kept(K) \cup new)
  BY <1>8, <1>11, FS_Subset, FS_CardinalityType
<1>13. Size(Stored)' <= MaxSize
  <2>1. Size(K) = Cardinality(Kept(K)) /\ Size(Stored)' = Cardinality(Kept(Stored)')
    BY DEF Size, Kept
  <2>2. CASE K = {}
    <3>1. Kept(K) = {}
      BY <2>2 DEF Kept
    <3>2. Cardinality(Kept(K)) = 0
      BY <3>1, FS_EmptySet
    <3> QED
      BY <1>2, <1>3, <1>6, <1>11, <1>12, <2>1, <3>2
  <2>3. CASE Size(K) + Len(s) <= MaxSize
    BY <1>3, <1>6, <1>9, <1>11, <1>12, <2>1, <2>3
  <2> QED
    BY <1>2, <2>2, <2>3 DEF Room
<1>14. /\ expired' \subseteq Stored' /\ expired' \subseteq lost' /\ lost' \subseteq Keys
       /\ lost \subseteq lost' /\ k \in Stored' \ expired'
  BY <1>1, <1>4 DEF StoreInv, Stored
<1>15. StoreInv'
  BY <1>4, <1>5, <1>7, <1>12, <1>13, <1>14 DEF StoreInv
<1>16. Known \subseteq Known'
  BY <1>1, <1>4, <1>14 DEF Known
<1> QED
  BY <1>14, <1>15, <1>16 DEF Known

LEMMA ExpireKeeps ==
  ASSUME StoreInv, NEW k \in Keys, Expire(k)
  PROVE  StoreInv' /\ Known \subseteq Known' /\ lost \subseteq lost'
<1>1. expired' = expired \cup {k} /\ lost' = lost \cup {k} /\ store' = store /\ k \in Stored
  BY DEF Expire
<1>2. Stored' = Stored /\ Kept(Stored)' = Kept(Stored) /\ Size(Stored)' = Size(Stored)
  BY <1>1 DEF Stored, Kept, Size
<1>3. StoreInv'
  BY <1>1, <1>2 DEF StoreInv, Stored
<1> QED
  BY <1>1, <1>2, <1>3 DEF Known

-----------------------------------------------------------------------------
(* Queues *)

LEMMA Enqueued ==
  ASSUME NEW s \in Seq(Callers), IsInjective(s), NEW c \in Callers, c \notin Elements(s)
  PROVE  /\ Append(s, c) \in Seq(Callers) /\ IsInjective(Append(s, c))
         /\ Elements(Append(s, c)) = Elements(s) \cup {c}
<1> DEFINE n == Len(s)
           t == Append(s, c)
<1>1. /\ n \in Nat /\ DOMAIN s = 1 .. n /\ t \in Seq(Callers)
      /\ Len(t) = n + 1 /\ DOMAIN t = 1 .. n + 1
      /\ (\A i \in 1 .. n : t[i] = s[i]) /\ t[n + 1] = c
  BY AppendProperties, LenProperties
<1>2. (\A i, j \in 1 .. n : s[i] = s[j] => i = j) /\ (\A i \in 1 .. n : s[i] # c)
  BY <1>1 DEF IsInjective, Elements
<1>3. Elements(s) = {s[i] : i \in 1 .. n} /\ Elements(t) = {t[i] : i \in 1 .. n + 1}
  BY <1>1 DEF Elements
<1> HIDE DEF n, t
<1>4. \A i \in 1 .. n + 1 : i \in 1 .. n \/ i = n + 1
  BY <1>1
<1>5. IsInjective(t)
  <2>1. \A i, j \in 1 .. n + 1 : t[i] = t[j] => i = j
    BY <1>1, <1>2, <1>4
  <2> QED
    BY <1>1, <2>1 DEF IsInjective
<1>6. 1 .. n + 1 = 1 .. n \cup {n + 1}
  BY <1>1
<1>7. Elements(t) = Elements(s) \cup {c}
  BY <1>1, <1>3, <1>6
<1> QED
  BY <1>1, <1>5, <1>7 DEF t

LEMMA Removed ==
  ASSUME NEW s \in Seq(Callers), IsInjective(s), NEW k \in 1 .. Len(s)
  PROVE  /\ RemoveAt(s, k) \in Seq(Callers) /\ IsInjective(RemoveAt(s, k))
         /\ Elements(RemoveAt(s, k)) = Elements(s) \ {s[k]}
<1> DEFINE n == Len(s)
           t == RemoveAt(s, k)
           before == SubSeq(s, 1, k - 1)
           after == SubSeq(s, k + 1, n)
<1>1. /\ n \in Nat /\ k \in Nat /\ k >= 1 /\ k <= n /\ DOMAIN s = 1 .. n
      /\ \A i \in 1 .. n : s[i] \in Callers
  BY LenProperties
<1>2. /\ before \in Seq(Callers) /\ Len(before) = k - 1
      /\ \A i \in 1 .. k - 1 : before[i] = s[i]
  <2> DEFINE m == k - 1
  <2>1. m \in Int /\ m <= n /\ (1 <= m => m - 1 + 1 = m) /\ (~(1 <= m) => m = 0)
    BY <1>1
  <2>2. \A i \in 1 .. m : s[i] \in Callers
    BY <1>1
  <2> HIDE DEF m
  <2>3. /\ SubSeq(s, 1, m) \in Seq(Callers)
        /\ Len(SubSeq(s, 1, m)) = IF 1 <= m THEN m - 1 + 1 ELSE 0
        /\ \A i \in 1 .. m - 1 + 1 : SubSeq(s, 1, m)[i] = s[1 + i - 1]
    BY <2>1, <2>2, SubSeqProperties
  <2>4. \A i \in 1 .. m : i \in 1 .. m - 1 + 1 /\ 1 + i - 1 = i
    BY <2>1
  <2>5. /\ SubSeq(s, 1, m) \in Seq(Callers) /\ Len(SubSeq(s, 1, m)) = m
        /\ \A i \in 1 .. m : SubSeq(s, 1, m)[i] = s[i]
    BY <2>1, <2>3, <2>4
  <2> QED
    BY <2>5 DEF m
<1>3. /\ after \in Seq(Callers) /\ Len(after) = n - k
      /\ \A i \in 1 .. n - k : after[i] = s[k + i]
  <2> HIDE DEF n, t, before
  <2> DEFINE m == k + 1
  <2>1. m \in Int /\ n \in Int /\ (m <= n => n - m + 1 = n - k) /\ (~(m <= n) => n - k = 0)
    BY <1>1
  <2>2. \A i \in m .. n : s[i] \in Callers
    BY <1>1
  <2>3. \A i \in 1 .. n - k : i \in 1 .. n - m + 1 /\ m + i - 1 = k + i
    BY <1>1
  <2> HIDE DEF m
  <2>4. /\ SubSeq(s, m, n) \in Seq(Callers)
        /\ Len(SubSeq(s, m, n)) = IF m <= n THEN n - m + 1 ELSE 0
        /\ \A i \in 1 .. n - m + 1 : SubSeq(s, m, n)[i] = s[m + i - 1]
    BY <2>1, <2>2, SubSeqProperties
  <2>5. \A i \in 1 .. n - k : SubSeq(s, m, n)[i] = s[k + i]
    BY <2>3, <2>4
  <2>6. /\ SubSeq(s, m, n) \in Seq(Callers) /\ Len(SubSeq(s, m, n)) = n - k
    BY <2>1, <2>4
  <2> QED
    BY <2>5, <2>6 DEF m
<1>4. t = before \o after
  BY DEF RemoveAt
<1> HIDE DEF before, after, t, n
<1>5. /\ t \in Seq(Callers) /\ Len(t) = n - 1 /\ DOMAIN t = 1 .. n - 1
      /\ \A i \in 1 .. n - 1 : t[i] = IF i < k THEN s[i] ELSE s[i + 1]
  <2>1. t \in Seq(Callers) /\ Len(t) = n - 1
    <3>1. t \in Seq(Callers) /\ Len(t) = Len(before) + Len(after)
      BY <1>2, <1>3, <1>4, ConcatProperties
    <3>2. (k - 1) + (n - k) = n - 1
      BY <1>1
    <3> QED
      BY <1>2, <1>3, <3>1, <3>2
  <2>2. ASSUME NEW i \in 1 .. n - 1
        PROVE  t[i] = IF i < k THEN s[i] ELSE s[i + 1]
    <3>1. CASE i < k
      BY <1>1, <1>2, <1>3, <1>4, <2>1, <3>1, ConcatProperties
    <3>2. CASE i >= k
      <4>1. t[i] = after[i - (k - 1)]
        BY <1>1, <1>2, <1>3, <1>4, <2>1, <3>2, ConcatProperties
      <4>2. i - (k - 1) \in 1 .. n - k /\ k + (i - (k - 1)) = i + 1
        BY <1>1, <3>2
      <4>3. after[i - (k - 1)] = s[k + (i - (k - 1))]
        BY <1>3, <4>2
      <4>4. after[i - (k - 1)] = s[i + 1] /\ ~(i < k)
        BY <1>1, <3>2, <4>2, <4>3
      <4> QED
        BY <4>1, <4>4
    <3> QED
      BY <1>1, <3>1, <3>2
  <2> QED
    BY <2>1, <2>2, LenProperties
<1>6. \A i, j \in 1 .. n : s[i] = s[j] => i = j
  BY <1>1 DEF IsInjective
<1>7. IsInjective(t)
  <2> SUFFICES ASSUME NEW i \in 1 .. n - 1, NEW j \in 1 .. n - 1, t[i] = t[j]
               PROVE  i = j
    BY <1>5 DEF IsInjective
  <2>1. i \in 1 .. n /\ i + 1 \in 1 .. n /\ j \in 1 .. n /\ j + 1 \in 1 .. n
    BY <1>1
  <2> QED
    BY <1>1, <1>5, <1>6, <2>1
<1>8. Elements(t) = Elements(s) \ {s[k]}
  <2>1. Elements(s) = {s[i] : i \in 1 .. n} /\ Elements(t) = {t[i] : i \in 1 .. n - 1}
    BY <1>5 DEF Elements, n
  <2>2. \A i \in 1 .. n - 1 : t[i] \in Elements(s) /\ t[i] # s[k]
    <3> TAKE i \in 1 .. n - 1
    <3>1. i \in 1 .. n /\ i + 1 \in 1 .. n /\ (i < k => i # k) /\ (~(i < k) => i + 1 # k)
      BY <1>1
    <3> QED
      BY <1>1, <1>5, <1>6, <2>1, <3>1
  <2>3. \A i \in 1 .. n : i # k => s[i] \in Elements(t)
    <3> TAKE i \in 1 .. n
    <3>1. CASE i < k
      <4>1. i \in 1 .. n - 1 /\ t[i] = s[i]
        BY <1>1, <1>5, <3>1
      <4> QED
        BY <2>1, <4>1
    <3>2. CASE i > k
      <4>1. i - 1 \in 1 .. n - 1 /\ ~(i - 1 < k) /\ (i - 1) + 1 = i
        BY <1>1, <3>2
      <4>2. t[i - 1] = s[i]
        BY <1>5, <4>1
      <4> QED
        BY <2>1, <4>1, <4>2
    <3> QED
      BY <1>1, <3>1, <3>2
  <2> QED
    BY <2>1, <2>2, <2>3
<1> QED
  BY <1>5, <1>7, <1>8 DEF t

LEMMA Dequeued ==
  ASSUME NEW s \in Seq(Callers), IsInjective(s), s # <<>>
  PROVE  /\ Tail(s) \in Seq(Callers) /\ IsInjective(Tail(s))
         /\ Elements(Tail(s)) = Elements(s) \ {Head(s)}
<1> DEFINE n == Len(s)
           t == Tail(s)
<1>1. n \in Nat /\ n # 0 /\ DOMAIN s = 1 .. n
  BY LenProperties, EmptySeq
<1>2. /\ t \in Seq(Callers) /\ Len(t) = n - 1 /\ DOMAIN t = 1 .. n - 1
      /\ \A i \in 1 .. n - 1 : t[i] = s[i + 1]
  BY <1>1, HeadTailProperties, LenProperties
<1>3. Head(s) = s[1]
  OBVIOUS
<1>4. \A i, j \in 1 .. n : s[i] = s[j] => i = j
  BY <1>1 DEF IsInjective
<1>5. Elements(s) = {s[i] : i \in 1 .. n} /\ Elements(t) = {t[i] : i \in 1 .. n - 1}
  BY <1>2 DEF Elements
<1> HIDE DEF n, t
<1>6. IsInjective(t)
  <2> SUFFICES ASSUME NEW i \in 1 .. n - 1, NEW j \in 1 .. n - 1, t[i] = t[j]
               PROVE  i = j
    BY <1>2 DEF IsInjective
  <2>1. i + 1 \in 1 .. n /\ j + 1 \in 1 .. n
    BY <1>1
  <2> QED
    BY <1>1, <1>2, <1>4, <2>1
<1>7. Elements(t) = Elements(s) \ {s[1]}
  <2>1. \A i \in 1 .. n - 1 : t[i] \in Elements(s) /\ t[i] # s[1]
    <3> TAKE i \in 1 .. n - 1
    <3>1. i + 1 \in 1 .. n /\ 1 \in 1 .. n /\ i + 1 # 1
      BY <1>1
    <3> QED
      BY <1>2, <1>4, <1>5, <3>1
  <2>2. \A i \in 1 .. n : i # 1 => s[i] \in Elements(t)
    <3> TAKE i \in 1 .. n
    <3>1. i # 1 => i - 1 \in 1 .. n - 1 /\ (i - 1) + 1 = i
      BY <1>1
    <3> QED
      BY <1>2, <1>5, <3>1
  <2> QED
    BY <1>5, <2>1, <2>2
<1> QED
  BY <1>2, <1>3, <1>6, <1>7 DEF t

-----------------------------------------------------------------------------
(* The locks *)

LEMMA StartOfPages == Init => IInv
<1> SUFFICES ASSUME Init PROVE IInv
  OBVIOUS
<1>1. Stored = {} /\ store \in [Keys -> Retainable \cup {None}]
  BY DEF Init, Stored
<1>2. Kept(Stored) = {} /\ Size(Stored) = Cardinality(Kept(Stored))
  BY <1>1 DEF Kept, Size
<1>3. MaxEntries \in Nat /\ MaxSize \in Nat /\ MaxIds \in Nat /\ MaxChanges \in Nat
  BY PagingAssumption DEF PagingAssumption
<1>4. StoreInv
  <2>1. IsFiniteSet({}) /\ Cardinality({}) = 0
    BY FS_EmptySet
  <2>2. Cardinality(Stored) <= MaxEntries /\ Size(Stored) <= MaxSize
    BY <1>1, <1>2, <1>3, <2>1
  <2>3. IsFiniteSet(Stored) /\ IsFiniteSet(Kept(Stored)) /\ expired = {} /\ lost = {}
    BY <1>1, <1>2, <2>1 DEF Init
  <2> QED
    BY <1>1, <2>2, <2>3 DEF StoreInv
<1>5. TableInv
  BY <1>3 DEF TableInv, Init
<1>6. <<>> \in Retainable /\ <<>> \in Seq(Callers) /\ Len(<<>>) = 0
  <2>1. <<>> \in Seq(Rows) /\ <<>> \in Seq(Callers) /\ Len(<<>>) = 0 /\ DOMAIN <<>> = {}
    BY EmptySeq, LenProperties
  <2>2. IsInjective(<<>>)
    BY <2>1 DEF IsInjective
  <2> QED
    BY <1>3, <2>1, <2>2 DEF Retainable
<1>7. CallType /\ LockType
  BY <1>6 DEF CallType, LockType, Init, Stations, Using, Holding, Places
<1>8. None \notin Callers
  BY NoneAssumption DEF NoneAssumption
<1>9. HolderInv /\ PlaceInv /\ FreshInv /\ HeldInv /\ DroppedInv
  BY <1>8 DEF HolderInv, PlaceInv, FreshInv, HeldInv, DroppedInv, Init, Holding, Places
<1>10. QueueInv
  <2>1. \A m \in Callers : waiters[m] = <<>> /\ pc[m] = "idle"
    BY DEF Init
  <2>2. IsInjective(<<>>) /\ Elements(<<>>) = {}
    BY <1>6 DEF Retainable, Elements
  <2> QED
    BY <2>1, <2>2 DEF QueueInv
<1>11. SingleFlight
  BY DEF SingleFlight, Building, Init
<1> QED
  BY <1>4, <1>5, <1>7, <1>9, <1>10, <1>11 DEF IInv, LocksInv

\* Caller c comes to stand at to, and the others stay where they are with what they asked.
Comes(c, to) ==
  /\ pc' = [pc EXCEPT ![c] = to]
  /\ asked' \in [Callers -> Queries \cup {None}]
  /\ \A d \in Callers : d # c => asked'[d] = asked[d]
  /\ asked'[c] = None <=> to \in {"idle", "done", "failed"}
  /\ ids' \in [Callers -> Retainable]

\* Callers who wait for no lock and give none back leave the locks alone.
LEMMA LocksStay ==
  ASSUME LocksInv, NEW c \in Callers, NEW to \in Stations, Comes(c, to),
         UNCHANGED <<lock, locks>>,
         \/ pc[c] \in Holding /\ to \in Holding /\ asked'[c] = asked[c]
         \/ pc[c] \notin Using /\ to \notin Using \cup {"idle"}
  PROVE  LocksInv' /\ (DroppedInv /\ Known \subseteq Known' => DroppedInv')
<1> USE DEF LocksInv
<1>1. lock' = lock /\ registry' = registry /\ holder' = holder /\ waiters' = waiters /\ left' = left
  BY DEF locks
<1>2. /\ pc'[c] = to /\ \A d \in Callers : d # c => pc'[d] = pc[d] /\ asked'[d] = asked[d]
      /\ \A d \in Callers : (pc'[d] \in Using <=> pc[d] \in Using) /\ (pc'[d] \in Holding <=> pc[d] \in Holding)
      /\ \A d \in Callers : pc'[d] = "waiting" <=> pc[d] = "waiting"
      /\ \A d \in Callers : pc'[d] = "idle" => pc[d] = "idle"
  BY DEF Comes, CallType, Using, Holding
<1>3. CallType'
  BY <1>1, <1>2 DEF CallType, Comes
<1>4. LockType' /\ HolderInv' /\ QueueInv' /\ FreshInv' /\ HeldInv'
  BY <1>1, <1>2 DEF LockType, HolderInv, QueueInv, FreshInv, HeldInv
<1>5. \A d \in Callers : lock[d] # None => asked'[d] = asked[d]
  BY <1>2 DEF CallType
<1>6. PlaceInv'
  BY <1>1, <1>5 DEF PlaceInv, Here
<1>7. DroppedInv /\ Known \subseteq Known' => DroppedInv'
  BY <1>1, <1>5 DEF DroppedInv
<1> QED
  BY <1>3, <1>4, <1>6, <1>7

\* A caller with a query of its own finds the lock of its place, or makes it.
LEMMA Takes ==
  ASSUME LocksInv, NEW c \in Callers, NEW q \in Queries, pc[c] = "idle",
         asked' = [asked EXCEPT ![c] = q], ids' = ids, TakeLock(c, q)
  PROVE  LocksInv' /\ (DroppedInv /\ Known \subseteq Known' => DroppedInv') /\ pc'[c] \in {"locked", "waiting"}
         /\ \A d \in Callers : d # c => pc'[d] = pc[d] /\ asked'[d] = asked[d]
<1> USE DEF LocksInv
<1> DEFINE old == registry[q.loop][q.key]
           m == IF old = None THEN c ELSE old
<1>1. q.loop \in Loops /\ q.key \in Keys /\ q # None /\ None \notin Callers
  BY PagingAssumption, NoneAssumption DEF PagingAssumption, NoneAssumption
<1>2. m \in Callers /\ m # None /\ lock[c] = None /\ old # c
  <2>1. old \in Callers \cup {None} /\ old # c
    BY <1>1 DEF LockType, FreshInv
  <2>2. lock[c] = None
    BY DEF CallType, Using, Holding
  <2> HIDE DEF old
  <2> QED
    BY <1>1, <2>1, <2>2
<1>3. /\ registry' = [registry EXCEPT ![q.loop][q.key] = m]
      /\ lock' = [lock EXCEPT ![c] = m] /\ left' = left
      /\ \/ /\ holder[m] = None /\ waiters[m] = <<>>
            /\ holder' = [holder EXCEPT ![m] = c] /\ waiters' = waiters /\ pc' = [pc EXCEPT ![c] = "locked"]
         \/ /\ ~(holder[m] = None /\ waiters[m] = <<>>)
            /\ holder' = holder /\ waiters' = [waiters EXCEPT ![m] = Append(@, c)]
            /\ pc' = [pc EXCEPT ![c] = "waiting"]
  BY DEF TakeLock, Go
<1>4. /\ \A l \in Loops, k \in Keys : registry'[l][k] = IF l = q.loop /\ k = q.key THEN m ELSE registry[l][k]
      /\ registry' \in [Loops -> [Keys -> Callers \cup {None}]]
  BY <1>1, <1>2, <1>3 DEF LockType
<1> HIDE DEF m, old
<1>5. /\ pc'[c] \in {"locked", "waiting"} /\ asked'[c] = q /\ lock'[c] = m
      /\ \A d \in Callers : d # c => pc'[d] = pc[d] /\ asked'[d] = asked[d] /\ lock'[d] = lock[d]
  BY <1>3 DEF CallType
<1>6. CallType'
  BY <1>1, <1>2, <1>3, <1>5 DEF CallType, Stations, Using, Holding
<1>7. \A d \in Callers : lock[d] = m => old = m /\ Here(d) = <<q.loop, q.key>>
  BY <1>1, <1>2 DEF FreshInv, PlaceInv, m, old
<1>8. \A l \in Loops, k \in Keys : registry[l][k] = m => l = q.loop /\ k = q.key
  BY <1>1, <1>2 DEF FreshInv, PlaceInv, m, old
<1>9. PlaceInv'
  <2>1. Here(c)' = <<q.loop, q.key>> /\ \A d \in Callers : d # c => Here(d)' = Here(d)
    BY <1>5 DEF Here
  <2>2. \A d, e \in Callers : lock'[d] # None /\ lock'[d] = lock'[e] => Here(d)' = Here(e)'
    BY <1>5, <1>7, <2>1 DEF PlaceInv
  <2>3. \A d \in Callers, l \in Loops, k \in Keys :
          lock'[d] # None /\ registry'[l][k] = lock'[d] => Here(d)' = <<l, k>>
    BY <1>4, <1>5, <1>7, <1>8, <2>1 DEF PlaceInv
  <2>4. \A l, i \in Loops, k, j \in Keys :
          registry'[l][k] # None /\ registry'[l][k] = registry'[i][j] => l = i /\ k = j
    BY <1>4, <1>8 DEF PlaceInv
  <2> QED
    BY <2>2, <2>3, <2>4 DEF PlaceInv
<1>10. ASSUME DroppedInv, Known \subseteq Known'
       PROVE  DroppedInv'
  <2> SUFFICES ASSUME NEW d \in Callers, lock'[d] # None, registry'[asked'[d].loop][asked'[d].key] # lock'[d]
               PROVE  asked'[d].key \in Known
    BY <1>10 DEF DroppedInv
  <2>1. d # c
    BY <1>1, <1>4, <1>5
  <2>2. asked[d].loop \in Loops /\ asked[d].key \in Keys
    BY <1>5, <2>1, PagingAssumption DEF PagingAssumption, CallType, Using, Holding
  <2>3. registry[asked[d].loop][asked[d].key] # lock[d]
    BY <1>4, <1>5, <2>1, <2>2 DEF m, old
  <2> QED
    BY <1>5, <1>10, <2>1, <2>3 DEF DroppedInv
<1>11. \A d \in Callers : d # c /\ pc[d] = "idle" => d # m /\ \A l \in Loops, k \in Keys : registry'[l][k] # d
  BY <1>1, <1>4 DEF FreshInv, m, old
<1>12. CASE holder[m] = None /\ holder' = [holder EXCEPT ![m] = c] /\ waiters' = waiters /\ pc'[c] = "locked"
  <2>1. LockType' /\ HolderInv'
    BY <1>2, <1>3, <1>4, <1>5, <1>12 DEF LockType, HolderInv, CallType, Using, Holding
  <2>2. QueueInv'
    BY <1>5, <1>12 DEF QueueInv, CallType
  <2>3. FreshInv'
    <3> SUFFICES ASSUME NEW d \in Callers, pc'[d] = "idle"
                 PROVE  /\ holder'[d] = None /\ waiters'[d] = <<>>
                        /\ \A e \in Callers : lock'[e] # d
                        /\ \A l \in Loops, k \in Keys : registry'[l][k] # d
      BY DEF FreshInv
    <3>1. d # c /\ pc[d] = "idle" /\ d # m
      BY <1>5, <1>11, <1>12
    <3>2. holder'[d] = holder[d]
      BY <1>12, <3>1 DEF LockType
    <3> QED
      BY <1>5, <1>11, <1>12, <3>1, <3>2 DEF FreshInv
  <2>4. HeldInv'
    <3>1. \A n \in Callers : holder[n] # None => holder'[n] # None
      BY <1>1, <1>12 DEF LockType
    <3>2. holder'[m] # None
      BY <1>1, <1>2, <1>12 DEF LockType
    <3>3. \A l \in Loops, k \in Keys : registry[l][k] \in Callers \cup {None}
      BY DEF LockType
    <3> SUFFICES ASSUME NEW l \in Loops, NEW k \in Keys
                 PROVE  registry'[l][k] = None \/ <<l, k>> \in left \/ holder'[registry'[l][k]] # None
      BY <1>3 DEF HeldInv
    <3>4. CASE l = q.loop /\ k = q.key
      BY <1>4, <3>2, <3>4
    <3>5. CASE ~(l = q.loop /\ k = q.key)
      BY <1>4, <3>1, <3>3, <3>5 DEF HeldInv
    <3> QED
      BY <3>4, <3>5
  <2> QED
    BY <1>5, <1>6, <1>9, <1>10, <2>1, <2>2, <2>3, <2>4
<1>13. CASE /\ holder' = holder /\ waiters' = [waiters EXCEPT ![m] = Append(@, c)] /\ pc'[c] = "waiting"
            /\ ~(holder[m] = None /\ waiters[m] = <<>>)
  <2>1. old = m /\ m # c
    BY <1>13 DEF FreshInv, m, old
  <2>2. waiters[m] \in Seq(Callers) /\ IsInjective(waiters[m]) /\ c \notin Elements(waiters[m])
    BY <1>2 DEF LockType, QueueInv
  <2>3. /\ waiters'[m] \in Seq(Callers) /\ IsInjective(waiters'[m])
        /\ Elements(waiters'[m]) = Elements(waiters[m]) \cup {c}
        /\ waiters' \in [Callers -> Seq(Callers)]
        /\ \A n \in Callers : n # m => waiters'[n] = waiters[n]
    BY <1>2, <1>13, <2>2, Enqueued DEF LockType
  <2>4. LockType' /\ HolderInv'
    <3>1. LockType'
      BY <1>3, <1>4, <1>13, <2>3 DEF LockType
    <3>2. \A h \in Callers : pc'[h] \in Holding => h # c
      BY <1>13 DEF Holding
    <3>3. \A h \in Callers : pc[h] \in Holding => h # c
      BY DEF Holding
    <3> QED
      BY <1>5, <1>13, <3>1, <3>2, <3>3 DEF HolderInv
  <2>5. QueueInv'
    <3> SUFFICES ASSUME NEW n \in Callers
                 PROVE  /\ IsInjective(waiters'[n])
                        /\ Elements(waiters'[n]) = {d \in Callers : pc'[d] = "waiting" /\ lock'[d] = n}
      BY DEF QueueInv
    <3>1. CASE n = m
      <4>1. {d \in Callers : pc'[d] = "waiting" /\ lock'[d] = m}
              = {d \in Callers : pc[d] = "waiting" /\ lock[d] = m} \cup {c}
        BY <1>5, <1>13
      <4> QED
        BY <2>3, <3>1, <4>1 DEF QueueInv
    <3>2. CASE n # m
      <4>1. {d \in Callers : pc'[d] = "waiting" /\ lock'[d] = n}
              = {d \in Callers : pc[d] = "waiting" /\ lock[d] = n}
        BY <1>5, <3>2
      <4> QED
        BY <2>3, <3>2, <4>1 DEF QueueInv
    <3> QED
      BY <3>1, <3>2
  <2>6. FreshInv'
    BY <1>5, <1>11, <1>13, <2>3 DEF FreshInv
  <2>7. HeldInv'
    BY <1>1, <1>3, <1>4, <1>13, <2>1 DEF HeldInv, old
  <2> QED
    BY <1>5, <1>6, <1>9, <1>10, <2>4, <2>5, <2>6, <2>7
<1>14. pc'[c] = "locked" \/ pc'[c] = "waiting"
  BY <1>5
<1> QED
  BY <1>3, <1>12, <1>13 DEF CallType

\* The first in the queue of a free lock takes it.
LEMMA Acquires ==
  ASSUME LocksInv, NEW c \in Callers, Acquire(c)
  PROVE  LocksInv' /\ (DroppedInv /\ Known \subseteq Known' => DroppedInv')
<1> USE DEF LocksInv
<1> DEFINE m == lock[c]
<1>1. /\ pc[c] = "waiting" /\ holder[m] = None /\ Head(waiters[m]) = c
      /\ holder' = [holder EXCEPT ![m] = c] /\ waiters' = [waiters EXCEPT ![m] = Tail(@)]
      /\ pc' = [pc EXCEPT ![c] = "locked"]
      /\ UNCHANGED <<registry, left, asked, lock, ids>>
  BY DEF Acquire, Go
<1>2. m \in Callers /\ m # None /\ None \notin Callers
  BY <1>1, NoneAssumption DEF CallType, Using, NoneAssumption
<1>3. waiters[m] \in Seq(Callers) /\ IsInjective(waiters[m]) /\ waiters[m] # <<>>
  <2>1. c \in Elements(waiters[m])
    BY <1>1, <1>2 DEF QueueInv
  <2>2. waiters[m] # <<>>
    BY <2>1, EmptySeq DEF Elements
  <2> QED
    BY <1>2, <2>2 DEF LockType, QueueInv
<1>4. /\ waiters'[m] \in Seq(Callers) /\ IsInjective(waiters'[m])
      /\ Elements(waiters'[m]) = Elements(waiters[m]) \ {c}
      /\ waiters' \in [Callers -> Seq(Callers)]
      /\ \A n \in Callers : n # m => waiters'[n] = waiters[n]
  BY <1>1, <1>2, <1>3, Dequeued DEF LockType
<1>5. holder'[m] = c /\ \A n \in Callers : n # m => holder'[n] = holder[n]
  BY <1>1, <1>2 DEF LockType
<1>6. pc'[c] = "locked" /\ \A d \in Callers : d # c => pc'[d] = pc[d]
  BY <1>1 DEF CallType
<1>7. CallType' /\ LockType'
  BY <1>1, <1>2, <1>4 DEF CallType, LockType, Stations, Using, Holding
<1>8. lock' = lock /\ registry' = registry /\ left' = left /\ asked' = asked
  BY <1>1
<1> HIDE DEF m
<1>9. HolderInv'
  <2>1. \A h \in Callers : pc[h] \in Holding => lock[h] # m
    BY <1>1, <1>2 DEF HolderInv
  <2> QED
    BY <1>2, <1>5, <1>6, <1>8, <2>1 DEF HolderInv, Holding, m, CallType, Using
<1>10. QueueInv'
  <2> SUFFICES ASSUME NEW n \in Callers
               PROVE  /\ IsInjective(waiters'[n])
                      /\ Elements(waiters'[n]) = {d \in Callers : pc'[d] = "waiting" /\ lock[d] = n}
    BY <1>8 DEF QueueInv
  <2>1. CASE n = m
    <3>1. {d \in Callers : pc'[d] = "waiting" /\ lock[d] = m}
            = {d \in Callers : pc[d] = "waiting" /\ lock[d] = m} \ {c}
      BY <1>6
    <3> QED
      BY <1>4, <2>1, <3>1 DEF QueueInv
  <2>2. CASE n # m
    <3>1. {d \in Callers : pc'[d] = "waiting" /\ lock[d] = n}
            = {d \in Callers : pc[d] = "waiting" /\ lock[d] = n}
      BY <1>6, <2>2 DEF m
    <3> QED
      BY <1>4, <2>2, <3>1 DEF QueueInv
  <2> QED
    BY <2>1, <2>2
<1>11. PlaceInv' /\ (DroppedInv /\ Known \subseteq Known' => DroppedInv')
  BY <1>8 DEF PlaceInv, DroppedInv, Here
<1>12. FreshInv'
  <2>1. \A d \in Callers : pc'[d] = "idle" => pc[d] = "idle" /\ d # m
    BY <1>6 DEF FreshInv, m
  <2> QED
    BY <1>4, <1>5, <1>8, <2>1 DEF FreshInv
<1>13. HeldInv'
  <2>1. \A n \in Callers : holder[n] # None => holder'[n] # None
    BY <1>2, <1>5
  <2>2. \A l \in Loops, k \in Keys : registry[l][k] \in Callers \cup {None}
    BY DEF LockType
  <2> QED
    BY <1>8, <2>1, <2>2 DEF HeldInv
<1> QED
  BY <1>7, <1>9, <1>10, <1>11, <1>12, <1>13

\* A caller that gives its lock back drops the registered lock, or leaves its place.
LEMMA Releases ==
  ASSUME LocksInv, NEW c \in Callers, NEW to \in {"page", "plain", "failed"}, Comes(c, to),
         pc[c] \in Holding, to # "failed" => asked'[c] = asked[c],
         ReleaseAndForget(c) \/ ReleaseOnly(c)
  PROVE  /\ LocksInv'
         /\ DroppedInv /\ Known \subseteq Known' /\ (ReleaseOnly(c) \/ asked[c].key \in Known') => DroppedInv'
<1> USE DEF LocksInv
<1> DEFINE m == lock[c]
           loop == asked[c].loop
           key == asked[c].key
<1>1. /\ holder' = [holder EXCEPT ![m] = None] /\ lock' = [lock EXCEPT ![c] = None] /\ waiters' = waiters
      /\ \/ registry' = [registry EXCEPT ![loop][key] = None] /\ left' = left \ {<<loop, key>>}
         \/ registry' = registry /\ left' = left \cup {<<loop, key>>}
  BY DEF ReleaseAndForget, ReleaseOnly, Release, Here
<1>2. m \in Callers /\ m # None /\ None \notin Callers /\ holder[m] = c
  BY NoneAssumption DEF CallType, Using, NoneAssumption, HolderInv
<1>3. asked[c] \in Queries /\ loop \in Loops /\ key \in Keys
  <2>1. asked[c] # None
    BY DEF CallType, Holding
  <2> QED
    BY <2>1, PagingAssumption DEF PagingAssumption, CallType
<1> HIDE DEF m, loop, key
<1>4. /\ pc'[c] = to /\ \A d \in Callers : d # c => pc'[d] = pc[d] /\ asked'[d] = asked[d]
      /\ lock'[c] = None /\ \A d \in Callers : d # c => lock'[d] = lock[d]
      /\ holder'[m] = None /\ \A n \in Callers : n # m => holder'[n] = holder[n]
  BY <1>1, <1>2 DEF Comes, CallType, LockType
<1>5. CallType'
  BY <1>1, <1>4 DEF CallType, Comes, Stations, Using, Holding
<1>6. \A l \in Loops, k \in Keys :
        registry'[l][k] = registry[l][k] \/ (l = loop /\ k = key /\ registry'[l][k] = None)
  BY <1>1, <1>3 DEF LockType
<1>7. LockType'
  <2>1. holder' \in [Callers -> Callers \cup {None}] /\ waiters' \in [Callers -> Seq(Callers)]
    BY <1>1 DEF LockType
  <2>2. left' \subseteq Places
    BY <1>1, <1>3 DEF LockType, Places
  <2>3. registry' \in [Loops -> [Keys -> Callers \cup {None}]]
    <3>1. registry \in [Loops -> [Keys -> Callers \cup {None}]] /\ registry[loop] \in [Keys -> Callers \cup {None}]
      BY <1>3 DEF LockType
    <3>2. [registry[loop] EXCEPT ![key] = None] \in [Keys -> Callers \cup {None}]
      BY <3>1
    <3>3. registry' = registry \/ registry' = [registry EXCEPT ![loop] = [registry[loop] EXCEPT ![key] = None]]
      BY <1>1, <1>3, <3>1
    <3> QED
      BY <3>1, <3>2, <3>3
  <2> QED
    BY <2>1, <2>2, <2>3 DEF LockType
<1>8. HolderInv'
  <2>1. \A d \in Callers : d # c /\ pc[d] \in Holding => lock[d] # m
    BY <1>2 DEF HolderInv
  <2>2. to \notin Holding
    BY DEF Holding
  <2>3. \A d \in Callers : d # c /\ pc[d] \in Holding => lock[d] \in Callers
    BY <1>2 DEF CallType, Using
  <2>4. \A d \in Callers : pc'[d] \in Holding => holder'[lock'[d]] = d
    BY <1>4, <2>1, <2>2, <2>3 DEF HolderInv
  <2>5. \A n, h \in Callers : holder'[n] = h => lock'[h] = n /\ pc'[h] \in Holding
    BY <1>2, <1>4 DEF HolderInv, m
  <2> QED
    BY <2>4, <2>5 DEF HolderInv
<1>9. QueueInv'
  <2>1. \A d \in Callers, n \in Callers : (pc'[d] = "waiting" /\ lock'[d] = n) <=> (pc[d] = "waiting" /\ lock[d] = n)
    BY <1>4 DEF Holding
  <2> QED
    BY <1>1, <2>1 DEF QueueInv
<1>10. PlaceInv'
  <2>1. \A d \in Callers : d # c => Here(d)' = Here(d)
    BY <1>4 DEF Here
  <2>2. \A d, e \in Callers : lock'[d] # None /\ lock'[d] = lock'[e] => Here(d)' = Here(e)'
    BY <1>4, <2>1 DEF PlaceInv
  <2>3. \A d \in Callers, l \in Loops, k \in Keys :
          lock'[d] # None /\ registry'[l][k] = lock'[d] => Here(d)' = <<l, k>>
    BY <1>4, <1>6, <2>1 DEF PlaceInv
  <2>4. \A l, i \in Loops, k, j \in Keys :
          registry'[l][k] # None /\ registry'[l][k] = registry'[i][j] => l = i /\ k = j
    BY <1>6 DEF PlaceInv
  <2> QED
    BY <2>2, <2>3, <2>4 DEF PlaceInv
<1>11. FreshInv'
  <2>1. \A d \in Callers : pc'[d] = "idle" => d # c /\ pc[d] = "idle"
    BY <1>4
  <2>2. \A d \in Callers : pc[d] = "idle" => d # m
    BY DEF FreshInv, m
  <2> QED
    BY <1>1, <1>2, <1>4, <1>6, <2>1, <2>2 DEF FreshInv
<1>12. HeldInv'
  <2> SUFFICES ASSUME NEW l \in Loops, NEW k \in Keys, registry'[l][k] # None, <<l, k>> \notin left'
               PROVE  holder'[registry'[l][k]] # None
    BY DEF HeldInv
  <2>1. ~(l = loop /\ k = key)
    BY <1>1, <1>3 DEF LockType
  <2>2. registry'[l][k] = registry[l][k] /\ <<l, k>> \notin left /\ registry[l][k] \in Callers
    BY <1>1, <1>3, <1>6, <2>1 DEF LockType
  <2>3. registry[l][k] # m
    BY <1>2, <2>1, <2>2 DEF PlaceInv, Here, m, loop, key
  <2> QED
    BY <1>4, <2>2, <2>3 DEF HeldInv
<1>13. ASSUME DroppedInv, Known \subseteq Known', ReleaseOnly(c) \/ key \in Known'
       PROVE  DroppedInv'
  <2> SUFFICES ASSUME NEW d \in Callers, lock'[d] # None, registry'[asked'[d].loop][asked'[d].key] # lock'[d]
               PROVE  asked'[d].key \in Known'
    BY DEF DroppedInv
  <2>1. d # c /\ asked'[d] = asked[d] /\ lock'[d] = lock[d]
    BY <1>4
  <2>2. CASE registry[asked[d].loop][asked[d].key] # lock[d]
    BY <1>13, <2>1, <2>2 DEF DroppedInv
  <2>3. CASE registry[asked[d].loop][asked[d].key] = lock[d]
    <3>1. asked[d].loop \in Loops /\ asked[d].key \in Keys
      <4>1. asked[d] # None
        BY <2>1 DEF CallType, Using, Holding
      <4> QED
        BY <4>1, PagingAssumption DEF PagingAssumption, CallType
    <3>2. registry' # registry
      BY <2>1, <2>3
    <3>3. key \in Known'
      BY <1>13, <3>2 DEF ReleaseOnly
    <3>4. asked[d].key = key
      BY <1>6, <2>1, <2>3, <3>1
    <3> QED
      BY <2>1, <3>3, <3>4
  <2> QED
    BY <2>2, <2>3
<1> QED
  BY <1>5, <1>7, <1>8, <1>9, <1>10, <1>11, <1>12, <1>13 DEF key

\* A cancelled caller leaves the queue it waits in.
LEMMA Leaves ==
  ASSUME LocksInv, NEW c \in Callers, Comes(c, "failed"), pc[c] = "waiting", LeaveQueue(c)
  PROVE  LocksInv' /\ (DroppedInv /\ Known \subseteq Known' => DroppedInv')
<1> USE DEF LocksInv
<1> DEFINE m == lock[c]
<1>1. PICK i \in DOMAIN waiters[m] :
        waiters[m][i] = c /\ waiters' = [waiters EXCEPT ![m] = RemoveAt(@, i)]
  BY DEF LeaveQueue
<1>2. lock' = [lock EXCEPT ![c] = None] /\ registry' = registry /\ holder' = holder /\ left' = left
  BY DEF LeaveQueue
<1>3. m \in Callers /\ m # None /\ None \notin Callers
  BY NoneAssumption DEF CallType, Using, NoneAssumption
<1>4. waiters[m] \in Seq(Callers) /\ IsInjective(waiters[m]) /\ i \in 1 .. Len(waiters[m])
  BY <1>3, LenProperties DEF LockType, QueueInv
<1>5. /\ waiters'[m] \in Seq(Callers) /\ IsInjective(waiters'[m])
      /\ Elements(waiters'[m]) = Elements(waiters[m]) \ {c}
      /\ waiters' \in [Callers -> Seq(Callers)]
      /\ \A n \in Callers : n # m => waiters'[n] = waiters[n]
  BY <1>1, <1>3, <1>4, Removed DEF LockType
<1>6. /\ pc'[c] = "failed" /\ \A d \in Callers : d # c => pc'[d] = pc[d] /\ asked'[d] = asked[d]
      /\ lock'[c] = None /\ \A d \in Callers : d # c => lock'[d] = lock[d]
  BY <1>2 DEF Comes, CallType
<1>7. CallType' /\ LockType'
  BY <1>2, <1>3, <1>5, <1>6 DEF CallType, LockType, Comes, Stations, Using, Holding
<1> HIDE DEF m
<1>8. \A d \in Callers : pc'[d] \in Holding <=> pc[d] \in Holding
  BY <1>6 DEF Holding
<1>9. HolderInv'
  BY <1>2, <1>6, <1>8 DEF HolderInv, Holding
<1>10. QueueInv'
  <2> SUFFICES ASSUME NEW n \in Callers
               PROVE  /\ IsInjective(waiters'[n])
                      /\ Elements(waiters'[n]) = {d \in Callers : pc'[d] = "waiting" /\ lock'[d] = n}
    BY DEF QueueInv
  <2>1. CASE n = m
    <3>1. {d \in Callers : pc'[d] = "waiting" /\ lock'[d] = m}
            = {d \in Callers : pc[d] = "waiting" /\ lock[d] = m} \ {c}
      BY <1>6
    <3> QED
      BY <1>5, <2>1, <3>1 DEF QueueInv
  <2>2. CASE n # m
    <3>1. {d \in Callers : pc'[d] = "waiting" /\ lock'[d] = n}
            = {d \in Callers : pc[d] = "waiting" /\ lock[d] = n}
      BY <1>6, <2>2 DEF m
    <3> QED
      BY <1>5, <2>2, <3>1 DEF QueueInv
  <2> QED
    BY <2>1, <2>2
<1>11. PlaceInv'
  <2>1. \A d \in Callers : d # c => Here(d)' = Here(d)
    BY <1>6 DEF Here
  <2> QED
    BY <1>2, <1>6, <2>1 DEF PlaceInv
<1>12. FreshInv'
  <2>1. \A d \in Callers : pc'[d] = "idle" => d # c /\ pc[d] = "idle" /\ d # m
    BY <1>6 DEF FreshInv, m
  <2>2. \A d, e \in Callers : lock'[e] = d => lock[e] = d
    BY <1>3, <1>6
  <2> SUFFICES ASSUME NEW d \in Callers, pc'[d] = "idle"
               PROVE  /\ holder'[d] = None /\ waiters'[d] = <<>>
                      /\ \A e \in Callers : lock'[e] # d
                      /\ \A l \in Loops, k \in Keys : registry'[l][k] # d
    BY DEF FreshInv
  <2>3. pc[d] = "idle" /\ waiters'[d] = waiters[d] /\ holder'[d] = holder[d]
    BY <1>2, <1>5, <2>1
  <2> QED
    BY <1>2, <2>2, <2>3 DEF FreshInv
<1>13. HeldInv'
  BY <1>2 DEF HeldInv
<1>14. DroppedInv /\ Known \subseteq Known' => DroppedInv'
  BY <1>2, <1>6 DEF DroppedInv
<1> QED
  BY <1>7, <1>9, <1>10, <1>11, <1>12, <1>13, <1>14

-----------------------------------------------------------------------------
(* The queries *)

\* A caller that does not begin to build, while nobody else does, leaves the builds single.
LEMMA StillSingle ==
  ASSUME SingleFlight, lost \subseteq lost',
         \A d \in Callers : Building(d)' => Building(d) /\ asked'[d] = asked[d]
  PROVE  SingleFlight'
BY DEF SingleFlight, Here

LEMMA NullQuery == None \notin Queries /\ None \notin Callers
BY NoneAssumption DEF NoneAssumption

LEMMA Looks ==
  ASSUME IInv, NEW c \in Callers, NEW q \in Queries, Look(c, q)
  PROVE  IInv'
<1> USE DEF IInv
<1>1. /\ pc[c] = "idle" /\ asked' = [asked EXCEPT ![c] = q] /\ rows' = rows /\ changes' = changes
      /\ reply' = None
  BY DEF Look, Go, TakeLock, table
<1>2. TableInv'
  BY <1>1 DEF TableInv
<1>3. q.key \in Keys /\ q # None
  BY NullQuery, PagingAssumption DEF PagingAssumption
<1>4. /\ asked' \in [Callers -> Queries \cup {None}] /\ asked'[c] = q
      /\ \A d \in Callers : d # c => asked'[d] = asked[d]
  BY <1>1 DEF LocksInv, CallType
<1>5. CASE Go(c, "plain") /\ UNCHANGED <<retained, locks, lock, ids>>
  <2>1. StoreInv' /\ Known' = Known /\ lost' = lost
    BY <1>5 DEF retained, StoreInv, Stored, Kept, Size, Known
  <2>2. Comes(c, "plain")
    <3>1. ids' \in [Callers -> Retainable]
      BY <1>5 DEF LocksInv, CallType
    <3>2. pc' = [pc EXCEPT ![c] = "plain"]
      BY <1>5 DEF Go
    <3>3. asked'[c] # None
      BY <1>3, <1>4
    <3> QED
      BY <1>4, <3>1, <3>2, <3>3 DEF Comes
  <2>3. LocksInv' /\ DroppedInv'
    BY <1>1, <1>5, <2>1, <2>2, LocksStay DEF Using, Holding, Stations
  <2>4. SingleFlight'
    BY <1>4, <1>5, <2>1, StillSingle DEF Building, Go, LocksInv, CallType
  <2> QED
    BY <1>2, <2>1, <2>3, <2>4
<1>6. CASE Swept(q.key) /\ Found(q.key) /\ Go(c, "page") /\ ids' = [ids EXCEPT ![c] = store[q.key]]
           /\ UNCHANGED <<lock, locks>>
  <2>1. StoreInv' /\ Known' = Known /\ lost' = lost
    BY <1>3, <1>6, SweptKeeps
  <2>2. store[q.key] \in Retainable
    BY <1>3, <1>6 DEF Found, Stored, StoreInv
  <2>3. Comes(c, "page")
    <3>1. ids' \in [Callers -> Retainable]
      BY <1>6, <2>2 DEF LocksInv, CallType
    <3>2. pc' = [pc EXCEPT ![c] = "page"]
      BY <1>6 DEF Go
    <3>3. asked'[c] # None
      BY <1>3, <1>4
    <3> QED
      BY <1>4, <3>1, <3>2, <3>3 DEF Comes
  <2>4. LocksInv' /\ DroppedInv'
    BY <1>1, <1>6, <2>1, <2>3, LocksStay DEF Using, Holding, Stations
  <2>5. SingleFlight'
    BY <1>4, <1>6, <2>1, StillSingle DEF Building, Go, LocksInv, CallType
  <2> QED
    BY <1>2, <2>1, <2>4, <2>5
<1>7. CASE Swept(q.key) /\ TakeLock(c, q) /\ ids' = ids
  <2>1. StoreInv' /\ Known' = Known /\ lost' = lost
    BY <1>3, <1>7, SweptKeeps
  <2>2. /\ LocksInv' /\ DroppedInv' /\ pc'[c] \in {"locked", "waiting"}
        /\ \A d \in Callers : d # c => pc'[d] = pc[d] /\ asked'[d] = asked[d]
    BY <1>1, <1>7, <2>1, Takes
  <2>3. SingleFlight'
    BY <2>1, <2>2, StillSingle DEF Building
  <2> QED
    BY <1>2, <2>1, <2>2, <2>3
<1> QED
  BY <1>5, <1>6, <1>7 DEF Look

\* The table may change and a set expire at any moment.
LEMMA Around ==
  ASSUME IInv, (\E r \in Rows : Insert(r) \/ Delete(r)) \/ (\E k \in Keys : Expire(k))
  PROVE  IInv'
<1> USE DEF IInv
<1>1. /\ lock' = lock /\ pc' = pc /\ asked' = asked /\ ids' = ids /\ registry' = registry
      /\ holder' = holder /\ waiters' = waiters /\ left' = left /\ reply' = None
  BY DEF Insert, Delete, Expire, locks, callers
<1>2. LocksInv'
  BY <1>1 DEF LocksInv, CallType, LockType, HolderInv, QueueInv, PlaceInv, FreshInv, HeldInv, Here
<1>3. TableInv' /\ StoreInv' /\ Known \subseteq Known' /\ lost \subseteq lost'
  <2>1. ASSUME NEW r \in Rows, Insert(r) \/ Delete(r)
        PROVE  TableInv' /\ StoreInv' /\ Known \subseteq Known' /\ lost \subseteq lost'
    <3>1. rows' \subseteq Rows /\ changes' = changes + 1 /\ changes < MaxChanges /\ UNCHANGED retained
      BY <2>1 DEF Insert, Delete, TableInv
    <3>2. changes' \in 0 .. MaxChanges
      BY <3>1, PagingAssumption DEF TableInv, PagingAssumption
    <3>3. StoreInv' /\ Known' = Known /\ lost' = lost
      BY <3>1 DEF retained, StoreInv, Stored, Kept, Size, Known
    <3> QED
      BY <1>1, <3>1, <3>2, <3>3 DEF TableInv
  <2>2. ASSUME NEW k \in Keys, Expire(k)
        PROVE  TableInv' /\ StoreInv' /\ Known \subseteq Known' /\ lost \subseteq lost'
    <3>1. rows' = rows /\ changes' = changes
      BY <2>2 DEF Expire, table
    <3>2. TableInv'
      BY <1>1, <3>1 DEF TableInv
    <3> QED
      BY <2>2, <3>2, ExpireKeeps
  <2> QED
    BY <2>1, <2>2
<1>4. DroppedInv'
  BY <1>1, <1>3 DEF DroppedInv
<1>5. SingleFlight'
  BY <1>1, <1>3, StillSingle DEF Building
<1> QED
  BY <1>2, <1>3, <1>4, <1>5

LEMMA AcquireKeeps ==
  ASSUME IInv, NEW c \in Callers, Acquire(c)
  PROVE  IInv'
<1> USE DEF IInv
<1>1. rows' = rows /\ changes' = changes /\ reply' = None /\ UNCHANGED retained /\ asked' = asked
      /\ pc' = [pc EXCEPT ![c] = "locked"]
  BY DEF Acquire, table, Go
<1>2. TableInv' /\ StoreInv' /\ Known' = Known /\ lost' = lost
  BY <1>1 DEF TableInv, retained, StoreInv, Stored, Kept, Size, Known
<1>3. LocksInv' /\ DroppedInv'
  BY <1>2, Acquires
<1>4. SingleFlight'
  BY <1>1, <1>2, StillSingle DEF Building, LocksInv, CallType
<1> QED
  BY <1>2, <1>3, <1>4

\* Who finds no set on the second look builds alone, if no set was ever lost: those who
\* share its place use the registered lock, and only one of them holds it.
LEMMA RecheckKeeps ==
  ASSUME IInv, NEW c \in Callers, Recheck(c)
  PROVE  IInv'
<1> USE DEF IInv
<1>1. /\ pc[c] = "locked" /\ rows' = rows /\ changes' = changes /\ asked' = asked /\ reply' = None
  BY DEF Recheck, table, Go
<1>2. TableInv'
  BY <1>1 DEF TableInv
<1>3. asked[c] \in Queries /\ asked[c].key \in Keys /\ asked[c] # None
  BY <1>1, PagingAssumption DEF PagingAssumption, LocksInv, CallType
<1>4. asked' \in [Callers -> Queries \cup {None}] /\ ids \in [Callers -> Retainable] /\ pc \in [Callers -> Stations]
  BY <1>1 DEF LocksInv, CallType
<1>5. CASE Swept(asked[c].key) /\ Found(asked[c].key) /\ ids' = [ids EXCEPT ![c] = store[asked[c].key]]
           /\ Go(c, "page") /\ ReleaseAndForget(c)
  <2>1. StoreInv' /\ Known' = Known /\ lost' = lost
    BY <1>3, <1>5, SweptKeeps
  <2>2. store[asked[c].key] \in Retainable /\ asked[c].key \in Known
    BY <1>3, <1>5 DEF Found, Stored, StoreInv, Known
  <2>3. pc' = [pc EXCEPT ![c] = "page"]
    BY <1>5 DEF Go
  <2>4. Comes(c, "page")
    <3>1. ids' \in [Callers -> Retainable]
      BY <1>4, <1>5, <2>2
    <3> QED
      BY <1>1, <1>3, <1>4, <2>3, <3>1 DEF Comes
  <2>5. LocksInv' /\ DroppedInv'
    BY <1>1, <1>5, <2>1, <2>2, <2>4, Releases DEF Holding
  <2>6. SingleFlight'
    BY <1>1, <1>4, <2>1, <2>3, StillSingle DEF Building
  <2> QED
    BY <1>2, <2>1, <2>5, <2>6
<1>6. CASE Swept(asked[c].key) /\ ~Found(asked[c].key) /\ Go(c, "building") /\ UNCHANGED <<ids, lock, locks>>
  <2>1. StoreInv' /\ Known' = Known /\ lost' = lost
    BY <1>3, <1>6, SweptKeeps
  <2>2. pc' = [pc EXCEPT ![c] = "building"]
    BY <1>6 DEF Go
  <2>3. Comes(c, "building")
    BY <1>1, <1>3, <1>4, <1>6, <2>2 DEF Comes
  <2>4. LocksInv' /\ DroppedInv'
    BY <1>1, <1>6, <2>1, <2>3, LocksStay DEF Holding, Stations
  <2>5. ASSUME NEW d \in Callers, d # c, Building(d), Here(c) = Here(d), asked[c].key \notin lost
        PROVE  FALSE
    <3>1. asked[c].key \notin Known /\ asked[d].loop = asked[c].loop /\ asked[d].key = asked[c].key
      BY <1>6, <2>5 DEF Found, Known, Here
    <3>2. pc[c] \in Holding /\ pc[d] \in Holding
      BY <1>1, <2>5 DEF Building, Holding
    <3>3. lock[c] # None /\ lock[d] # None
      BY <3>2 DEF LocksInv, CallType, Using
    <3>4. lock[c] = lock[d]
      BY <3>1, <3>3 DEF DroppedInv
    <3> QED
      BY <2>5, <3>2, <3>4 DEF LocksInv, HolderInv
  <2>6. SingleFlight'
    <3> SUFFICES ASSUME NEW d \in Callers, NEW e \in Callers, d # e, Building(d)', Building(e)',
                        Here(d)' = Here(e)'
                 PROVE  asked[d].key \in lost
      BY <1>1, <2>1 DEF SingleFlight
    <3>1. Here(d) = Here(e)
      BY <1>1 DEF Here
    <3>2. (d = c \/ Building(d)) /\ (e = c \/ Building(e))
      BY <1>4, <2>2 DEF Building
    <3>3. asked[d].key = asked[e].key
      BY <3>1 DEF Here
    <3>4. CASE d = c
      BY <2>5, <3>1, <3>2, <3>4
    <3>5. CASE e = c
      BY <2>5, <3>1, <3>2, <3>3, <3>5
    <3>6. CASE d # c /\ e # c
      BY <3>1, <3>2, <3>6 DEF SingleFlight
    <3> QED
      BY <3>4, <3>5, <3>6
  <2> QED
    BY <1>2, <2>1, <2>4, <2>6
<1>7. CASE Go(c, "plain") /\ ReleaseOnly(c) /\ UNCHANGED <<retained, ids>>
  <2>1. StoreInv' /\ Known' = Known /\ lost' = lost
    BY <1>7 DEF retained, StoreInv, Stored, Kept, Size, Known
  <2>2. pc' = [pc EXCEPT ![c] = "plain"]
    BY <1>7 DEF Go
  <2>3. Comes(c, "plain")
    BY <1>1, <1>3, <1>4, <1>7, <2>2 DEF Comes
  <2>4. LocksInv' /\ DroppedInv'
    BY <1>1, <1>7, <2>1, <2>3, Releases DEF Holding
  <2>5. SingleFlight'
    BY <1>1, <1>4, <2>1, <2>2, StillSingle DEF Building
  <2> QED
    BY <1>2, <2>1, <2>4, <2>5
<1> QED
  BY <1>5, <1>6, <1>7 DEF Recheck

LEMMA CollectKeeps ==
  ASSUME IInv, NEW c \in Callers, Collect(c)
  PROVE  IInv'
<1> USE DEF IInv
<1>1. /\ pc[c] = "building" /\ rows' = rows /\ changes' = changes /\ asked' = asked /\ reply' = None
      /\ UNCHANGED retained
  BY DEF Collect, table, Go
<1>2. TableInv' /\ StoreInv' /\ Known' = Known /\ lost' = lost
  BY <1>1 DEF TableInv, retained, StoreInv, Stored, Kept, Size, Known
<1>3. /\ asked' \in [Callers -> Queries \cup {None}] /\ ids \in [Callers -> Retainable]
      /\ pc \in [Callers -> Stations] /\ asked[c] # None
  BY <1>1 DEF LocksInv, CallType
<1>4. CASE Go(c, "plain") /\ ReleaseOnly(c) /\ ids' = ids
  <2>1. pc' = [pc EXCEPT ![c] = "plain"]
    BY <1>4 DEF Go
  <2>2. Comes(c, "plain")
    BY <1>1, <1>3, <1>4, <2>1 DEF Comes
  <2>3. LocksInv' /\ DroppedInv'
    BY <1>1, <1>2, <1>4, <2>2, Releases DEF Holding
  <2>4. SingleFlight'
    BY <1>1, <1>2, <1>3, <2>1, StillSingle DEF Building
  <2> QED
    BY <1>2, <2>3, <2>4
<1>5. CASE ~(Cardinality(rows) > MaxIds) /\ Go(c, "putting") /\ ids' = [ids EXCEPT ![c] = InOrder(rows)]
           /\ UNCHANGED <<lock, locks>>
  <2>1. pc' = [pc EXCEPT ![c] = "putting"]
    BY <1>5 DEF Go
  <2>2. InOrder(rows) \in Retainable
    <3>1. rows \in SUBSET Rows /\ IsFiniteSet(rows)
      BY RowsAssumption, FS_Subset DEF RowsAssumption, TableInv
    <3>2. Cardinality(rows) \in Nat /\ MaxIds \in Nat
      BY <3>1, FS_CardinalityType, PagingAssumption DEF PagingAssumption
    <3> QED
      BY <1>5, <3>1, <3>2, Collected DEF Retainable
  <2>3. Comes(c, "putting")
    <3>1. ids' \in [Callers -> Retainable]
      BY <1>3, <1>5, <2>2
    <3> QED
      BY <1>1, <1>3, <2>1, <3>1 DEF Comes
  <2>4. LocksInv' /\ DroppedInv'
    BY <1>1, <1>2, <1>5, <2>3, LocksStay DEF Holding, Stations
  <2>5. SingleFlight'
    BY <1>1, <1>2, <1>3, <2>1, StillSingle DEF Building
  <2> QED
    BY <1>2, <2>4, <2>5
<1> QED
  BY <1>1, <1>4, <1>5 DEF Collect

LEMMA RetainKeeps ==
  ASSUME IInv, NEW c \in Callers, Retain(c)
  PROVE  IInv'
<1> USE DEF IInv
<1>1. /\ pc[c] = "putting" /\ rows' = rows /\ changes' = changes /\ asked' = asked /\ ids' = ids
      /\ reply' = None
  BY DEF Retain, table, Go
<1>2. TableInv'
  BY <1>1 DEF TableInv
<1>3. /\ asked' \in [Callers -> Queries \cup {None}] /\ ids' \in [Callers -> Retainable]
      /\ pc \in [Callers -> Stations] /\ asked[c] # None /\ asked[c].key \in Keys /\ ids[c] \in Retainable
  BY <1>1, PagingAssumption DEF PagingAssumption, LocksInv, CallType
<1>4. CASE Put(asked[c].key, ids[c]) /\ Go(c, "page") /\ ReleaseAndForget(c)
  <2>1. StoreInv' /\ Known \subseteq Known' /\ asked[c].key \in Known' /\ lost \subseteq lost'
    BY <1>3, <1>4, PutKeeps
  <2>2. pc' = [pc EXCEPT ![c] = "page"]
    BY <1>4 DEF Go
  <2>3. Comes(c, "page")
    BY <1>1, <1>3, <2>2 DEF Comes
  <2>4. LocksInv' /\ DroppedInv'
    BY <1>1, <1>4, <2>1, <2>3, Releases DEF Holding
  <2>5. SingleFlight'
    BY <1>1, <1>3, <2>1, <2>2, StillSingle DEF Building
  <2> QED
    BY <1>2, <2>1, <2>4, <2>5
<1>5. CASE Go(c, "plain") /\ ReleaseOnly(c) /\ UNCHANGED retained
  <2>1. StoreInv' /\ Known' = Known /\ lost' = lost
    BY <1>5 DEF retained, StoreInv, Stored, Kept, Size, Known
  <2>2. pc' = [pc EXCEPT ![c] = "plain"]
    BY <1>5 DEF Go
  <2>3. Comes(c, "plain")
    BY <1>1, <1>3, <2>2 DEF Comes
  <2>4. LocksInv' /\ DroppedInv'
    BY <1>1, <1>5, <2>1, <2>3, Releases DEF Holding
  <2>5. SingleFlight'
    BY <1>1, <1>3, <2>1, <2>2, StillSingle DEF Building
  <2> QED
    BY <1>2, <2>1, <2>4, <2>5
<1> QED
  BY <1>4, <1>5 DEF Retain

\* A query that returns or fails takes its call with it.
LEMMA Ends ==
  ASSUME IInv, NEW c \in Callers, NEW how \in {"done", "failed"}, NEW answer,
         answer = None \/ answer.by = c, End(c, how, answer), UNCHANGED retained
  PROVE  TableInv' /\ StoreInv' /\ Known' = Known /\ lost' = lost /\ Comes(c, how) /\ SingleFlight'
<1> USE DEF IInv
<1>1. /\ rows' = rows /\ changes' = changes /\ reply' = answer /\ pc' = [pc EXCEPT ![c] = how]
      /\ asked' = [asked EXCEPT ![c] = None] /\ ids' = [ids EXCEPT ![c] = <<>>]
  BY DEF End, table
<1>2. TableInv'
  BY <1>1 DEF TableInv
<1>3. StoreInv' /\ Known' = Known /\ lost' = lost
  BY DEF retained, StoreInv, Stored, Kept, Size, Known
<1>4. <<>> \in Retainable
  <2>1. <<>> \in Seq(Rows) /\ Len(<<>>) = 0 /\ DOMAIN <<>> = {}
    BY EmptySeq, LenProperties
  <2>2. IsInjective(<<>>) /\ MaxIds \in Nat
    BY <2>1, PagingAssumption DEF IsInjective, PagingAssumption
  <2> QED
    BY <2>1, <2>2 DEF Retainable
<1>5. pc \in [Callers -> Stations] /\ asked \in [Callers -> Queries \cup {None}] /\ ids \in [Callers -> Retainable]
  BY DEF LocksInv, CallType
<1>6. Comes(c, how)
  <2>1. ids' \in [Callers -> Retainable]
    BY <1>1, <1>4, <1>5
  <2>2. asked' \in [Callers -> Queries \cup {None}] /\ asked'[c] = None
    BY <1>1, <1>5
  <2> QED
    BY <1>1, <1>5, <2>1, <2>2 DEF Comes
<1>7. SingleFlight'
  <2>1. \A d \in Callers : Building(d)' => Building(d) /\ asked'[d] = asked[d]
    BY <1>1, <1>5 DEF Building
  <2> QED
    BY <1>3, <2>1, StillSingle
<1> QED
  BY <1>2, <1>3, <1>6, <1>7

LEMMA ServeKeeps ==
  ASSUME IInv, NEW c \in Callers, Serve(c) \/ ServePlain(c)
  PROVE  IInv'
<1> USE DEF IInv
<1>1. PICK s : End(c, "done", Page(c, s)) /\ pc[c] \in {"page", "plain"} /\ UNCHANGED <<retained, lock, locks>>
  BY DEF Serve, ServePlain
<1>2. Page(c, s).by = c
  BY DEF Page
<1>3. TableInv' /\ StoreInv' /\ Known' = Known /\ lost' = lost /\ Comes(c, "done") /\ SingleFlight'
  BY <1>1, <1>2, Ends
<1>4. LocksInv' /\ DroppedInv'
  BY <1>1, <1>3, LocksStay DEF Using, Holding, Stations
<1> QED
  BY <1>3, <1>4

LEMMA FailKeeps ==
  ASSUME IInv, NEW c \in Callers, Fail(c)
  PROVE  IInv'
<1> USE DEF IInv
<1>1. TableInv' /\ StoreInv' /\ Known' = Known /\ lost' = lost /\ Comes(c, "failed") /\ SingleFlight'
  BY Ends DEF Fail
<1>2. CASE pc[c] = "building" /\ ReleaseOnly(c)
  BY <1>1, <1>2, Releases DEF Holding
<1>3. CASE pc[c] = "waiting" /\ LeaveQueue(c)
  BY <1>1, <1>3, Leaves
<1>4. CASE pc[c] \in {"page", "plain"} /\ UNCHANGED <<lock, locks>>
  <2>1. LocksInv' /\ DroppedInv'
    BY <1>1, <1>4, LocksStay DEF Using, Holding, Stations
  <2> QED
    BY <1>1, <2>1
<1> QED
  BY <1>2, <1>3, <1>4 DEF Fail

LEMMA StepOfPages == IInv /\ [Next]_vars => IInv'
<1> SUFFICES ASSUME IInv, [Next]_vars PROVE IInv'
  OBVIOUS
<1>1. CASE Next
  BY <1>1, Around, Looks, AcquireKeeps, RecheckKeeps, CollectKeeps, RetainKeeps, ServeKeeps, FailKeeps
     DEF Next, Advance
<1>2. CASE UNCHANGED vars
  <2> USE DEF IInv
  <2>1. /\ lock' = lock /\ pc' = pc /\ asked' = asked /\ ids' = ids /\ registry' = registry
        /\ holder' = holder /\ waiters' = waiters /\ left' = left /\ reply' = reply
        /\ rows' = rows /\ changes' = changes /\ UNCHANGED retained
    BY <1>2 DEF vars, locks, callers, table
  <2>2. LocksInv'
    BY <2>1 DEF LocksInv, CallType, LockType, HolderInv, QueueInv, PlaceInv, FreshInv, HeldInv, Here
  <2>3. TableInv' /\ StoreInv' /\ Known' = Known /\ lost' = lost
    BY <2>1 DEF TableInv, retained, StoreInv, Stored, Kept, Size, Known
  <2>4. DroppedInv' /\ SingleFlight'
    BY <2>1, <2>3, StillSingle DEF DroppedInv, Building
  <2> QED
    BY <2>2, <2>3, <2>4
<1> QED
  BY <1>1, <1>2

LEMMA InvOfPages == Spec => []IInv
BY StartOfPages, StepOfPages, PTL DEF Spec

-----------------------------------------------------------------------------
(* What the invariant says *)

\* The store of retained sets is never over max_entries and max_bytes, whatever is put,
\* expires and is swept, and all the state keeps its type (InMemoryIdSetStore.put).
THEOREM StoreSafe == Spec => []StoreWithinLimits
<1>1. IInv => StoreWithinLimits
  <2> SUFFICES ASSUME IInv PROVE StoreWithinLimits
    OBVIOUS
  <2> USE DEF IInv, LocksInv
  <2>1. \A s \in Seq(Rows) : ToSet(s) \subseteq Rows
    BY LenProperties DEF ToSet
  <2>2. \A k \in Keys : store[k] = None \/ (ToSet(store[k]) \subseteq Rows /\ IsInjective(store[k])
                                             /\ Len(store[k]) <= MaxIds)
    BY <2>1 DEF StoreInv, Retainable
  <2>3. \A m \in Callers : ToSet(waiters[m]) \subseteq Callers /\ IsInjective(waiters[m])
    <3>1. \A s \in Seq(Callers) : ToSet(s) \subseteq Callers
      BY LenProperties DEF ToSet
    <3> QED
      BY <3>1 DEF QueueInv, LockType
  <2>4. \A c \in Callers : Len(ids[c]) <= MaxIds
    BY DEF CallType, Retainable
  <2>5. TypeOK
    BY <2>2, <2>3, <2>4 DEF TypeOK, TableInv, StoreInv, CallType, LockType, Stations, Places
  <2> QED
    BY <2>5 DEF StoreWithinLimits, StoreInv
<1> QED
  BY <1>1, InvOfPages, PTL

\* Callers of one loop and key build one after the other unless the store lost a set
\* meanwhile, and a registered lock has somebody who uses it or one who left it there,
\* whoever fails, is cancelled or comes late (_id_set_build_locks).
THEOREM BuildLocksSafe == Spec => []BuildLocksSound
<1>1. IInv => BuildLocksSound
  <2> SUFFICES ASSUME IInv PROVE BuildLocksSound
    OBVIOUS
  <2> USE DEF IInv, LocksInv
  <2>1. RegistryReleased
    <3> SUFFICES ASSUME NEW l \in Loops, NEW k \in Keys, registry[l][k] # None, <<l, k>> \notin left
                 PROVE  \E c \in Callers : lock[c] = registry[l][k]
      BY DEF RegistryReleased
    <3>1. registry[l][k] \in Callers
      BY DEF LockType
    <3>2. holder[registry[l][k]] \in Callers
      BY <3>1 DEF HeldInv, LockType
    <3> QED
      BY <3>1, <3>2 DEF HolderInv
  <2> QED
    BY <2>1 DEF BuildLocksSound
<1> QED
  BY <1>1, InvOfPages, PTL

\* Whoever waits for a lock is in its queue, and the lock is free or its holder is still
\* at work, whatever failed or was cancelled before (async with lock).
THEOREM NobodyStuckSafe == Spec => []NobodyStuck
<1>1. IInv => NobodyStuck
  <2> SUFFICES ASSUME IInv, NEW c \in Callers, pc[c] = "waiting"
               PROVE  /\ \E i \in DOMAIN waiters[lock[c]] : waiters[lock[c]][i] = c
                      /\ \A h \in Callers : holder[lock[c]] = h =>
                           lock[h] = lock[c] /\ pc[h] \in {"locked", "building", "putting"}
    BY DEF NobodyStuck
  <2> USE DEF IInv, LocksInv
  <2>1. lock[c] \in Callers
    BY DEF CallType, Using
  <2>2. c \in Elements(waiters[lock[c]]) /\ waiters[lock[c]] \in Seq(Callers)
    BY <2>1 DEF QueueInv, LockType
  <2>3. DOMAIN waiters[lock[c]] = 1 .. Len(waiters[lock[c]])
    BY <2>2, LenProperties
  <2> QED
    BY <2>1, <2>2, <2>3 DEF Elements, HolderInv, Holding
<1> QED
  BY <1>1, InvOfPages, PTL

-----------------------------------------------------------------------------
(* Pages *)

\* All numbers of S are in S in order.
LEMMA SortsAll ==
  ASSUME NEW S, S \subseteq Int, IsFiniteSet(S)
  PROVE  \A x \in S : \E i \in 1 .. Cardinality(S) : InOrder(S)[i] = x
<1> DEFINE n == Cardinality(S)
           s == InOrder(S)
<1>1. n \in Nat /\ IsFiniteSet(1 .. n) /\ Cardinality(1 .. n) = n
  BY FS_CardinalityType, FS_Interval
<1>2. s \in [1 .. n -> S] /\ \A i, j \in 1 .. n : i < j => s[i] < s[j]
  BY InOrderSorts DEF Sorts
<1> HIDE DEF n, s
<1>3. \A i, j \in 1 .. n : s[i] = s[j] => i = j
  <2> SUFFICES ASSUME NEW i \in 1 .. n, NEW j \in 1 .. n, s[i] = s[j]
               PROVE  i = j
    OBVIOUS
  <2>1. s[i] \in Int /\ i \in Int /\ j \in Int
    <3>1. s[i] \in S
      BY <1>2
    <3>2. s[i] \in Int
      BY <3>1
    <3> QED
      BY <1>1, <3>2
  <2>2. ~(i < j) /\ ~(j < i)
    BY <1>2, <2>1
  <2> QED
    BY <2>1, <2>2
<1>4. s \in Injection(1 .. n, S)
  BY <1>2, <1>3 DEF Injection, IsInjective
<1>5. Cardinality(1 .. n) = Cardinality(S)
  BY <1>1 DEF n
<1>6. s \in Surjection(1 .. n, S)
  BY <1>4, <1>5, FS_Injection
<1> QED
  BY <1>6 DEF Surjection, n, s

Shown(s) == {s[i] : i \in DOMAIN s}

\* A window is no longer than the limit and shows what its sequence shows.
LEMMA WindowShows ==
  ASSUME NEW T, NEW s \in Seq(T), NEW offset \in Nat
  PROVE  LET w == Window(s, offset)
         IN  w \in Seq(T) /\ Len(w) \in 0 .. Limit /\ Shown(w) \subseteq Shown(s)
<1> DEFINE last == IF offset + Limit < Len(s) THEN offset + Limit ELSE Len(s)
           w == SubSeq(s, offset + 1, last)
<1>1. Limit \in Nat /\ Len(s) \in Nat /\ DOMAIN s = 1 .. Len(s) /\ \A i \in 1 .. Len(s) : s[i] \in T
  BY PagingAssumption, LenProperties DEF PagingAssumption
<1>2. offset + 1 \in Int /\ last \in Int /\ last <= Len(s) /\ last <= offset + Limit
  BY <1>1
<1>3. Window(s, offset) = w
  BY DEF Window
<1> HIDE DEF last
<1>4. \A i \in offset + 1 .. last : i \in 1 .. Len(s) /\ s[i] \in T
  BY <1>1, <1>2
<1>5. /\ w \in Seq(T)
      /\ Len(w) = IF offset + 1 <= last THEN last - (offset + 1) + 1 ELSE 0
      /\ \A i \in 1 .. last - (offset + 1) + 1 : w[i] = s[offset + 1 + i - 1]
  BY <1>2, <1>4, SubSeqProperties
<1> HIDE DEF w
<1>6. Len(w) \in 0 .. Limit
  BY <1>1, <1>2, <1>5
<1>7. Shown(w) \subseteq Shown(s)
  <2> SUFFICES ASSUME NEW i \in DOMAIN w
               PROVE  w[i] \in Shown(s)
    BY DEF Shown
  <2>1. DOMAIN w = 1 .. Len(w)
    BY <1>5, LenProperties
  <2>2. i \in 1 .. last - (offset + 1) + 1
    BY <1>2, <1>5, <2>1
  <2>3. w[i] = s[offset + 1 + i - 1] /\ offset + 1 + i - 1 \in 1 .. Len(s)
    BY <1>1, <1>2, <1>5, <2>2
  <2> QED
    BY <1>1, <2>3 DEF Shown
<1> QED
  BY <1>3, <1>5, <1>6, <1>7

\* Verified keeps exactly the selected IDs.
LEMMA VerifiedShows ==
  ASSUME NEW T, NEW s \in Seq(T)
  PROVE  Len(Verified(s)) \in 0 .. Len(s) /\ Shown(Verified(s)) = Shown(s) \cap rows
<1> DEFINE kept == {i \in DOMAIN s : s[i] \in rows}
           places == InOrder(kept)
           n == Cardinality(kept)
           v == [j \in DOMAIN places |-> s[places[j]]]
<1>1. Len(s) \in Nat /\ DOMAIN s = 1 .. Len(s)
  BY LenProperties
<1>2. IsFiniteSet(1 .. Len(s)) /\ Cardinality(1 .. Len(s)) = Len(s)
  BY <1>1, FS_Interval
<1>3. kept \subseteq Int /\ IsFiniteSet(kept) /\ n <= Len(s) /\ n \in Nat
  <2>1. kept \in SUBSET (1 .. Len(s))
    BY <1>1
  <2> HIDE DEF kept
  <2>2. IsFiniteSet(kept) /\ n <= Len(s)
    BY <1>2, <2>1, FS_Subset
  <2> QED
    BY <2>1, <2>2, FS_CardinalityType
<1>4. Sorts(places, kept) /\ \A x \in kept : \E j \in 1 .. n : places[j] = x
  <2> HIDE DEF kept
  <2> QED
    BY <1>3, InOrderSorts, SortsAll
<1>5. places \in [1 .. n -> kept]
  BY <1>4 DEF Sorts
<1>6. v = Verified(s)
  BY DEF Verified
<1> HIDE DEF n
<1>7. DOMAIN places = 1 .. n
  BY <1>5
<1>8. Len(v) = n
  <2>1. v \in [1 .. n -> T]
    <3>1. \A j \in 1 .. n : places[j] \in 1 .. Len(s)
      BY <1>1, <1>5
    <3>2. \A i \in 1 .. Len(s) : s[i] \in T
      BY LenProperties
    <3> HIDE DEF places
    <3> QED
      BY <1>7, <3>1, <3>2
  <2> HIDE DEF v
  <2> QED
    BY <1>3, <2>1, IsASeq, LenProperties
<1>9. Shown(v) = Shown(s) \cap rows
  <2>1. \A j \in 1 .. n : places[j] \in DOMAIN s /\ s[places[j]] \in rows
    BY <1>5
  <2>2. \A i \in DOMAIN s : s[i] \in rows => \E j \in 1 .. n : places[j] = i
    BY <1>4
  <2> HIDE DEF places
  <2>3. Shown(v) \subseteq Shown(s) \cap rows
    BY <1>7, <2>1 DEF Shown
  <2>4. Shown(s) \cap rows \subseteq Shown(v)
    BY <1>7, <2>2 DEF Shown
  <2> QED
    BY <2>3, <2>4
<1> HIDE DEF v
<1> QED
  BY <1>1, <1>3, <1>6, <1>8, <1>9

\* What a caller has seen all the time is there, and what it has not is not.
SeenInv ==
  /\ present \in [Callers -> SUBSET rows]
  /\ absent \in [Callers -> SUBSET (Rows \ rows)]

LEMMA SeenStart == Init => SeenInv
BY DEF Init, SeenInv

LEMMA SeenStep == TableInv /\ SeenInv /\ [Next]_vars => SeenInv'
<1> SUFFICES ASSUME TableInv, SeenInv, [Next]_vars PROVE SeenInv'
  OBVIOUS
<1>1. ASSUME NEW r \in Rows, Insert(r)
      PROVE  SeenInv'
  BY <1>1 DEF Insert, SeenInv
<1>2. ASSUME NEW r \in Rows, Delete(r)
      PROVE  SeenInv'
  BY <1>2 DEF Delete, SeenInv
<1>3. ASSUME NEW k \in Keys, Expire(k)
      PROVE  SeenInv'
  BY <1>3 DEF Expire, SeenInv, table, history
<1>4. ASSUME NEW c \in Callers, NEW q \in Queries, Look(c, q)
      PROVE  SeenInv'
  <2>1. /\ present' = [present EXCEPT ![c] = rows] /\ absent' = [absent EXCEPT ![c] = Rows \ rows]
        /\ rows' = rows
    BY <1>4 DEF Look, table
  <2> QED
    BY <2>1 DEF SeenInv
<1>5. ASSUME NEW c \in Callers, Acquire(c) \/ Recheck(c) \/ Collect(c) \/ Retain(c)
      PROVE  SeenInv'
  <2>1. UNCHANGED <<table, history>>
    BY <1>5 DEF Acquire, Recheck, Collect, Retain
  <2> QED
    BY <2>1 DEF SeenInv, table, history
<1>6. ASSUME NEW c \in Callers, Serve(c) \/ ServePlain(c) \/ Fail(c)
      PROVE  SeenInv'
  <2>1. present' = [present EXCEPT ![c] = {}] /\ absent' = [absent EXCEPT ![c] = {}] /\ rows' = rows
    BY <1>6 DEF Serve, ServePlain, Fail, End, table
  <2> QED
    BY <2>1 DEF SeenInv
<1>7. CASE UNCHANGED vars
  BY <1>7 DEF vars, SeenInv, table, history
<1> QED
  BY <1>1, <1>2, <1>3, <1>4, <1>5, <1>6, <1>7 DEF Next, Advance

\* Only the step that returns the page of a caller ends its query well.
LEMMA OnlyServes ==
  ASSUME IInv, [Next]_vars, NEW c \in Callers, pc[c] # "done", pc'[c] = "done"
  PROVE  Serve(c) \/ ServePlain(c)
<1> USE DEF IInv, LocksInv, CallType
<1>1. ASSUME NEW d \in Callers, NEW to, to # "done", Go(d, to)
      PROVE  FALSE
  BY <1>1 DEF Go
<1>2. ASSUME NEW d \in Callers, NEW to, to # "done" \/ d # c, NEW answer, End(d, to, answer)
      PROVE  FALSE
  BY <1>2 DEF End
<1>3. CASE UNCHANGED vars \/ (\E r \in Rows : Insert(r) \/ Delete(r)) \/ (\E k \in Keys : Expire(k))
  BY <1>3 DEF vars, Insert, Delete, Expire, callers
<1>4. ASSUME NEW d \in Callers, NEW q \in Queries, Look(d, q)
      PROVE  FALSE
  BY <1>1, <1>4 DEF Look, TakeLock
<1>5. ASSUME NEW d \in Callers, Acquire(d) \/ Recheck(d) \/ Collect(d) \/ Retain(d)
      PROVE  FALSE
  BY <1>1, <1>5 DEF Acquire, Recheck, Collect, Retain
<1>6. ASSUME NEW d \in Callers, Fail(d)
      PROVE  FALSE
  BY <1>2, <1>6 DEF Fail
<1>7. ASSUME NEW d \in Callers, Serve(d) \/ ServePlain(d)
      PROVE  d = c
  BY <1>2, <1>7 DEF Serve, ServePlain
<1> QED
  BY <1>3, <1>4, <1>5, <1>6, <1>7 DEF Next, Advance

\* A page is within the limit, shows no row that was not selected at any time since the
\* call, and from a retained set, however old, all rows of its window that were selected
\* all the time (_query).
THEOREM PageSafe == Spec => PageTruthful
<1> DEFINE Truthful ==
             \A c \in Callers : pc[c] \in {"page", "plain"} /\ pc'[c] = "done" =>
               /\ Len(reply'.rows) <= Limit
               /\ ToSet(reply'.rows) \cap absent[c] = {}
               /\ pc[c] = "page" =>
                    ToSet(Window(ids[c], asked[c].offset)) \cap present[c] \subseteq ToSet(reply'.rows)
<1>1. IInv /\ SeenInv /\ [Next]_vars => Truthful
  <2> SUFFICES ASSUME IInv, SeenInv, [Next]_vars, NEW c \in Callers, pc[c] \in {"page", "plain"},
                      pc'[c] = "done"
               PROVE  /\ Len(reply'.rows) <= Limit
                      /\ ToSet(reply'.rows) \cap absent[c] = {}
                      /\ pc[c] = "page" =>
                           ToSet(Window(ids[c], asked[c].offset)) \cap present[c] \subseteq ToSet(reply'.rows)
    OBVIOUS
  <2>1. asked[c] \in Queries /\ ids[c] \in Seq(Rows) /\ rows \in SUBSET Rows
    BY DEF IInv, LocksInv, CallType, Retainable, TableInv
  <2>2. asked[c].offset \in Nat
    BY <2>1, PagingAssumption DEF PagingAssumption
  <2>3. present[c] \subseteq rows /\ absent[c] \cap rows = {} /\ Limit \in Nat
    BY PagingAssumption DEF SeenInv, PagingAssumption
  <2>4. \A s : ToSet(s) = Shown(s)
    BY DEF ToSet, Shown
  <2>5. CASE Serve(c)
    <3> DEFINE w == Window(ids[c], asked[c].offset)
    <3>1. reply'.rows = Verified(w)
      BY <2>5 DEF Serve, End, Page
    <3>2. w \in Seq(Rows) /\ Len(w) \in 0 .. Limit
      BY <2>1, <2>2, WindowShows
    <3> HIDE DEF w
    <3>3. Len(Verified(w)) \in 0 .. Len(w) /\ Shown(Verified(w)) = Shown(w) \cap rows
      BY <3>2, VerifiedShows
    <3>4. Len(Verified(w)) <= Limit
      BY <2>3, <3>2, <3>3
    <3> QED
      BY <2>3, <2>4, <3>1, <3>3, <3>4 DEF w
  <2>6. CASE ServePlain(c)
    <3> DEFINE s == InOrder(rows)
               w == Window(s, asked[c].offset)
    <3>1. reply'.rows = w /\ pc[c] = "plain"
      BY <2>6 DEF ServePlain, End, Page
    <3>2. Sorts(s, rows) /\ s \in Seq(Rows) /\ Len(s) = Cardinality(rows)
      <4>1. rows \subseteq Int /\ IsFiniteSet(rows)
        BY <2>1, RowsAssumption, FS_Subset DEF RowsAssumption
      <4> QED
        BY <2>1, <4>1, InOrderSorts, Collected
    <3>3. Shown(s) \subseteq rows
      BY <3>2 DEF Sorts, Shown
    <3> HIDE DEF s
    <3>4. Len(w) \in 0 .. Limit /\ Shown(w) \subseteq Shown(s)
      BY <2>2, <3>2, WindowShows
    <3> HIDE DEF w
    <3> QED
      BY <2>3, <2>4, <3>1, <3>3, <3>4
  <2> QED
    BY <2>5, <2>6, OnlyServes
<1>2. IInv => TableInv
  BY DEF IInv
<1>3. Spec => []SeenInv
  BY <1>2, InvOfPages, SeenStart, SeenStep, PTL DEF Spec
<1>4. Spec => [][Truthful]_vars
  BY <1>1, <1>3, InvOfPages, PTL DEF Spec
<1> QED
  BY <1>4 DEF PageTruthful

-----------------------------------------------------------------------------
(* Lists: what a call knows *)

\* The fields of a call.
IsCall(s) ==
  /\ s = [pc |-> s.pc, request |-> s.request, from |-> s.from, issued |-> s.issued, only |-> s.only,
          todo |-> s.todo, counts |-> s.counts, answer |-> s.answer]
  /\ s.answer = [rows |-> s.answer.rows, total |-> s.answer.total, sums |-> s.answer.sums,
                 related |-> s.answer.related, facets |-> s.answer.facets]

Shots(s, tb) == {tb[i] : i \in s.from .. Len(tb)}
RowsOf(s) == Listing!ToSet(s.answer.rows)
LoadOf(s) == CHOOSE x \in s.request.load : TRUE

\* What a facet of p counts.
KindsOf(r, p, t) ==
  IF p = 0 THEN [m \in Listing!Selected(t, r) |-> t.member[m]]
  ELSE [c \in Listing!ChildrenOf(t, p) |-> t.child[c].kind]

Tells(shown, kind, K, which) ==
  LET of(k) == Cardinality({x \in DOMAIN kind : kind[x] = k})
  IN  /\ DOMAIN shown = {k \in K : which = "all" \/ of(k) > 0}
      /\ \A k \in DOMAIN shown : shown[k] = of(k)

WhichFacet(s, p) == IF p = 0 THEN s.request.facet ELSE LoadOf(s).facet

SumsTold(s, t) == s.answer.sums = [p \in RowsOf(s) |-> Cardinality(Listing!ChildrenOf(t, p))]
WholeTold(s, t) == Listing!UpToCeiling(s.answer.related, t, RowsOf(s))
ChildrenTold(s, t, p) == Listing!InLimits(s.answer.related[p], t, p, LoadOf(s))
FacetTold(s, t, u, p) ==
  Tells(s.answer.facets[p], KindsOf(s.request, p, t), u.kinds, WhichFacet(s, p))

\* Facets that a page of an id-set limits.
PageFacet(s, p) == p = 0 /\ s.request.idSet

\* What query q was to find out is in the answer.
Told(s, T, q) ==
  /\ q.op = "sum" => \E t \in T : SumsTold(s, t)
  /\ q.op = "load" =>
       IF LoadOf(s).query THEN \E t \in T : \A p \in RowsOf(s) : ChildrenTold(s, t, p)
       ELSE \E t \in T : WholeTold(s, t)
  /\ q.op = "probe" => q.of \in DOMAIN s.answer.related /\ \E t \in T : ChildrenTold(s, t, q.of)
  /\ q.op = "show" =>
       /\ q.of \in DOMAIN s.answer.facets
       /\ ~PageFacet(s, q.of) => \E t, u \in T : FacetTold(s, t, u, q.of)

\* What was counted for the facet of p.
CountsTold(s, T, p) ==
  ~PageFacet(s, p) => \E t \in T : s.counts = Listing!Tally(KindsOf(s.request, p, t))

Members(x) == {x[i] : i \in DOMAIN x}

Ops == {"sum", "probe", "load", "count", "show"}
Queryable == [op : Ops, of : Int]
Ask(op, p) == [op |-> op, of |-> p]

\* selected_plan under the policy pol
Probes(pol, load, n) ==
  /\ load.query
  /\ \/ pol = "always_probe" /\ load.threshold = {}
     \/ \E x \in load.threshold : x > 0 /\ n <= x

\* What is asked after a page of rows x.
AskedOf(pol, r, x) ==
  LET load == CHOOSE y \in r.load : TRUE
      some == x # <<>> /\ r.load # {}
  IN  {q \in Queryable :
        \/ q = Ask("sum", 0) /\ r.sums /\ x # <<>>
        \/ q = Ask("load", 0) /\ some /\ ~Probes(pol, load, Len(x))
        \/ q.op = "probe" /\ q.of \in Members(x) /\ some /\ Probes(pol, load, Len(x))
        \/ q.op \in {"count", "show"} /\ q.of \in Members(x) /\ some /\ load.facet # "none"
        \/ q.op \in {"count", "show"} /\ q.of = 0 /\ r.facet # "none"}

Asking(pol, s) == AskedOf(pol, s.request, s.answer.rows)

Progress(pol, s, T) ==
  /\ s.todo \in Seq(Asking(pol, s))
  /\ \A q \in Asking(pol, s) : q \in Members(s.todo) \/ Told(s, T, q)
  /\ \A i \in DOMAIN s.todo : s.todo[i].op = "show" =>
       IF i = 1 THEN CountsTold(s, T, s.todo[1].of)
       ELSE s.todo[i - 1] = [op |-> "count", of |-> s.todo[i].of]

DistinctRows(x) == x \in Seq(MemberIds) /\ \A i, j \in DOMAIN x : x[i] = x[j] => i = j
CountOf(t, r) == Cardinality(Listing!Selected(t, r))

Stages == {"total", "collect", "page", "nested"}
Alive(s) == s.pc \in Stages

\* A call that has a request.
Called(s, tb) ==
  /\ IsCall(s) /\ s.request \in Requests /\ s.from \in 1 .. Len(tb)
  /\ DistinctRows(s.answer.rows) /\ \A x \in s.only : DistinctRows(x)
  /\ s.only # {} => s.request.idSet

TotalTold(s, tb) ==
  s.request.counted /\ ~s.request.idSet => \E t \in Shots(s, tb) : s.answer.total = {CountOf(t, s.request)}
AllAsked(pol, s, tb) == s.answer.rows # <<>> => s.todo = <<>> /\ Progress(pol, s, Shots(s, tb))

\* What holds of a call at a stage.
AtStage(pol, s, stage, tb) ==
  /\ stage = "collect" => s.request.idSet /\ s.only = {} /\ s.answer.rows = <<>>
  /\ stage \in {"page", "nested", "done"} => TotalTold(s, tb)
  /\ stage = "nested" => s.todo # <<>> /\ Progress(pol, s, Shots(s, tb))
  /\ stage \in {"total", "done"} => AllAsked(pol, s, tb)

Good(pol, s, tb) ==
  /\ IsCall(s) /\ s.pc \in Stages \cup {"idle", "done", "failed"}
  /\ s.pc \in Stages \cup {"done"} => Called(s, tb) /\ AtStage(pol, s, s.pc, tb)
  /\ Alive(s) => s.issued \in s.from .. Len(tb)

\* A total read from a retained set.
RetainedTotal(s, tb) ==
  s.pc = "done" /\ s.request.counted /\ s.request.idSet =>
    \E t \in IF s.only = {} /\ s.answer.rows # <<>> THEN Shots(s, tb) ELSE Members(tb) :
      s.answer.total = {CountOf(t, s.request)}

\* What a context has observed is of the call s.
OwnMark(s, o, tb) ==
  o.exact => s.only # {} /\ \E t \in Members(tb) : o.count = CountOf(t, s.request)

TablesOK == tables \in Seq(Databases) /\ tables # <<>>
SetsOK ==
  /\ DOMAIN sets = Listing!Filters
  /\ \A f \in Listing!Filters : \A x \in sets[f] :
       DistinctRows(x) /\ \E t \in Members(tables) : \A r \in Requests : r.filter = f => Len(x) = CountOf(t, r)
MarksOK ==
  /\ DOMAIN observed = Contexts
  /\ \A l \in Lists : Alive(list[l]) /\ l \notin overlapped =>
       OwnMark(list[l], observed[list[l].request.context], tables)
Apart ==
  \A k, l \in Lists : k # l /\ Alive(list[k]) /\ Alive(list[l])
                        /\ list[k].request.context = list[l].request.context =>
    l \in overlapped

ListsInv ==
  /\ TablesOK /\ SetsOK /\ MarksOK /\ Apart
  /\ DOMAIN list = Lists
  /\ \A l \in Lists : Good(policy, list[l], tables) /\ (l \notin overlapped => RetainedTotal(list[l], tables))

-----------------------------------------------------------------------------
(* Sequences in an order R of their elements *)

Orders(R, S) ==
  /\ \A x \in S : <<x, x>> \notin R
  /\ \A x, y, z \in S : <<x, y>> \in R /\ <<y, z>> \in R => <<x, z>> \in R
  /\ \A x, y \in S : x = y \/ <<x, y>> \in R \/ <<y, x>> \in R

Arranges(s, S, R) ==
  /\ s \in [1 .. Cardinality(S) -> S]
  /\ \A i, j \in 1 .. Cardinality(S) : i < j => <<s[i], s[j]>> \in R

\* The last of a finite set is the one that the fewest do not come before.
LEMMA LastInOrder ==
  ASSUME NEW R, NEW S, Orders(R, S), S # {}, IsFiniteSet(S)
  PROVE  \E m \in S : \A n \in S : n = m \/ <<n, m>> \in R
<1> DEFINE from(m) == {n \in S : n = m \/ <<m, n>> \in R}
           all == {from(m) : m \in S}
<1>1. all # {} /\ all \subseteq FiniteSubsetsOf(S)
  <2>1. \A m \in S : from(m) \in SUBSET S /\ IsFiniteSet(from(m))
    BY FS_Subset
  <2> QED
    BY <2>1 DEF FiniteSubsetsOf
<1> HIDE DEF all
<1>2. PICK least \in all : \A other \in all : <<other, least>> \notin StrictSubsetOrdering(S)
  BY <1>1, WFMin, FS_StrictSubsetOrderingWellFounded
<1>3. PICK m \in S : least = from(m)
  BY <1>2 DEF all
<1>4. ASSUME NEW n \in S, ~(n = m \/ <<n, m>> \in R)
      PROVE  FALSE
  <2>1. from(n) \in all
    BY DEF all
  <2>2. <<m, n>> \in R
    BY <1>4 DEF Orders
  <2>3. m \in from(m) /\ m \notin from(n)
    BY <1>4
  <2>4. from(n) \subseteq from(m)
    BY <2>2 DEF Orders
  <2>5. <<from(n), least>> \in StrictSubsetOrdering(S)
    BY <1>3, <2>3, <2>4 DEF StrictSubsetOrdering
  <2> QED
    BY <1>2, <2>1, <2>5
<1> QED
  BY <1>3, <1>4

\* A finite set can be arranged in any order: of the sets that cannot, a smallest
\* one without its last element can.
LEMMA CanBeArranged ==
  ASSUME NEW R, NEW S, Orders(R, S), IsFiniteSet(S)
  PROVE  \E s : Arranges(s, S, R)
<1> DEFINE unsorted == {T \in SUBSET S : \A s : ~Arranges(s, T, R)}
<1>1. SUFFICES ASSUME unsorted # {} PROVE FALSE
  OBVIOUS
<1>2. unsorted \subseteq FiniteSubsetsOf(S)
  BY FS_Subset DEF FiniteSubsetsOf
<1>3. PICK T \in unsorted : \A U \in unsorted : <<U, T>> \notin StrictSubsetOrdering(S)
  <2> HIDE DEF unsorted
  <2> QED
    BY <1>1, <1>2, WFMin, FS_StrictSubsetOrderingWellFounded
<1>4. T \subseteq S /\ IsFiniteSet(T) /\ \A s : ~Arranges(s, T, R)
  BY FS_Subset
<1>5. T # {}
  <2>1. CASE T = {}
    <3>1. Cardinality(T) = 0
      BY <2>1, FS_EmptySet
    <3>2. [i \in 1 .. 0 |-> 0] \in [1 .. Cardinality(T) -> T]
      BY <3>1
    <3>3. Arranges([i \in 1 .. 0 |-> 0], T, R)
      BY <3>1, <3>2 DEF Arranges
    <3> QED
      BY <1>4, <3>3
  <2> QED
    BY <2>1
<1>6. PICK m \in T : \A n \in T : n = m \/ <<n, m>> \in R
  <2>1. Orders(R, T)
    BY <1>4 DEF Orders
  <2> QED
    BY <1>4, <1>5, <2>1, LastInOrder
<1> DEFINE U == T \ {m}
<1>7. U \subseteq T /\ U \subseteq S /\ m \notin U /\ U \cup {m} = T
  BY <1>4, <1>6
<1>8. <<U, T>> \in StrictSubsetOrdering(S)
  BY <1>4, <1>6, <1>7 DEF StrictSubsetOrdering
<1>9. PICK s : Arranges(s, U, R)
  BY <1>3, <1>7, <1>8
<1>10. Cardinality(U) \in Nat /\ Cardinality(T) = Cardinality(U) + 1
  <2>1. IsFiniteSet(U)
    BY <1>4, <1>7, FS_Subset
  <2> QED
    BY <1>7, <2>1, FS_AddElement, FS_CardinalityType
<1>11. \A n \in U : <<n, m>> \in R
  BY <1>6, <1>7
<1> DEFINE k == Cardinality(U)
           longer == [i \in 1 .. k + 1 |-> IF i = k + 1 THEN m ELSE s[i]]
<1>12. k \in Nat /\ s \in [1 .. k -> U] /\ \A i, j \in 1 .. k : i < j => <<s[i], s[j]>> \in R
  BY <1>9, <1>10 DEF Arranges
<1>13. Cardinality(T) = k + 1
  BY <1>10
<1> HIDE DEF U, k
<1>14. \A i \in 1 .. k + 1 : i \in 1 .. k \/ i = k + 1
  BY <1>12
<1>15. longer \in [1 .. k + 1 -> T]
  BY <1>6, <1>7, <1>12, <1>14
<1>16. ASSUME NEW i \in 1 .. k + 1, NEW j \in 1 .. k + 1, i < j
       PROVE  <<longer[i], longer[j]>> \in R
  <2>1. i \in 1 .. k
    BY <1>12, <1>16
  <2>2. longer[i] = s[i] /\ s[i] \in U
    BY <1>12, <2>1
  <2>3. CASE j = k + 1
    BY <1>11, <2>2, <2>3
  <2>4. CASE j \in 1 .. k
    <3>1. longer[j] = s[j] /\ <<s[i], s[j]>> \in R
      BY <1>12, <1>16, <2>1, <2>4
    <3> QED
      BY <2>2, <3>1
  <2> QED
    BY <1>14, <2>3, <2>4
<1> HIDE DEF longer
<1>17. Arranges(longer, T, R)
  BY <1>13, <1>15, <1>16 DEF Arranges
<1> QED
  BY <1>4, <1>17

\* In a set in order each element has its place, that of the number before it.
LEMMA Placed ==
  ASSUME NEW R, NEW S, Orders(R, S), IsFiniteSet(S), NEW s, Arranges(s, S, R)
  PROVE  /\ Cardinality(S) \in Nat
         /\ \A i, j \in 1 .. Cardinality(S) : s[i] = s[j] => i = j
         /\ \A x \in S : \E i \in 1 .. Cardinality(S) : s[i] = x
         /\ \A i \in 1 .. Cardinality(S) :
              s[i] \in S /\ Cardinality({d \in S : <<d, s[i]>> \in R}) = i - 1
<1> DEFINE n == Cardinality(S)
<1>1. n \in Nat /\ IsFiniteSet(1 .. n) /\ Cardinality(1 .. n) = n
  BY FS_CardinalityType, FS_Interval
<1>2. s \in [1 .. n -> S] /\ \A i, j \in 1 .. n : i < j => <<s[i], s[j]>> \in R
  BY DEF Arranges
<1>3. Cardinality(1 .. n) = Cardinality(S)
  BY <1>1
<1> HIDE DEF n
<1>4. \A i, j \in 1 .. n : s[i] = s[j] => i = j
  <2> SUFFICES ASSUME NEW i \in 1 .. n, NEW j \in 1 .. n, s[i] = s[j]
               PROVE  i = j
    OBVIOUS
  <2>1. s[i] \in S /\ <<s[i], s[i]>> \notin R
    BY <1>2 DEF Orders
  <2>2. ~(i < j) /\ ~(j < i)
    BY <1>2, <2>1
  <2> QED
    BY <1>1, <2>2
<1>5. s \in Injection(1 .. n, S)
  BY <1>2, <1>4 DEF Injection, IsInjective
<1>6. s \in Surjection(1 .. n, S)
  BY <1>3, <1>5, FS_Injection
<1>7. \A x \in S : \E i \in 1 .. n : s[i] = x
  BY <1>6 DEF Surjection
<1>8. ASSUME NEW i \in 1 .. n
      PROVE  s[i] \in S /\ Cardinality({d \in S : <<d, s[i]>> \in R}) = i - 1
  <2> DEFINE before == {d \in S : <<d, s[i]>> \in R}
             f == [j \in 1 .. i - 1 |-> s[j]]
  <2>1. i - 1 \in Nat /\ \A j \in 1 .. i - 1 : j \in 1 .. n /\ j < i
    BY <1>1
  <2>2. f \in [1 .. i - 1 -> before]
    BY <1>2, <2>1
  <2>3. f \in Injection(1 .. i - 1, before)
    <3>1. \A j, k \in 1 .. i - 1 : f[j] = f[k] => j = k
      BY <1>4, <2>1
    <3> HIDE DEF f, before
    <3> QED
      BY <2>2, <3>1 DEF Injection, IsInjective
  <2>4. ASSUME NEW d \in before
        PROVE  \E j \in 1 .. i - 1 : f[j] = d
    <3>1. PICK j \in 1 .. n : s[j] = d
      BY <1>7
    <3>2. <<s[j], s[i]>> \in R /\ s[j] \in S /\ s[i] \in S
      BY <1>2, <3>1
    <3>3. j # i /\ ~(i < j)
      BY <1>2, <3>2 DEF Orders
    <3>4. j \in 1 .. i - 1
      BY <1>1, <3>3
    <3> QED
      BY <3>1, <3>4
  <2>5. f \in Surjection(1 .. i - 1, before)
    <3> HIDE DEF f, before
    <3> QED
      BY <2>2, <2>4 DEF Surjection
  <2>6. ExistsBijection(1 .. i - 1, before)
    <3> HIDE DEF f, before
    <3> QED
      BY <2>3, <2>5 DEF ExistsBijection, Bijection
  <2>7. IsFiniteSet(1 .. i - 1) /\ Cardinality(1 .. i - 1) = i - 1
    BY <2>1, FS_Interval
  <2>8. Cardinality(before) = Cardinality(1 .. i - 1)
    <3> HIDE DEF before
    <3> QED
      BY <2>6, <2>7, FS_Bijection
  <2> QED
    BY <1>2, <2>7, <2>8
<1> QED
  BY <1>1, <1>4, <1>7, <1>8 DEF n

-----------------------------------------------------------------------------
(* The operators of the lists *)

LEMMA Same == \A S : Listing!Cardinality(S) = Cardinality(S)
BY DEF Listing!Cardinality, Cardinality

LEMMA MinOfTwo ==
  ASSUME NEW a \in Int, NEW b \in Int
  PROVE  Listing!Min({a, b}) = IF a <= b THEN a ELSE b
BY DEF Listing!Min

\* A slice shows the elements behind the offset, up to the limit.
LEMMA SliceShows ==
  ASSUME NEW S, NEW s \in Seq(S), NEW o \in Nat, NEW k \in Nat
  PROVE  LET w == Listing!Slice(s, o, k)
         IN  /\ w \in Seq(S)
             /\ \A i \in DOMAIN w : i \in Nat /\ o + i \in 1 .. Len(s) /\ i <= k /\ w[i] = s[o + i]
             /\ \A j \in 1 .. Len(s) : o < j /\ j <= o + k => j - o \in DOMAIN w
<1> DEFINE n == Len(s)
           last == IF o + k <= n THEN o + k ELSE n
           w == SubSeq(s, o + 1, last)
<1>1. n \in Nat /\ \A i \in 1 .. n : s[i] \in S
  BY LenProperties, ElementOfSeq
<1>2. Listing!Slice(s, o, k) = w
  BY <1>1, MinOfTwo DEF Listing!Slice
<1>3. o + 1 \in Int /\ last \in Int /\ last <= n /\ last <= o + k
  BY <1>1
<1>4. \A i \in o + 1 .. last : s[i] \in S
  BY <1>1, <1>3
<1> HIDE DEF last
<1>5. /\ w \in Seq(S)
      /\ Len(w) = IF o + 1 <= last THEN last - (o + 1) + 1 ELSE 0
      /\ \A i \in 1 .. last - (o + 1) + 1 : w[i] = s[o + 1 + i - 1]
  BY <1>3, <1>4, SubSeqProperties
<1>6. DOMAIN w = 1 .. Len(w)
  BY <1>5, LenProperties
<1> HIDE DEF w
<1>7. ASSUME NEW i \in DOMAIN w
      PROVE  i \in Nat /\ o + i \in 1 .. n /\ i <= k /\ w[i] = s[o + i]
  <2>1. i \in 1 .. last - (o + 1) + 1 /\ i \in Nat /\ i >= 1
    BY <1>3, <1>5, <1>6, <1>7
  <2>2. w[i] = s[o + 1 + i - 1]
    BY <1>5, <2>1
  <2>3. o + 1 + i - 1 = o + i
    BY <2>1
  <2> QED
    BY <1>1, <1>3, <2>1, <2>2, <2>3
<1>8. ASSUME NEW j \in 1 .. n, o < j, j <= o + k
      PROVE  j - o \in DOMAIN w
  <2>1. j <= last
    BY <1>1, <1>8 DEF last
  <2>2. Len(w) = last - o
    BY <1>1, <1>3, <1>5, <1>8, <2>1
  <2> QED
    BY <1>1, <1>3, <1>6, <1>8, <2>1, <2>2
<1> QED
  BY <1>2, <1>5, <1>7, <1>8

Less == {p \in Int \X Int : p[1] < p[2]}

\* Rows in order are a sequence of as many distinct rows.
LEMMA RowsInOrder ==
  ASSUME NEW S, S \subseteq Int, IsFiniteSet(S)
  PROVE  LET s == Listing!InOrder(S)
         IN  /\ s \in Seq(S) /\ Len(s) = Cardinality(S)
             /\ \A i, j \in DOMAIN s : s[i] = s[j] => i = j
<1>1. Orders(Less, S)
  BY DEF Orders, Less
<1>2. \A s : Arranges(s, S, Less) <=>
        s \in [1 .. Cardinality(S) -> S] /\ \A i, j \in 1 .. Cardinality(S) : i < j => s[i] < s[j]
  BY DEF Arranges, Less
<1>3. \E s : Arranges(s, S, Less)
  BY <1>1, CanBeArranged
<1>4. Arranges(Listing!InOrder(S), S, Less)
  BY <1>2, <1>3, Same DEF Listing!InOrder
<1> DEFINE s == Listing!InOrder(S)
<1>5. /\ Cardinality(S) \in Nat
      /\ \A i, j \in 1 .. Cardinality(S) : s[i] = s[j] => i = j
  BY <1>1, <1>4, Placed
<1>6. s \in [1 .. Cardinality(S) -> S]
  BY <1>4 DEF Arranges
<1> HIDE DEF s
<1>7. s \in Seq(S) /\ Len(s) = Cardinality(S) /\ DOMAIN s = 1 .. Cardinality(S)
  BY <1>5, <1>6, IsASeq, LenProperties
<1> QED
  BY <1>5, <1>7 DEF s

Younger == {p \in ChildIds \X ChildIds : Listing!Before(p[1], p[2])}

\* Children in order have their places.
LEMMA ChildrenInOrder ==
  ASSUME NEW S, S \subseteq ChildIds
  PROVE  LET s == Listing!Sorted(S)
         IN  /\ s \in Seq(S) /\ Len(s) = Cardinality(S) /\ IsFiniteSet(S)
             /\ \A i, j \in 1 .. Len(s) : i < j => Listing!Before(s[i], s[j])
             /\ \A x \in S : \E i \in 1 .. Len(s) : s[i] = x
             /\ \A i \in 1 .. Len(s) : Cardinality({d \in S : Listing!Before(d, s[i])}) = i - 1
<1>1. IsFiniteSet(S) /\ \A c \in S : c \in ChildIds /\ c \in Int /\ Rank[c] \in Int
  BY TablesAssumption, FS_Subset DEF TablesAssumption
<1>2. Orders(Younger, S)
  <2>1. \A x, y \in S : <<x, y>> \in Younger <=> (Rank[x] < Rank[y] \/ (Rank[x] = Rank[y] /\ x < y))
    BY <1>1 DEF Younger, Listing!Before
  <2>2. \A x \in S : <<x, x>> \notin Younger
    BY <1>1, <2>1
  <2>3. \A x, y, z \in S : <<x, y>> \in Younger /\ <<y, z>> \in Younger => <<x, z>> \in Younger
    BY <1>1, <2>1
  <2>4. \A x, y \in S : x = y \/ <<x, y>> \in Younger \/ <<y, x>> \in Younger
    <3> SUFFICES ASSUME NEW x \in S, NEW y \in S
                 PROVE  x = y \/ <<x, y>> \in Younger \/ <<y, x>> \in Younger
      OBVIOUS
    <3>1. x \in Int /\ y \in Int /\ Rank[x] \in Int /\ Rank[y] \in Int
      BY <1>1
    <3>2. x = y \/ Rank[x] < Rank[y] \/ Rank[y] < Rank[x] \/ (Rank[x] = Rank[y] /\ (x < y \/ y < x))
      BY <3>1
    <3> QED
      BY <2>1, <3>2
  <2> QED
    BY <2>2, <2>3, <2>4 DEF Orders
<1>3. \A s : Arranges(s, S, Younger) <=>
        s \in [1 .. Cardinality(S) -> S]
        /\ \A i, j \in 1 .. Cardinality(S) : i < j => Listing!Before(s[i], s[j])
  BY DEF Arranges, Younger
<1>4. \E s : Arranges(s, S, Younger)
  BY <1>1, <1>2, CanBeArranged
<1>5. Arranges(Listing!Sorted(S), S, Younger)
  BY <1>3, <1>4, Same DEF Listing!Sorted
<1> DEFINE s == Listing!Sorted(S)
<1>6. /\ Cardinality(S) \in Nat
      /\ \A x \in S : \E i \in 1 .. Cardinality(S) : s[i] = x
      /\ \A i \in 1 .. Cardinality(S) :
           s[i] \in S /\ Cardinality({d \in S : <<d, s[i]>> \in Younger}) = i - 1
  BY <1>1, <1>2, <1>5, Placed
<1>7. /\ s \in [1 .. Cardinality(S) -> S]
      /\ \A i, j \in 1 .. Cardinality(S) : i < j => Listing!Before(s[i], s[j])
  BY <1>3, <1>5
<1> HIDE DEF s
<1>8. s \in Seq(S) /\ Len(s) = Cardinality(S)
  BY <1>6, <1>7, IsASeq, LenProperties
<1>9. ASSUME NEW i \in 1 .. Len(s)
      PROVE  Cardinality({d \in S : Listing!Before(d, s[i])}) = i - 1
  <2>1. s[i] \in S
    BY <1>6, <1>8
  <2>2. {d \in S : Listing!Before(d, s[i])} = {d \in S : <<d, s[i]>> \in Younger}
    BY <2>1 DEF Younger
  <2> QED
    BY <1>6, <1>8, <2>2
<1> QED
  BY <1>1, <1>6, <1>7, <1>8, <1>9 DEF s

\* The rows and children of a database.
LEMMA Rowwise ==
  ASSUME NEW t \in Databases
  PROVE  /\ \A r : Listing!Selected(t, r) \subseteq MemberIds /\ IsFiniteSet(Listing!Selected(t, r))
         /\ \A p : Listing!ChildrenOf(t, p) \subseteq ChildIds /\ IsFiniteSet(Listing!ChildrenOf(t, p))
<1>1. PICK M \in SUBSET MemberIds : t.member \in [M -> Kinds]
  BY DEF Databases
<1>2. PICK C \in SUBSET ChildIds : t.child \in [C -> [of : MemberIds, kind : Kinds]]
  BY DEF Databases
<1>3. \A r : Listing!Selected(t, r) \subseteq M
  BY <1>1 DEF Listing!Selected
<1>4. \A p : Listing!ChildrenOf(t, p) \subseteq C
  BY <1>2 DEF Listing!ChildrenOf
<1>5. IsFiniteSet(MemberIds) /\ IsFiniteSet(ChildIds)
  BY TablesAssumption DEF TablesAssumption
<1>6. \A r : Listing!Selected(t, r) \subseteq MemberIds
  BY <1>3
<1>7. \A p : Listing!ChildrenOf(t, p) \subseteq ChildIds
  BY <1>4
<1> QED
  BY <1>5, <1>6, <1>7, FS_Subset

Limits(load) == load.offset \in Nat /\ load.limit \in Nat

\* What the limits of a load say in terms of places.
LEMMA PlacesInLimits ==
  ASSUME NEW t \in Databases, NEW p, NEW load, Limits(load),
         NEW s, s \in Seq(Listing!ChildrenOf(t, p)),
         \A i, j \in DOMAIN s : i < j => Listing!Before(s[i], s[j]),
         \A c \in Listing!ChildrenOf(t, p) :
           (\E i \in DOMAIN s : s[i] = c) <=>
             LET ahead == Cardinality({d \in Listing!ChildrenOf(t, p) : Listing!Before(d, c)})
             IN  ahead >= load.offset /\ ahead < load.offset + load.limit
  PROVE  Listing!InLimits(s, t, p, load)
<1> DEFINE all == Listing!ChildrenOf(t, p)
           ahead(c) == Cardinality({d \in all : Listing!Before(d, c)})
<1>1. \A i \in DOMAIN s : s[i] \in all
  BY LenProperties, ElementOfSeq
<1>2. Listing!ToSet(s) = {c \in all : ahead(c) >= load.offset /\ ahead(c) < load.offset + load.limit}
  <2> HIDE DEF all
  <2>1. Listing!ToSet(s) = {c \in all : \E i \in DOMAIN s : s[i] = c}
    BY <1>1 DEF Listing!ToSet
  <2> QED
    BY <2>1 DEF all
<1>3. Listing!ToSet(s) =
        {c \in all :
           Listing!Cardinality({d \in all : Listing!Before(d, c)}) >= load.offset
           /\ Listing!Cardinality({d \in all : Listing!Before(d, c)}) < load.offset + load.limit}
  <2>1. \A c : Listing!Cardinality({d \in all : Listing!Before(d, c)}) = ahead(c)
    BY Same
  <2> HIDE DEF all
  <2> QED
    BY <1>2, <2>1
<1> QED
  BY <1>3 DEF Listing!InLimits

LEMMA ProbeInLimits ==
  ASSUME NEW t \in Databases, NEW p, NEW load, Limits(load)
  PROVE  Listing!InLimits(Listing!Probe(t, p, load), t, p, load)
<1> DEFINE S == Listing!ChildrenOf(t, p)
           s == Listing!Sorted(S)
           w == Listing!Slice(s, load.offset, load.limit)
           ahead(c) == Cardinality({d \in S : Listing!Before(d, c)})
           o == load.offset
           k == load.limit
<1>1. o \in Nat /\ k \in Nat
  BY DEF Limits
<1>2. S \subseteq ChildIds
  BY Rowwise
<1> HIDE DEF S
<1>3. /\ s \in Seq(S) /\ Len(s) = Cardinality(S) /\ IsFiniteSet(S)
      /\ \A i, j \in 1 .. Len(s) : i < j => Listing!Before(s[i], s[j])
      /\ \A x \in S : \E i \in 1 .. Len(s) : s[i] = x
      /\ \A i \in 1 .. Len(s) : ahead(s[i]) = i - 1
  BY <1>2, ChildrenInOrder
<1>4. Len(s) \in Nat
  BY <1>3, LenProperties
<1> HIDE DEF s, ahead, o, k
<1>5. /\ w \in Seq(S)
      /\ \A i \in DOMAIN w : i \in Nat /\ o + i \in 1 .. Len(s) /\ i <= k /\ w[i] = s[o + i]
      /\ \A j \in 1 .. Len(s) : o < j /\ j <= o + k => j - o \in DOMAIN w
  BY <1>1, <1>3, SliceShows DEF o, k
<1> HIDE DEF w
<1>6. \A i, j \in DOMAIN w : i < j => Listing!Before(w[i], w[j])
  <2> SUFFICES ASSUME NEW i \in DOMAIN w, NEW j \in DOMAIN w, i < j
               PROVE  Listing!Before(w[i], w[j])
    OBVIOUS
  <2>1. o + i < o + j /\ o + i \in 1 .. Len(s) /\ o + j \in 1 .. Len(s)
    BY <1>1, <1>5
  <2> QED
    BY <1>3, <1>5, <2>1
<1>7. ASSUME NEW c \in S
      PROVE  (\E i \in DOMAIN w : w[i] = c) <=> ahead(c) >= o /\ ahead(c) < o + k
  <2>1. PICK j \in 1 .. Len(s) : s[j] = c
    BY <1>3
  <2>2. ahead(c) = j - 1 /\ j \in Int
    BY <1>3, <1>4, <2>1
  <2>3. ASSUME NEW i \in DOMAIN w, w[i] = c
        PROVE  ahead(c) >= o /\ ahead(c) < o + k
    <3>1. o + i \in 1 .. Len(s) /\ s[o + i] = c /\ i \in Nat /\ i <= k
      BY <1>5, <2>3
    <3>2. ahead(s[o + i]) = o + i - 1
      <4>1. \A h \in 1 .. Len(s) : ahead(s[h]) = h - 1
        BY <1>3
      <4> QED
        BY <1>1, <1>4, <3>1, <4>1
    <3>3. i # 0
      <4>1. DOMAIN w = 1 .. Len(w)
        BY <1>5, LenProperties
      <4> QED
        BY <4>1
    <3> QED
      BY <1>1, <3>1, <3>2, <3>3
  <2>4. ASSUME ahead(c) >= o, ahead(c) < o + k
        PROVE  \E i \in DOMAIN w : w[i] = c
    <3>1. o < j /\ j <= o + k
      BY <1>1, <2>2, <2>4
    <3>2. j - o \in DOMAIN w /\ o + (j - o) = j
      BY <1>1, <1>5, <2>2, <3>1
    <3>3. w[j - o] = c
      BY <1>5, <2>1, <3>2
    <3> QED
      BY <3>2, <3>3
  <2> QED
    BY <2>3, <2>4
<1> QED
  <2>1. Listing!Probe(t, p, load) = w
    BY DEF Listing!Probe, w, s, S
  <2>2. w \in Seq(Listing!ChildrenOf(t, p))
    BY <1>5 DEF S
  <2>3. \A c \in Listing!ChildrenOf(t, p) :
           (\E i \in DOMAIN w : w[i] = c) <=>
             LET x == Cardinality({d \in Listing!ChildrenOf(t, p) : Listing!Before(d, c)})
             IN  x >= load.offset /\ x < load.offset + load.limit
    BY <1>7 DEF S, ahead, o, k
  <2> QED
    BY <1>6, <2>1, <2>2, <2>3, PlacesInLimits

\* A window over the children of all rows shows those of each row in its limits.
LEMMA WindowInLimits ==
  ASSUME NEW t \in Databases, NEW ps, NEW p \in ps, NEW load, Limits(load)
  PROVE  Listing!InLimits(Listing!Buckets(t, ps, Listing!Window(t, ps, load))[p], t, p, load)
<1> DEFINE S == Listing!ChildrenOf(t, p)
           ahead(c) == Cardinality({d \in S : Listing!Before(d, c)})
           within(c) == ahead(c) >= load.offset /\ ahead(c) < load.offset + load.limit
           all == {c \in DOMAIN t.child : t.child[c].of \in ps}
           W == {c \in Listing!Window(t, ps, load) : t.child[c].of = p}
           s == Listing!Sorted(W)
<1>1. S \subseteq ChildIds /\ IsFiniteSet(S)
  BY Rowwise
<1>2. \A c : ahead(c) \in Nat
  <2>1. \A c : {d \in S : Listing!Before(d, c)} \subseteq S
    OBVIOUS
  <2> HIDE DEF S
  <2> QED
    BY <1>1, <2>1, FS_Subset, FS_CardinalityType
<1>3. load.offset \in Nat /\ load.limit \in Nat
  BY DEF Limits
<1>4. ASSUME NEW c \in S
      PROVE  /\ c \in all /\ t.child[c].of = p
             /\ {d \in all : t.child[d].of = t.child[c].of /\ Listing!Before(d, c)}
                  = {d \in S : Listing!Before(d, c)}
  BY DEF Listing!ChildrenOf
<1>5. W = {c \in S : within(c)}
  <2>1. \A c : c \in W => c \in S
    BY DEF Listing!Window, Listing!ChildrenOf
  <2>2. ASSUME NEW c \in S
        PROVE  c \in W <=> within(c)
    <3> DEFINE rank == 1 + Listing!Cardinality({d \in all : t.child[d].of = t.child[c].of /\ Listing!Before(d, c)})
    <3>1. rank = 1 + ahead(c)
      BY <1>4, Same
    <3>2. c \in W <=> rank > load.offset /\ rank <= load.offset + load.limit
      BY <1>4 DEF Listing!Window
    <3> HIDE DEF rank, ahead, W
    <3> QED
      BY <1>2, <1>3, <3>1, <3>2
  <2> HIDE DEF W, S, within
  <2> QED
    BY <2>1, <2>2
<1>6. Listing!Buckets(t, ps, Listing!Window(t, ps, load))[p] = s
  BY DEF Listing!Buckets
<1>7. W \subseteq ChildIds
  BY <1>1, <1>5
<1> HIDE DEF W, within
<1>8. /\ s \in Seq(W)
      /\ \A i, j \in 1 .. Len(s) : i < j => Listing!Before(s[i], s[j])
      /\ \A x \in W : \E i \in 1 .. Len(s) : s[i] = x
  BY <1>7, ChildrenInOrder
<1> HIDE DEF s
<1>9. DOMAIN s = 1 .. Len(s) /\ \A i \in DOMAIN s : s[i] \in W
  BY <1>8, LenProperties, ElementOfSeq
<1>10. s \in Seq(S)
  BY <1>5, <1>8, SeqMonotonic
<1>11. \A c \in S : (\E i \in DOMAIN s : s[i] = c) <=> within(c)
  BY <1>5, <1>8, <1>9
<1> QED
  BY <1>6, <1>8, <1>9, <1>10, <1>11, PlacesInLimits DEF within

\* The children handed to the rows are as many as a SELECT returned.
LEMMA WholeUpToCeiling ==
  ASSUME NEW t \in Databases, NEW ps,
         NEW S \in Listing!Capped(UNION {Listing!ChildrenOf(t, p) : p \in ps})
  PROVE  Listing!UpToCeiling(Listing!Buckets(t, ps, S), t, ps)
<1> DEFINE there == UNION {Listing!ChildrenOf(t, p) : p \in ps}
           related == Listing!Buckets(t, ps, S)
           own(p) == {c \in S : t.child[c].of = p}
<1>1. S \subseteq there /\ Cardinality(S) = Listing!Min({Cardinality(there), Ceiling})
  BY Same DEF Listing!Capped
<1>2. \A c \in there : c \in ChildIds /\ t.child[c].of \in ps /\ c \in Listing!ChildrenOf(t, t.child[c].of)
  <2>1. \A p : Listing!ChildrenOf(t, p) \subseteq ChildIds
    BY Rowwise
  <2> QED
    BY <2>1 DEF Listing!ChildrenOf
<1>3. ASSUME NEW p \in ps
      PROVE  Listing!ToSet(related[p]) = own(p) /\ own(p) \subseteq Listing!ChildrenOf(t, p)
  <2>1. own(p) \subseteq ChildIds /\ own(p) \subseteq Listing!ChildrenOf(t, p)
    BY <1>1, <1>2
  <2>2. related[p] = Listing!Sorted(own(p))
    BY DEF Listing!Buckets
  <2> DEFINE s == Listing!Sorted(own(p))
  <2> HIDE DEF own
  <2>3. s \in Seq(own(p)) /\ \A x \in own(p) : \E i \in 1 .. Len(s) : s[i] = x
    BY <2>1, ChildrenInOrder
  <2>4. DOMAIN s = 1 .. Len(s) /\ \A i \in DOMAIN s : s[i] \in own(p)
    BY <2>3, LenProperties, ElementOfSeq
  <2> HIDE DEF s
  <2>5. Listing!ToSet(s) = own(p)
    BY <2>3, <2>4 DEF Listing!ToSet
  <2> QED
    BY <2>1, <2>2, <2>5 DEF s
<1>4. UNION {Listing!ToSet(related[p]) : p \in ps} = S
  <2>1. \A c \in S : c \in own(t.child[c].of) /\ t.child[c].of \in ps
    BY <1>1, <1>2
  <2>2. \A p : own(p) \subseteq S
    OBVIOUS
  <2> HIDE DEF own, related
  <2> QED
    BY <1>3, <2>1, <2>2
<1> HIDE DEF related
<1> QED
  BY <1>1, <1>3, <1>4, Same DEF Listing!UpToCeiling, related

\* A facet that shows what was counted tells how many there were.
LEMMA FacetTells ==
  ASSUME NEW kind, IsFiniteSet(DOMAIN kind), NEW t, NEW which
  PROVE  Tells(Listing!Shown(Listing!Tally(kind), t, which), kind, t.kinds, which)
<1> DEFINE with(k) == {x \in DOMAIN kind : kind[x] = k}
           of(k) == Cardinality(with(k))
           counts == Listing!Tally(kind)
           shown == Listing!Shown(counts, t, which)
<1>1. counts = [k \in {kind[x] : x \in DOMAIN kind} |-> of(k)]
  BY Same DEF Listing!Tally
<1>2. \A k : of(k) \in Nat /\ (of(k) = 0 <=> with(k) = {})
  <2>1. \A k : IsFiniteSet(with(k))
    BY FS_Subset
  <2> QED
    BY <2>1, FS_EmptySet, FS_CardinalityType
<1>3. \A k : k \in DOMAIN counts <=> with(k) # {}
  BY <1>1
<1>4. \A k : k \in DOMAIN counts => counts[k] = of(k)
  BY <1>1
<1> HIDE DEF counts, of, with
<1>5. DOMAIN shown = IF which = "all" THEN t.kinds ELSE t.kinds \cap DOMAIN counts
  BY DEF Listing!Shown
<1>6. \A k \in DOMAIN shown : shown[k] = IF k \in DOMAIN counts THEN counts[k] ELSE 0
  BY <1>5 DEF Listing!Shown
<1> HIDE DEF shown
<1>7. \A k : k \in DOMAIN counts <=> of(k) > 0
  BY <1>2, <1>3
<1>8. DOMAIN shown = {k \in t.kinds : which = "all" \/ of(k) > 0}
  BY <1>5, <1>7
<1>9. \A k \in DOMAIN shown : shown[k] = of(k)
  BY <1>2, <1>3, <1>4, <1>6
<1> QED
  BY <1>8, <1>9 DEF Tells, of, with, shown, counts

-----------------------------------------------------------------------------
(* The SELECTs that follow a page *)

\* Values of a facet are shown right after they are counted.
Paired(x) ==
  /\ x \in Seq(Queryable)
  /\ \A i \in DOMAIN x : x[i].op = "show" => i > 1 /\ x[i - 1] = Ask("count", x[i].of)

LEMMA PairedConcat ==
  ASSUME NEW a, NEW b, Paired(a), Paired(b)
  PROVE  Paired(a \o b) /\ Members(a \o b) = Members(a) \cup Members(b)
<1> DEFINE ab == a \o b
           m == Len(a)
           n == Len(b)
<1>1. a \in Seq(Queryable) /\ b \in Seq(Queryable)
  BY DEF Paired
<1>2. m \in Nat /\ n \in Nat /\ DOMAIN a = 1 .. m /\ DOMAIN b = 1 .. n
  BY <1>1, LenProperties
<1>3. /\ ab \in Seq(Queryable) /\ Len(ab) = m + n
      /\ \A i \in 1 .. m + n : ab[i] = IF i <= m THEN a[i] ELSE b[i - m]
  BY <1>1, ConcatProperties
<1>4. DOMAIN ab = 1 .. m + n
  BY <1>3, LenProperties
<1> HIDE DEF ab, m, n
<1>5. ASSUME NEW i \in DOMAIN a
      PROVE  i \in DOMAIN ab /\ ab[i] = a[i]
  BY <1>2, <1>3, <1>4
<1>6. ASSUME NEW i \in DOMAIN b
      PROVE  m + i \in DOMAIN ab /\ ab[m + i] = b[i]
  <2>1. m + i \in 1 .. m + n /\ ~(m + i <= m) /\ (m + i) - m = i
    BY <1>2
  <2> QED
    BY <1>3, <1>4, <2>1
<1>7. ASSUME NEW i \in DOMAIN ab
      PROVE  i \in DOMAIN a \/ (i - m \in DOMAIN b /\ i = m + (i - m))
  BY <1>2, <1>4
<1>8. Members(ab) = Members(a) \cup Members(b)
  <2>1. ASSUME NEW i \in DOMAIN ab
        PROVE  ab[i] \in Members(a) \cup Members(b)
    <3>1. CASE i \in DOMAIN a
      BY <1>5, <3>1 DEF Members
    <3>2. CASE i - m \in DOMAIN b /\ i = m + (i - m)
      <4>1. ab[m + (i - m)] = b[i - m]
        BY <1>6, <3>2
      <4> QED
        BY <3>2, <4>1 DEF Members
    <3> QED
      BY <1>7, <3>1, <3>2
  <2>2. Members(a) \subseteq Members(ab)
    BY <1>5 DEF Members
  <2>3. Members(b) \subseteq Members(ab)
    BY <1>6 DEF Members
  <2>4. Members(ab) \subseteq Members(a) \cup Members(b)
    BY <2>1 DEF Members
  <2> QED
    BY <2>2, <2>3, <2>4
<1>9. ASSUME NEW i \in DOMAIN ab, ab[i].op = "show"
      PROVE  i > 1 /\ ab[i - 1] = Ask("count", ab[i].of)
  <2>1. CASE i \in DOMAIN a
    <3>1. i > 1 /\ a[i - 1] = Ask("count", a[i].of)
      BY <1>5, <1>9, <2>1 DEF Paired
    <3>2. i - 1 \in DOMAIN a
      BY <1>2, <2>1, <3>1
    <3> QED
      BY <1>5, <2>1, <3>1, <3>2
  <2>2. CASE i - m \in DOMAIN b /\ i = m + (i - m)
    <3> DEFINE j == i - m
    <3>1. j \in DOMAIN b /\ ab[i] = b[j] /\ j \in Int /\ i = m + j
      BY <1>2, <1>6, <2>2
    <3> HIDE DEF j
    <3>2. j > 1 /\ b[j - 1] = Ask("count", b[j].of)
      BY <1>9, <3>1 DEF Paired
    <3>3. j - 1 \in DOMAIN b /\ m + (j - 1) = i - 1
      BY <1>2, <3>1, <3>2
    <3>4. ab[i - 1] = b[j - 1]
      BY <1>6, <3>3
    <3> QED
      BY <1>2, <3>1, <3>2, <3>4
  <2> QED
    BY <1>7, <2>1, <2>2
<1> QED
  BY <1>3, <1>8, <1>9 DEF Paired, ab

LEMMA PairedNone == Paired(<<>>) /\ Members(<<>>) = {}
BY EmptySeq DEF Paired, Members

LEMMA PairedOne ==
  ASSUME NEW op \in Ops, NEW p \in Int, op # "show"
  PROVE  Paired(<<Ask(op, p)>>) /\ Members(<<Ask(op, p)>>) = {Ask(op, p)}
BY DEF Paired, Members, Queryable, Ask

LEMMA PairedTwo ==
  ASSUME NEW p \in Int
  PROVE  /\ Paired(<<Ask("count", p), Ask("show", p)>>)
         /\ Members(<<Ask("count", p), Ask("show", p)>>) = {Ask("count", p), Ask("show", p)}
BY DEF Paired, Members, Queryable, Ask, Ops

LEMMA RowIds ==
  ASSUME NEW x, DistinctRows(x)
  PROVE  /\ Len(x) \in Nat /\ DOMAIN x = 1 .. Len(x) /\ \A i \in DOMAIN x : x[i] \in Int
         /\ Members(x) \subseteq MemberIds /\ \A p \in Members(x) : p \in Int /\ p # 0
<1>1. x \in Seq(MemberIds)
  BY DEF DistinctRows
<1>2. Len(x) \in Nat /\ DOMAIN x = 1 .. Len(x) /\ \A i \in 1 .. Len(x) : x[i] \in MemberIds
  BY <1>1, LenProperties, ElementOfSeq
<1>3. \A m \in MemberIds : m \in Int /\ m # 0
  BY TablesAssumption DEF TablesAssumption
<1>4. \A i \in DOMAIN x : x[i] \in MemberIds
  BY <1>2
<1>5. Members(x) \subseteq MemberIds
  BY <1>4 DEF Members
<1> QED
  BY <1>2, <1>3, <1>4, <1>5

\* One probe for each row.
LEMMA PairedProbes ==
  ASSUME NEW x, DistinctRows(x)
  PROVE  LET a == [i \in DOMAIN x |-> Ask("probe", x[i])]
         IN  Paired(a) /\ Members(a) = {Ask("probe", p) : p \in Members(x)}
<1> DEFINE a == [i \in DOMAIN x |-> Ask("probe", x[i])]
<1>1. Len(x) \in Nat /\ DOMAIN x = 1 .. Len(x) /\ \A i \in DOMAIN x : x[i] \in Int
  BY RowIds
<1>2. \A i \in DOMAIN x : Ask("probe", x[i]) \in Queryable /\ Ask("probe", x[i]).op = "probe"
  BY <1>1 DEF Queryable, Ops, Ask
<1>3. a \in Seq(Queryable)
  BY <1>1, <1>2, IsASeq
<1> QED
  BY <1>2, <1>3 DEF Paired, Members

\* A facet for each row.
LEMMA PairedFacets ==
  ASSUME NEW x, DistinctRows(x)
  PROVE  LET facet(p) == <<Ask("count", p), Ask("show", p)>>
             a == [i \in 1 .. 2 * Len(x) |-> facet(x[(i + 1) \div 2])[2 - (i % 2)]]
         IN  /\ Paired(a)
             /\ Members(a) = {Ask("count", p) : p \in Members(x)} \cup {Ask("show", p) : p \in Members(x)}
<1> DEFINE facet(p) == <<Ask("count", p), Ask("show", p)>>
           a == [i \in 1 .. 2 * Len(x) |-> facet(x[(i + 1) \div 2])[2 - (i % 2)]]
           n == Len(x)
<1>1. n \in Nat /\ DOMAIN x = 1 .. n /\ \A i \in DOMAIN x : x[i] \in Int
  BY RowIds
<1>2. \A i \in 1 .. 2 * n : a[i] = facet(x[(i + 1) \div 2])[2 - (i % 2)]
  OBVIOUS
<1>3. DOMAIN a = 1 .. 2 * n /\ 2 * n \in Nat
  BY <1>1
<1>4. ASSUME NEW i \in 1 .. 2 * n
      PROVE  /\ (i + 1) \div 2 \in 1 .. n
             /\ \/ i % 2 = 0 /\ i > 1 /\ i - 1 \in 1 .. 2 * n /\ (i - 1) % 2 = 1 /\ ((i - 1) + 1) \div 2 = (i + 1) \div 2
                \/ i % 2 = 1
  <2>1. i \in Int
    BY <1>1
  <2> HIDE DEF n
  <2> QED
    BY <1>1, <2>1
<1>12. \A p : facet(p)[1] = Ask("count", p) /\ facet(p)[2] = Ask("show", p)
  OBVIOUS
<1> HIDE DEF a, n, facet
<1>5. ASSUME NEW i \in 1 .. 2 * n
      PROVE  a[i] = IF i % 2 = 1 THEN Ask("count", x[(i + 1) \div 2]) ELSE Ask("show", x[(i + 1) \div 2])
  <2>1. CASE i % 2 = 1
    <3>1. 2 - (i % 2) = 1
      BY <2>1
    <3> QED
      BY <1>2, <1>12, <2>1, <3>1
  <2>2. CASE i % 2 = 0
    <3>1. 2 - (i % 2) = 2
      BY <2>2
    <3> QED
      BY <1>2, <1>12, <2>2, <3>1
  <2> QED
    BY <1>4, <2>1, <2>2
<1>6. \A i \in 1 .. 2 * n : a[i] \in Queryable
  <2>1. \A p \in Int : Ask("count", p) \in Queryable /\ Ask("show", p) \in Queryable
    BY DEF Queryable, Ops, Ask
  <2> QED
    BY <1>1, <1>4, <1>5, <2>1
<1>7. a \in Seq(Queryable)
  <2>1. a = [i \in 1 .. 2 * n |-> a[i]]
    BY <1>3 DEF a, n, facet
  <2> QED
    BY <1>3, <1>6, <2>1, IsASeq
<1>8. ASSUME NEW i \in DOMAIN a, a[i].op = "show"
      PROVE  i > 1 /\ a[i - 1] = Ask("count", a[i].of)
  <2>1. i % 2 # 1
    BY <1>3, <1>5, <1>8 DEF Ask
  <2>2. /\ i > 1 /\ i - 1 \in 1 .. 2 * n /\ (i - 1) % 2 = 1 /\ ((i - 1) + 1) \div 2 = (i + 1) \div 2
    BY <1>3, <1>4, <2>1
  <2>3. a[i] = Ask("show", x[(i + 1) \div 2])
    BY <1>3, <1>5, <2>1
  <2>4. a[i - 1] = Ask("count", x[((i - 1) + 1) \div 2])
    BY <1>5, <2>2
  <2> QED
    BY <2>2, <2>3, <2>4 DEF Ask
<1>9. ASSUME NEW j \in 1 .. n
      PROVE  /\ 2 * j \in 1 .. 2 * n /\ a[2 * j] = Ask("show", x[j])
             /\ 2 * j - 1 \in 1 .. 2 * n /\ a[2 * j - 1] = Ask("count", x[j])
  <2>1. 2 * j \in 1 .. 2 * n /\ (2 * j) % 2 = 0 /\ (2 * j + 1) \div 2 = j
    BY <1>1
  <2>2. 2 * j - 1 \in 1 .. 2 * n /\ (2 * j - 1) % 2 = 1 /\ ((2 * j - 1) + 1) \div 2 = j
    BY <1>1
  <2> QED
    BY <1>5, <2>1, <2>2
<1>10. Members(a) \subseteq {Ask("count", p) : p \in Members(x)} \cup {Ask("show", p) : p \in Members(x)}
  BY <1>1, <1>3, <1>4, <1>5 DEF Members
<1>11. {Ask("count", p) : p \in Members(x)} \cup {Ask("show", p) : p \in Members(x)} \subseteq Members(a)
  BY <1>1, <1>3, <1>9 DEF Members
<1> QED
  BY <1>7, <1>8, <1>10, <1>11 DEF Paired, a, n, facet

LEMMA NestedAsks ==
  ASSUME NEW r, NEW x, DistinctRows(x)
  PROVE  Paired(Listing!Nested(r, x)) /\ Members(Listing!Nested(r, x)) = AskedOf(policy, r, x)
<1> DEFINE facet(p) == <<Ask("count", p), Ask("show", p)>>
           load == CHOOSE y \in r.load : TRUE
           some == x # <<>> /\ r.load # {}
           sums == IF r.sums /\ x # <<>> THEN <<Ask("sum", 0)>> ELSE <<>>
           loading == IF Probes(policy, load, Len(x)) THEN [i \in DOMAIN x |-> Ask("probe", x[i])]
                      ELSE <<Ask("load", 0)>>
           each == IF load.facet = "none" THEN <<>>
                   ELSE [i \in 1 .. 2 * Len(x) |-> facet(x[(i + 1) \div 2])[2 - (i % 2)]]
           loads == IF r.load = {} \/ x = <<>> THEN <<>> ELSE loading \o each
           whole == IF r.facet = "none" THEN <<>> ELSE facet(0)
           P == Members(x)
<1>1. Listing!Nested(r, x) = sums \o loads \o whole
  BY DEF Listing!Nested, Ask, Probes, Listing!UsesProbes
<1>2. Paired(sums) /\ Members(sums) = {q \in Queryable : q = Ask("sum", 0) /\ r.sums /\ x # <<>>}
  <2>1. Ask("sum", 0) \in Queryable
    BY DEF Queryable, Ops, Ask
  <2> QED
    BY <2>1, PairedNone, PairedOne DEF Ops
<1>3. P \subseteq Int
  BY RowIds
<1>4. \A op \in Ops : \A p \in Int : Ask(op, p) \in Queryable /\ Ask(op, p).op = op /\ Ask(op, p).of = p
  BY DEF Queryable, Ask
<1>5. \A q \in Queryable : q = Ask(q.op, q.of)
  BY DEF Queryable, Ask
<1>6. Paired(loading) /\ Members(loading) =
        {q \in Queryable :
           \/ q = Ask("load", 0) /\ ~Probes(policy, load, Len(x))
           \/ q.op = "probe" /\ q.of \in P /\ Probes(policy, load, Len(x))}
  <2>1. CASE Probes(policy, load, Len(x))
    <3>1. Paired(loading) /\ Members(loading) = {Ask("probe", p) : p \in P}
      BY <2>1, PairedProbes
    <3>2. {Ask("probe", p) : p \in P} = {q \in Queryable : q.op = "probe" /\ q.of \in P}
      <4> HIDE DEF P
      <4>1. \A p \in P : Ask("probe", p) \in Queryable /\ Ask("probe", p).op = "probe" /\ Ask("probe", p).of = p
        BY <1>3, <1>4 DEF Ops
      <4>2. \A q \in Queryable : q.op = "probe" => q = Ask("probe", q.of)
        BY <1>5
      <4> QED
        BY <4>1, <4>2
    <3> QED
      BY <2>1, <3>1, <3>2
  <2>2. CASE ~Probes(policy, load, Len(x))
    <3>1. Paired(loading) /\ Members(loading) = {Ask("load", 0)}
      BY <2>2, PairedOne DEF Ops
    <3>2. Ask("load", 0) \in Queryable
      BY <1>4 DEF Ops
    <3> QED
      BY <2>2, <3>1, <3>2
  <2> QED
    BY <2>1, <2>2
<1>7. Paired(each) /\ Members(each) =
        {q \in Queryable : q.op \in {"count", "show"} /\ q.of \in P /\ load.facet # "none"}
  <2>1. CASE load.facet = "none"
    BY <2>1, PairedNone
  <2>2. CASE load.facet # "none"
    <3>1. Paired(each) /\ Members(each) = {Ask("count", p) : p \in P} \cup {Ask("show", p) : p \in P}
      BY <2>2, PairedFacets
    <3>2. {Ask("count", p) : p \in P} \cup {Ask("show", p) : p \in P}
            = {q \in Queryable : q.op \in {"count", "show"} /\ q.of \in P}
      <4> HIDE DEF P
      <4>1. \A p \in P : /\ Ask("count", p) \in Queryable /\ Ask("count", p).op = "count" /\ Ask("count", p).of = p
                         /\ Ask("show", p) \in Queryable /\ Ask("show", p).op = "show" /\ Ask("show", p).of = p
        BY <1>3, <1>4 DEF Ops
      <4>2. \A q \in Queryable : /\ q.op = "count" => q = Ask("count", q.of)
                                 /\ q.op = "show" => q = Ask("show", q.of)
        BY <1>5
      <4> QED
        BY <4>1, <4>2
    <3> QED
      BY <2>2, <3>1, <3>2
  <2> QED
    BY <2>1, <2>2
<1>8. Paired(whole) /\ Members(whole) =
        {q \in Queryable : q.op \in {"count", "show"} /\ q.of = 0 /\ r.facet # "none"}
  <2>1. CASE r.facet = "none"
    BY <2>1, PairedNone
  <2>2. CASE r.facet # "none"
    <3>1. Paired(whole) /\ Members(whole) = {Ask("count", 0), Ask("show", 0)}
      BY <2>2, PairedTwo
    <3>2. {Ask("count", 0), Ask("show", 0)} = {q \in Queryable : q.op \in {"count", "show"} /\ q.of = 0}
      BY <1>4, <1>5 DEF Ops
    <3> QED
      BY <2>2, <3>1, <3>2
  <2> QED
    BY <2>1, <2>2
<1> HIDE DEF loading, each, whole, sums, P
<1>9. Paired(loads) /\ Members(loads) = IF some THEN Members(loading) \cup Members(each) ELSE {}
  BY <1>6, <1>7, PairedConcat, PairedNone
<1> HIDE DEF loads
<1>10. Paired(sums \o loads) /\ Members(sums \o loads) = Members(sums) \cup Members(loads)
  BY <1>2, <1>9, PairedConcat
<1>11. /\ Paired((sums \o loads) \o whole)
       /\ Members((sums \o loads) \o whole) = Members(sums) \cup Members(loads) \cup Members(whole)
  BY <1>8, <1>10, PairedConcat
<1>12. Members(sums) \cup Members(loads) \cup Members(whole) = AskedOf(policy, r, x)
  BY <1>2, <1>6, <1>7, <1>8, <1>9 DEF AskedOf, P
<1> QED
  BY <1>1, <1>11, <1>12

-----------------------------------------------------------------------------
(* The answers of the SELECTs that follow a page *)

LEMMA ToldStays ==
  ASSUME NEW s, NEW T, NEW U, T \subseteq U, NEW q, Told(s, T, q)
  PROVE  Told(s, U, q)
BY DEF Told

LEMMA ProgressStays ==
  ASSUME NEW pol, NEW s, NEW T, NEW U, T \subseteq U, Progress(pol, s, T)
  PROVE  Progress(pol, s, U)
<1>1. \A p : CountsTold(s, T, p) => CountsTold(s, U, p)
  BY DEF CountsTold
<1>2. \A q : Told(s, T, q) => Told(s, U, q)
  BY ToldStays
<1> QED
  BY <1>1, <1>2 DEF Progress

\* What a SELECT leaves as it was.
Carried(s, a) ==
  /\ IsCall(a) /\ a.pc = s.pc /\ a.request = s.request /\ a.from = s.from
  /\ a.issued = s.issued /\ a.only = s.only
  /\ a.answer.rows = s.answer.rows /\ a.answer.total = s.answer.total

Others(s, a, sums, related, facets, counts) ==
  /\ ~sums => a.answer.sums = s.answer.sums
  /\ ~related => a.answer.related = s.answer.related
  /\ ~facets => a.answer.facets = s.answer.facets
  /\ ~counts => a.counts = s.counts

\* The call a that follows s when SELECT q has read t.
Answers(s, q, t, a) ==
  /\ Carried(s, a) /\ a.todo = s.todo
  /\ Others(s, a, q.op = "sum", q.op \in {"probe", "load"}, q.op = "show", q.op \in {"count", "show"})
  /\ q.op = "sum" =>
       a.answer.sums = [p \in RowsOf(s) |-> Cardinality(Listing!ChildrenOf(t, p))]
  /\ q.op = "probe" =>
       a.answer.related = Listing!With(s.answer.related, q.of, Listing!Probe(t, q.of, LoadOf(s)))
  /\ q.op = "load" =>
       IF LoadOf(s).query
         THEN a.answer.related
                = Listing!Buckets(t, RowsOf(s), Listing!Window(t, RowsOf(s), LoadOf(s)))
         ELSE \E S \in Listing!Capped(UNION {Listing!ChildrenOf(t, p) : p \in RowsOf(s)}) :
                a.answer.related = Listing!Buckets(t, RowsOf(s), S)
  /\ q.op = "count" => a.counts = Listing!Tally(Listing!Counted(s, t, q.of))
  /\ q.op = "show" =>
       a.answer.facets = Listing!With(s.answer.facets, q.of, Listing!Shown(s.counts, t, WhichFacet(s, q.of)))

LEMMA ResultsAre ==
  ASSUME NEW s, IsCall(s), NEW q \in Queryable, NEW t, NEW a \in Listing!Results(s, q, t)
  PROVE  Answers(s, q, t, a)
<1> USE DEF Answers
<1>1. q.op \in {"sum", "probe", "load", "count", "show"}
  BY DEF Queryable, Ops
<1>2. CASE q.op = "sum"
  <2>1. a = [s EXCEPT !.answer.sums = [p \in RowsOf(s) |-> Cardinality(Listing!ChildrenOf(t, p))]]
    BY <1>2, Same DEF Listing!Results, RowsOf
  <2> QED
    BY <1>2, <2>1 DEF IsCall, Carried, Others
<1>3. CASE q.op = "probe"
  <2>1. a = [s EXCEPT !.answer.related = Listing!With(@, q.of, Listing!Probe(t, q.of, LoadOf(s)))]
    BY <1>3 DEF Listing!Results, LoadOf
  <2> QED
    BY <1>3, <2>1 DEF IsCall, Carried, Others
<1>4. CASE q.op = "load"
  <2>1. CASE LoadOf(s).query
    <3>1. a = [s EXCEPT !.answer.related = Listing!Buckets(t, RowsOf(s), Listing!Window(t, RowsOf(s), LoadOf(s)))]
      BY <1>4, <2>1 DEF Listing!Results, LoadOf, RowsOf
    <3> QED
      BY <1>4, <2>1, <3>1 DEF IsCall, Carried, Others
  <2>2. CASE ~LoadOf(s).query
    <3>1. PICK S \in Listing!Capped(UNION {Listing!ChildrenOf(t, p) : p \in RowsOf(s)}) :
            a = [s EXCEPT !.answer.related = Listing!Buckets(t, RowsOf(s), S)]
      BY <1>4, <2>2 DEF Listing!Results, LoadOf, RowsOf
    <3> QED
      BY <1>4, <2>2, <3>1 DEF IsCall, Carried, Others
  <2> QED
    BY <2>1, <2>2
<1>5. CASE q.op = "count"
  <2>1. a = [s EXCEPT !.counts = Listing!Tally(Listing!Counted(s, t, q.of))]
    BY <1>5 DEF Listing!Results
  <2> QED
    BY <1>5, <2>1 DEF IsCall, Carried, Others
<1>6. CASE q.op = "show"
  <2>1. a = [s EXCEPT !.counts = <<>>,
                      !.answer.facets = Listing!With(@, q.of, Listing!Shown(s.counts, t, WhichFacet(s, q.of)))]
    BY <1>6 DEF Listing!Results, LoadOf, WhichFacet
  <2> QED
    BY <1>6, <2>1 DEF IsCall, Carried, Others
<1> QED
  BY <1>1, <1>2, <1>3, <1>4, <1>5, <1>6

LEMMA AsksQueryable == \A pol, s : Asking(pol, s) \subseteq Queryable
BY DEF Asking, AskedOf

LEMMA AskedParts ==
  ASSUME NEW pol, NEW r, NEW x, NEW q \in AskedOf(pol, r, x)
  PROVE  LET load == CHOOSE y \in r.load : TRUE
         IN  /\ q.op \in {"probe", "load"} => r.load # {}
             /\ q.op = "load" => ~Probes(pol, load, Len(x))
             /\ q.op = "probe" => Probes(pol, load, Len(x)) /\ q.of \in Members(x)
BY DEF AskedOf, Ask

LEMMA OneLoad ==
  ASSUME NEW s, s.request \in Requests, s.request.load # {}
  PROVE  /\ LoadOf(s) \in s.request.load /\ \A x \in s.request.load : x = LoadOf(s)
         /\ Limits(LoadOf(s)) /\ LoadOf(s).facet \in Facets
<1>1. /\ \A x, y \in s.request.load : x = y
      /\ s.request.load \subseteq
           [query : BOOLEAN, offset : Nat, limit : Nat, threshold : SUBSET Int, facet : Facets]
  BY RequestsAssumption DEF RequestsAssumption
<1>2. LoadOf(s) \in s.request.load
  BY DEF LoadOf
<1> QED
  BY <1>1, <1>2 DEF Limits

LEMMA CountedKinds ==
  ASSUME NEW s, NEW t, NEW p, s.only # {} => s.request.idSet, ~PageFacet(s, p)
  PROVE  Listing!Counted(s, t, p) = KindsOf(s.request, p, t)
<1>1. CASE p # 0
  BY <1>1 DEF Listing!Counted, KindsOf
<1>2. CASE p = 0
  <2>1. s.only = {}
    BY <1>2 DEF PageFacet
  <2>2. {n \in Listing!Selected(t, s.request) : \A held \in s.only : n \in Listing!ToSet(held)}
          = Listing!Selected(t, s.request)
    BY <2>1
  <2> QED
    BY <1>2, <2>2 DEF Listing!Counted, KindsOf
<1> QED
  BY <1>1, <1>2

\* The state of a call that reads the answers to what it asked after its page.
Asker(pol, s, T) ==
  /\ IsCall(s) /\ s.request \in Requests /\ DistinctRows(s.answer.rows)
  /\ s.only # {} => s.request.idSet
  /\ T \subseteq Databases /\ Progress(pol, s, T)

\* The SELECT that was due is told of, if another was told of it still is.
LEMMA AnswerTold ==
  ASSUME NEW pol, NEW s, NEW T, Asker(pol, s, T), s.todo # <<>>, NEW q, q = s.todo[1], q \in Asking(pol, s),
         NEW t \in T, NEW a \in Listing!Results(s, q, t)
  PROVE  /\ Carried(s, a) /\ a.todo = s.todo
         /\ Told(a, T, q) /\ \A x \in Asking(pol, s) : Told(s, T, x) => Told(a, T, x)
         /\ q.op = "count" => CountsTold(a, T, q.of)
<1> DEFINE r == s.request
           load == LoadOf(s)
           ps == RowsOf(s)
<1>1. q \in Queryable /\ t \in Databases
  BY AsksQueryable DEF Asker
<1>0. Answers(s, q, t, a)
  <2>1. IsCall(s)
    BY DEF Asker
  <2> QED
    BY <1>1, <2>1, ResultsAre
<1>2. /\ Carried(s, a) /\ a.todo = s.todo
      /\ Others(s, a, q.op = "sum", q.op \in {"probe", "load"}, q.op = "show", q.op \in {"count", "show"})
  BY <1>0 DEF Answers
<1>3. /\ a.request = r /\ RowsOf(a) = ps /\ LoadOf(a) = load
      /\ \A p : WhichFacet(a, p) = WhichFacet(s, p) /\ (PageFacet(a, p) <=> PageFacet(s, p))
  BY <1>2 DEF Carried, RowsOf, LoadOf, WhichFacet, PageFacet
<1> HIDE DEF r, load, ps
<1>4. CASE q.op = "sum"
  <2>1. a.answer.sums = [p \in ps |-> Cardinality(Listing!ChildrenOf(t, p))]
    BY <1>0, <1>4 DEF Answers, ps
  <2>2. a.answer.related = s.answer.related /\ a.answer.facets = s.answer.facets /\ a.counts = s.counts
    BY <1>2, <1>4 DEF Others
  <2>3. SumsTold(a, t)
    BY <1>3, <2>1 DEF SumsTold
  <2>4. Told(a, T, q)
    BY <1>4, <2>3 DEF Told
  <2>5. \A u, p : /\ ChildrenTold(a, u, p) <=> ChildrenTold(s, u, p)
                  /\ WholeTold(a, u) <=> WholeTold(s, u)
    BY <1>3, <2>2 DEF ChildrenTold, WholeTold, load, ps
  <2>6. \A t1, t2, p : FacetTold(a, t1, t2, p) <=> FacetTold(s, t1, t2, p)
    BY <1>3, <2>2 DEF FacetTold, r
  <2>7. \A x \in Asking(pol, s) : Told(s, T, x) => Told(a, T, x)
    BY <1>3, <2>2, <2>3, <2>5, <2>6 DEF Told, load, ps
  <2> QED
    BY <1>2, <1>4, <2>4, <2>7
<1>5. CASE q.op \in {"probe", "load"}
  <2>1. a.answer.sums = s.answer.sums /\ a.answer.facets = s.answer.facets /\ a.counts = s.counts
    BY <1>2, <1>5 DEF Others
  <2>2. \A u : SumsTold(a, u) <=> SumsTold(s, u)
    BY <1>3, <2>1 DEF SumsTold, ps
  <2>3. \A t1, t2, p : FacetTold(a, t1, t2, p) <=> FacetTold(s, t1, t2, p)
    BY <1>3, <2>1 DEF FacetTold, r
  <2>4. r.load # {} /\ s.request = r
    BY <1>5, AskedParts DEF Asking, r
  <2>5. Limits(load)
    BY <2>4, OneLoad DEF Asker, load
  <2>6. CASE q.op = "probe"
    <3>1. a.answer.related = Listing!With(s.answer.related, q.of, Listing!Probe(t, q.of, load))
      BY <1>0, <2>6 DEF Answers, load
    <3>2. Listing!InLimits(Listing!Probe(t, q.of, load), t, q.of, load)
      BY <1>1, <2>5, ProbeInLimits
    <3>3. /\ DOMAIN a.answer.related = DOMAIN s.answer.related \cup {q.of}
          /\ a.answer.related[q.of] = Listing!Probe(t, q.of, load)
          /\ \A y \in DOMAIN s.answer.related : y # q.of => a.answer.related[y] = s.answer.related[y]
      BY <3>1 DEF Listing!With
    <3>4. q.of \in DOMAIN a.answer.related /\ ChildrenTold(a, t, q.of)
      BY <1>3, <3>2, <3>3 DEF ChildrenTold
    <3>5. \A u : \A y \in DOMAIN s.answer.related : y # q.of /\ ChildrenTold(s, u, y) => ChildrenTold(a, u, y)
      BY <1>3, <3>3 DEF ChildrenTold, load
    <3>6. \A x \in Asking(pol, s) : x.op # "load"
      BY <2>6, AskedParts DEF Asking
    <3>7. Told(a, T, q)
      BY <2>6, <3>4 DEF Told
    <3>8. \A x \in Asking(pol, s) : Told(s, T, x) => Told(a, T, x)
      BY <1>3, <2>1, <2>2, <2>3, <3>3, <3>4, <3>5, <3>6 DEF Told
    <3> QED
      BY <1>2, <2>6, <3>7, <3>8
  <2>7. CASE q.op = "load"
    <3>1. \A x \in Asking(pol, s) : x.op # "probe"
      BY <2>7, AskedParts DEF Asking
    <3>2. IF load.query THEN \A p \in ps : ChildrenTold(a, t, p) ELSE WholeTold(a, t)
      <4>1. CASE load.query
        <5>1. a.answer.related = Listing!Buckets(t, ps, Listing!Window(t, ps, load))
          BY <1>0, <2>7, <4>1 DEF Answers, load, ps
        <5> QED
          BY <1>1, <1>3, <2>5, <4>1, <5>1, WindowInLimits DEF ChildrenTold
      <4>2. CASE ~load.query
        <5>1. PICK S \in Listing!Capped(UNION {Listing!ChildrenOf(t, p) : p \in ps}) :
                a.answer.related = Listing!Buckets(t, ps, S)
          BY <1>0, <2>7, <4>2 DEF Answers, load, ps
        <5> QED
          BY <1>1, <1>3, <4>2, <5>1, WholeUpToCeiling DEF WholeTold
      <4> QED
        BY <4>1, <4>2
    <3>3. \A x : x.op = "load" => Told(a, T, x)
      BY <1>3, <3>2 DEF Told
    <3>4. \A x \in Asking(pol, s) : Told(s, T, x) => Told(a, T, x)
      BY <1>3, <2>1, <2>2, <2>3, <3>1, <3>3 DEF Told
    <3> QED
      BY <1>2, <2>7, <3>3, <3>4
  <2> QED
    BY <1>5, <2>6, <2>7
<1>6. CASE q.op \in {"count", "show"}
  <2>1. a.answer.sums = s.answer.sums /\ a.answer.related = s.answer.related
    BY <1>2, <1>6 DEF Others
  <2>2. \A u, p : /\ ChildrenTold(a, u, p) <=> ChildrenTold(s, u, p)
                  /\ WholeTold(a, u) <=> WholeTold(s, u)
                  /\ SumsTold(a, u) <=> SumsTold(s, u)
    BY <1>3, <2>1 DEF ChildrenTold, WholeTold, SumsTold, load, ps
  <2>3. CASE q.op = "count"
    <3>1. a.answer.facets = s.answer.facets
      BY <1>2, <2>3 DEF Others
    <3>2. \A t1, t2, p : FacetTold(a, t1, t2, p) <=> FacetTold(s, t1, t2, p)
      BY <1>3, <3>1 DEF FacetTold, r
    <3>3. a.counts = Listing!Tally(Listing!Counted(s, t, q.of))
      BY <1>0, <2>3 DEF Answers
    <3>4. CountsTold(a, T, q.of)
      BY <1>3, <3>3, CountedKinds DEF CountsTold, Asker, r
    <3>5. Told(a, T, q)
      BY <2>3 DEF Told
    <3>6. \A x \in Asking(pol, s) : Told(s, T, x) => Told(a, T, x)
      BY <1>3, <2>1, <2>2, <3>1, <3>2 DEF Told, load, ps
    <3> QED
      BY <1>2, <3>4, <3>5, <3>6
  <2>4. CASE q.op = "show"
    <3> DEFINE new == Listing!Shown(s.counts, t, WhichFacet(s, q.of))
    <3>1. a.answer.facets = Listing!With(s.answer.facets, q.of, new)
      BY <1>0, <2>4 DEF Answers
    <3>2. /\ DOMAIN a.answer.facets = DOMAIN s.answer.facets \cup {q.of}
          /\ a.answer.facets[q.of] = new
          /\ \A y \in DOMAIN s.answer.facets : y # q.of => a.answer.facets[y] = s.answer.facets[y]
      BY <3>1 DEF Listing!With
    <3>3. \A t1, t2 : \A y \in DOMAIN s.answer.facets :
            y # q.of /\ FacetTold(s, t1, t2, y) => FacetTold(a, t1, t2, y)
      BY <1>3, <3>2 DEF FacetTold, r
    <3>4. CountsTold(s, T, q.of)
      <4>1. s.todo \in Seq(Asking(pol, s))
        BY DEF Asker, Progress
      <4>2. 1 \in DOMAIN s.todo
        BY <4>1, EmptySeq, LenProperties
      <4> QED
        BY <2>4, <4>2 DEF Asker, Progress
    <3>5. ASSUME ~PageFacet(s, q.of)
          PROVE  \E t1, t2 \in T : FacetTold(a, t1, t2, q.of)
      <4>1. PICK u \in T : s.counts = Listing!Tally(KindsOf(r, q.of, u))
        BY <3>4, <3>5 DEF CountsTold, r
      <4> DEFINE kind == KindsOf(r, q.of, u)
      <4>2. IsFiniteSet(DOMAIN kind)
        <5>1. u \in Databases
          BY DEF Asker
        <5> QED
          BY <5>1, Rowwise DEF KindsOf
      <4> HIDE DEF kind
      <4>3. Tells(Listing!Shown(Listing!Tally(kind), t, WhichFacet(s, q.of)), kind, t.kinds, WhichFacet(s, q.of))
        BY <4>2, FacetTells
      <4>4. FacetTold(a, u, t, q.of)
        BY <1>3, <3>2, <4>1, <4>3 DEF FacetTold, kind
      <4> QED
        BY <4>4
    <3>6. Told(a, T, q)
      BY <1>3, <2>4, <3>2, <3>5 DEF Told
    <3>7. \A x \in Asking(pol, s) : Told(s, T, x) => Told(a, T, x)
      <4> SUFFICES ASSUME NEW x \in Asking(pol, s), Told(s, T, x)
                   PROVE  Told(a, T, x)
        OBVIOUS
      <4>1. CASE x.op = "show"
        BY <1>3, <3>2, <3>3, <3>5, <4>1 DEF Told
      <4>2. CASE x.op # "show"
        BY <1>3, <2>1, <2>2, <4>2 DEF Told, load, ps
      <4> QED
        BY <4>1, <4>2
    <3> QED
      BY <1>2, <2>4, <3>6, <3>7
  <2> QED
    BY <1>6, <2>3, <2>4
<1> QED
  BY <1>1, <1>4, <1>5, <1>6 DEF Queryable, Ops

\* Only what was asked and answered matters to Progress.
AlikeInAnswers(s, a) ==
  /\ a.request = s.request /\ a.todo = s.todo /\ a.counts = s.counts
  /\ a.answer.rows = s.answer.rows /\ a.answer.sums = s.answer.sums
  /\ a.answer.related = s.answer.related /\ a.answer.facets = s.answer.facets

LEMMA ProgressAlike ==
  ASSUME NEW pol, NEW s, NEW a, AlikeInAnswers(s, a), NEW T, Progress(pol, s, T)
  PROVE  Progress(pol, a, T)
<1>1. Asking(pol, a) = Asking(pol, s) /\ a.todo = s.todo
  BY DEF AlikeInAnswers, Asking
<1>2. /\ RowsOf(a) = RowsOf(s) /\ LoadOf(a) = LoadOf(s)
      /\ \A p : WhichFacet(a, p) = WhichFacet(s, p) /\ (PageFacet(a, p) <=> PageFacet(s, p))
  BY DEF AlikeInAnswers, RowsOf, LoadOf, WhichFacet, PageFacet
<1>3. \A p : CountsTold(s, T, p) => CountsTold(a, T, p)
  BY <1>2 DEF AlikeInAnswers, CountsTold
<1>4. \A t, u, p : /\ SumsTold(s, t) => SumsTold(a, t)
                   /\ WholeTold(s, t) => WholeTold(a, t)
                   /\ ChildrenTold(s, t, p) => ChildrenTold(a, t, p)
                   /\ FacetTold(s, t, u, p) => FacetTold(a, t, u, p)
  BY <1>2 DEF AlikeInAnswers, SumsTold, WholeTold, ChildrenTold, FacetTold
<1>5. \A q : Told(s, T, q) => Told(a, T, q)
  BY <1>2, <1>4 DEF AlikeInAnswers, Told
<1> QED
  BY <1>1, <1>3, <1>5 DEF Progress

\* Each SELECT that follows a page brings the answer further.
LEMMA AnswerProgress ==
  ASSUME NEW pol, NEW s, NEW T, Asker(pol, s, T), s.todo # <<>>, NEW t \in T,
         NEW a \in Listing!Results(s, Head(s.todo), t)
  PROVE  LET b == [a EXCEPT !.todo = Tail(@)]
         IN  Carried(s, b) /\ b.todo = Tail(s.todo) /\ Progress(pol, b, T)
<1> DEFINE q == s.todo[1]
           b == [a EXCEPT !.todo = Tail(@)]
           rest == Tail(s.todo)
           S == Asking(pol, s)
<1>1. Asking(pol, s) = S /\ S \subseteq Queryable
  BY AsksQueryable
<1>2. s.todo \in Seq(S)
  BY <1>1 DEF Asker, Progress
<1> HIDE DEF S
<1>3. /\ Head(s.todo) = q /\ q \in S /\ DOMAIN s.todo = 1 .. Len(s.todo) /\ Len(s.todo) \in Nat
      /\ rest \in Seq(S) /\ DOMAIN rest = 1 .. Len(s.todo) - 1
      /\ \A i \in DOMAIN rest : rest[i] = s.todo[i + 1] /\ i + 1 \in DOMAIN s.todo
  <2>1. Len(s.todo) \in Nat /\ DOMAIN s.todo = 1 .. Len(s.todo) /\ Len(s.todo) >= 1
    BY <1>2, LenProperties, EmptySeq
  <2>2. /\ Head(s.todo) \in S /\ rest \in Seq(S) /\ Len(rest) = Len(s.todo) - 1
        /\ \A i \in 1 .. Len(rest) : rest[i] = s.todo[i + 1]
    BY <1>2, HeadTailProperties
  <2>3. DOMAIN rest = 1 .. Len(rest)
    BY <2>2, LenProperties
  <2>4. Head(s.todo) = q
    BY <1>2, <2>1
  <2> HIDE DEF rest, q
  <2> QED
    BY <2>1, <2>2, <2>3, <2>4
<1>4. /\ Carried(s, a) /\ a.todo = s.todo
      /\ Told(a, T, q) /\ \A x \in S : Told(s, T, x) => Told(a, T, x)
      /\ q.op = "count" => CountsTold(a, T, q.of)
  <2>1. a \in Listing!Results(s, q, t)
    BY <1>3
  <2>2. q \in Asking(pol, s)
    BY <1>3 DEF S
  <2> QED
    BY <2>1, <2>2, AnswerTold DEF S
<1>5. /\ Carried(s, b) /\ b.todo = rest
      /\ b.answer = a.answer /\ b.counts = a.counts /\ b.request = s.request /\ a.request = s.request
  BY <1>4 DEF Carried, IsCall
<1> HIDE DEF b, rest, q
<1>6. /\ Asking(pol, b) = Asking(pol, s)
      /\ RowsOf(b) = RowsOf(a) /\ LoadOf(b) = LoadOf(a)
      /\ \A p : WhichFacet(b, p) = WhichFacet(a, p) /\ (PageFacet(b, p) <=> PageFacet(a, p))
  BY <1>5 DEF Carried, Asking, RowsOf, LoadOf, WhichFacet, PageFacet
<1>7. \A u, v, p : /\ SumsTold(a, u) => SumsTold(b, u)
                   /\ WholeTold(a, u) => WholeTold(b, u)
                   /\ ChildrenTold(a, u, p) => ChildrenTold(b, u, p)
                   /\ FacetTold(a, u, v, p) => FacetTold(b, u, v, p)
  BY <1>5, <1>6 DEF SumsTold, WholeTold, ChildrenTold, FacetTold
<1>8. \A x : Told(a, T, x) => Told(b, T, x)
  BY <1>5, <1>6, <1>7 DEF Told
<1>9. \A p : CountsTold(a, T, p) => CountsTold(b, T, p)
  BY <1>5, <1>6 DEF CountsTold
<1>10. ASSUME NEW x \in S
       PROVE  x \in Members(rest) \/ Told(b, T, x)
  <2>1. x \in Members(s.todo) \/ Told(s, T, x)
    BY <1>1 DEF Asker, Progress
  <2>2. CASE Told(s, T, x)
    BY <1>4, <1>8, <2>2
  <2>3. CASE x \in Members(s.todo)
    <3>1. PICK i \in DOMAIN s.todo : x = s.todo[i]
      BY <2>3 DEF Members
    <3>2. CASE i = 1
      BY <1>4, <1>8, <3>1, <3>2 DEF q
    <3>3. CASE i # 1
      <4>1. i - 1 \in DOMAIN rest /\ (i - 1) + 1 = i
        BY <1>3, <3>1, <3>3
      <4> QED
        BY <1>3, <3>1, <4>1 DEF Members
    <3> QED
      BY <3>2, <3>3
  <2> QED
    BY <2>1, <2>2, <2>3
<1>11. ASSUME NEW i \in DOMAIN rest, rest[i].op = "show"
       PROVE  IF i = 1 THEN CountsTold(b, T, rest[1].of)
              ELSE rest[i - 1] = [op |-> "count", of |-> rest[i].of]
  <2>1. i + 1 \in DOMAIN s.todo /\ rest[i] = s.todo[i + 1] /\ i + 1 # 1 /\ (i + 1) - 1 = i /\ i \in Nat
    BY <1>3, <1>11
  <2>2. s.todo[(i + 1) - 1] = [op |-> "count", of |-> s.todo[i + 1].of]
    BY <1>11, <2>1 DEF Asker, Progress
  <2>3. s.todo[i] = [op |-> "count", of |-> rest[i].of]
    BY <2>1, <2>2
  <2>4. CASE i = 1
    <3>1. q = [op |-> "count", of |-> rest[1].of]
      BY <2>3, <2>4 DEF q
    <3>2. q.op = "count" /\ q.of = rest[1].of
      BY <3>1
    <3> QED
      BY <1>4, <1>9, <2>4, <3>2
  <2>5. CASE i # 1
    <3>1. i - 1 \in DOMAIN rest /\ (i - 1) + 1 = i
      BY <1>3, <1>11, <2>5
    <3>2. rest[i - 1] = s.todo[i]
      BY <1>3, <3>1
    <3> QED
      BY <2>3, <2>5, <3>2
  <2> QED
    BY <2>4, <2>5
<1>12. Progress(pol, b, T)
  BY <1>1, <1>3, <1>5, <1>6, <1>10, <1>11 DEF Progress
<1> QED
  BY <1>5, <1>12 DEF b, rest

-----------------------------------------------------------------------------
(* Time goes on *)

LEMMA PageProgress ==
  ASSUME NEW s, DistinctRows(s.answer.rows), s.todo = Listing!Nested(s.request, s.answer.rows), NEW T
  PROVE  Progress(policy, s, T)
<1>1. Paired(s.todo) /\ Members(s.todo) = Asking(policy, s)
  BY NestedAsks DEF Asking
<1>2. s.todo \in Seq(Queryable)
  BY <1>1 DEF Paired
<1>3. s.todo \in Seq(Asking(policy, s))
  <2>1. /\ Len(s.todo) \in Nat /\ DOMAIN s.todo = 1 .. Len(s.todo)
        /\ s.todo = [i \in 1 .. Len(s.todo) |-> s.todo[i]]
    BY <1>2, LenProperties
  <2>2. \A i \in 1 .. Len(s.todo) : s.todo[i] \in Asking(policy, s)
    BY <1>1, <2>1 DEF Members
  <2> QED
    BY <2>1, <2>2, IsASeq
<1>4. ASSUME NEW i \in DOMAIN s.todo, s.todo[i].op = "show"
      PROVE  i # 1 /\ s.todo[i - 1] = [op |-> "count", of |-> s.todo[i].of]
  BY <1>1, <1>4 DEF Paired, Ask
<1> QED
  BY <1>1, <1>3, <1>4 DEF Progress

LEMMA ShotsGrow ==
  ASSUME NEW tb \in Seq(Databases), NEW t \in Databases
  PROVE  /\ Append(tb, t) \in Seq(Databases) /\ Len(Append(tb, t)) = Len(tb) + 1 /\ Len(tb) \in Nat
         /\ Members(tb) \subseteq Members(Append(tb, t)) /\ Append(tb, t) # <<>>
         /\ \A s : s.from \in 1 .. Len(tb) => Shots(s, tb) \subseteq Shots(s, Append(tb, t))
<1> DEFINE longer == Append(tb, t)
<1>1. /\ Len(tb) \in Nat /\ DOMAIN tb = 1 .. Len(tb)
  BY LenProperties
<1>2. /\ longer \in Seq(Databases) /\ Len(longer) = Len(tb) + 1
      /\ \A i \in 1 .. Len(tb) : longer[i] = tb[i]
  BY AppendProperties
<1>3. DOMAIN longer = 1 .. Len(longer)
  BY <1>2, LenProperties
<1> HIDE DEF longer
<1>4. Members(tb) \subseteq Members(longer)
  BY <1>1, <1>2, <1>3 DEF Members
<1>5. longer # <<>>
  BY <1>1, <1>2, EmptySeq
<1>6. \A s : s.from \in 1 .. Len(tb) => Shots(s, tb) \subseteq Shots(s, longer)
  BY <1>1, <1>2 DEF Shots
<1> QED
  BY <1>1, <1>2, <1>4, <1>5, <1>6 DEF longer

\* A write to the database leaves a call as good as it was.
LEMMA GoodStays ==
  ASSUME NEW pol, NEW s, NEW tb \in Seq(Databases), NEW t \in Databases, Good(pol, s, tb)
  PROVE  Good(pol, s, Append(tb, t))
<1> DEFINE longer == Append(tb, t)
<1>1. /\ Len(longer) = Len(tb) + 1 /\ Len(tb) \in Nat
      /\ s.from \in 1 .. Len(tb) => Shots(s, tb) \subseteq Shots(s, longer)
  BY ShotsGrow
<1> HIDE DEF longer
<1>2. ASSUME Called(s, tb), AtStage(pol, s, s.pc, tb)
      PROVE  Called(s, longer) /\ AtStage(pol, s, s.pc, longer)
  <2>1. s.from \in 1 .. Len(tb) /\ Shots(s, tb) \subseteq Shots(s, longer)
    BY <1>1, <1>2 DEF Called
  <2>2. Called(s, longer)
    BY <1>1, <1>2 DEF Called
  <2>3. TotalTold(s, tb) => TotalTold(s, longer)
    BY <2>1 DEF TotalTold
  <2>4. Progress(pol, s, Shots(s, tb)) => Progress(pol, s, Shots(s, longer))
    BY <2>1, ProgressStays
  <2>5. AtStage(pol, s, s.pc, longer)
    BY <1>2, <2>3, <2>4 DEF AtStage, AllAsked
  <2> QED
    BY <2>2, <2>5
<1>3. Alive(s) => s.issued \in s.from .. Len(longer)
  <2>1. Alive(s) => s.from \in 1 .. Len(tb) /\ s.issued \in s.from .. Len(tb)
    BY DEF Good, Called, Alive
  <2> QED
    BY <1>1, <2>1
<1> QED
  BY <1>2, <1>3 DEF Good, longer

LEMMA TotalsStay ==
  ASSUME NEW s, NEW tb \in Seq(Databases), NEW t \in Databases
  PROVE  /\ s.from \in 1 .. Len(tb) /\ RetainedTotal(s, tb) => RetainedTotal(s, Append(tb, t))
         /\ \A o : OwnMark(s, o, tb) => OwnMark(s, o, Append(tb, t))
<1>1. /\ Members(tb) \subseteq Members(Append(tb, t))
      /\ s.from \in 1 .. Len(tb) => Shots(s, tb) \subseteq Shots(s, Append(tb, t))
  BY ShotsGrow
<1> QED
  BY <1>1 DEF RetainedTotal, OwnMark

\* Each change of a database leaves a database.
LEMMA ChangesOK ==
  ASSUME NEW t \in Databases, NEW u \in Listing!Changes(t)
  PROVE  u \in Databases
<1>1. PICK M \in SUBSET MemberIds : t.member \in [M -> Kinds]
  BY DEF Databases
<1>2. PICK C \in SUBSET ChildIds : t.child \in [C -> [of : MemberIds, kind : Kinds]]
  BY DEF Databases
<1>3. \A N \in SUBSET MemberIds : \A f \in [N -> Kinds] : [t EXCEPT !.member = f] \in Databases
  BY <1>2 DEF Databases
<1>4. \A N \in SUBSET ChildIds : \A f \in [N -> [of : MemberIds, kind : Kinds]] : [t EXCEPT !.child = f] \in Databases
  BY <1>1 DEF Databases
<1>5. \A K \in SUBSET Kinds : [t EXCEPT !.kinds = K] \in Databases
  BY DEF Databases
<1>6. ASSUME NEW m \in MemberIds, NEW k \in Kinds
      PROVE  [t EXCEPT !.member = Listing!With(@, m, k)] \in Databases
  <2>1. Listing!With(t.member, m, k) \in [M \cup {m} -> Kinds]
    BY <1>1 DEF Listing!With
  <2>2. M \cup {m} \in SUBSET MemberIds
    OBVIOUS
  <2> QED
    BY <1>3, <2>1, <2>2
<1>7. ASSUME NEW c \in ChildIds, NEW x \in [of : MemberIds, kind : Kinds]
      PROVE  [t EXCEPT !.child = Listing!With(@, c, x)] \in Databases
  <2>1. Listing!With(t.child, c, x) \in [C \cup {c} -> [of : MemberIds, kind : Kinds]]
    BY <1>2 DEF Listing!With
  <2>2. C \cup {c} \in SUBSET ChildIds
    OBVIOUS
  <2> QED
    BY <1>4, <2>1, <2>2
<1>8. ASSUME NEW c \in ChildIds
      PROVE  [t EXCEPT !.child = Listing!Without(@, c)] \in Databases
  <2>1. Listing!Without(t.child, c) \in [C \ {c} -> [of : MemberIds, kind : Kinds]]
    BY <1>2 DEF Listing!Without
  <2>2. C \ {c} \in SUBSET ChildIds
    OBVIOUS
  <2> QED
    BY <1>4, <2>1, <2>2
<1>9. ASSUME NEW m \in MemberIds
       PROVE  [t EXCEPT !.member = Listing!Without(@, m)] \in Databases
  <2>1. Listing!Without(t.member, m) \in [M \ {m} -> Kinds]
    BY <1>1 DEF Listing!Without
  <2>2. M \ {m} \in SUBSET MemberIds
    OBVIOUS
  <2> QED
    BY <1>3, <2>1, <2>2
<1> QED
  <2>1. \A m \in MemberIds, k \in Kinds : [of |-> m, kind |-> k] \in [of : MemberIds, kind : Kinds]
    OBVIOUS
  <2> DEFINE gone == {[t EXCEPT !.member = Listing!Without(@, m)] : m \in MemberIds}
             put == {[t EXCEPT !.member = Listing!With(@, m, k)] : m \in MemberIds, k \in Kinds}
             orphaned == {[t EXCEPT !.child = Listing!Without(@, c)] : c \in ChildIds}
             bear(c, m, k) == [t EXCEPT !.child = Listing!With(@, c, [of |-> m, kind |-> k])]
             born == {bear(c, m, k) : c \in ChildIds, m \in MemberIds, k \in Kinds}
             named == {[t EXCEPT !.kinds = K] : K \in SUBSET Kinds}
  <2>2. gone \subseteq Databases
    BY <1>9
  <2>3. put \subseteq Databases
    BY <1>6
  <2>4. orphaned \subseteq Databases
    BY <1>8
  <2>5. born \subseteq Databases
    <3>1. \A c \in ChildIds : \A m \in MemberIds : \A k \in Kinds : bear(c, m, k) \in Databases
      BY <1>7, <2>1
    <3> HIDE DEF bear
    <3> QED
      BY <3>1
  <2>6. named \subseteq Databases
    BY <1>5
  <2>7. Listing!Changes(t) = gone \cup put \cup orphaned \cup born \cup named
    BY DEF Listing!Changes
  <2> HIDE DEF gone, put, orphaned, born, named
  <2> QED
    BY <2>2, <2>3, <2>4, <2>5, <2>6, <2>7

-----------------------------------------------------------------------------
(* A step of one call *)

\* Call l becomes s, with request r, and marks no other context.
Becomes(l, r, s) ==
  /\ list' = [list EXCEPT ![l] = s]
  /\ s.pc \in Stages \cup {"done"} => s.request = r
  /\ Good(policy, s, tables)
  /\ l \notin overlapped => RetainedTotal(s, tables)
  /\ observed' = observed \/ \E o : observed' = [observed EXCEPT ![r.context] = o]
  /\ Alive(s) /\ l \notin overlapped => OwnMark(s, observed'[r.context], tables)

\* Calls that meet it are known to overlap.
Spread(l, r) ==
  /\ overlapped \subseteq overlapped'
  /\ \A k \in Lists : k # l /\ Alive(list[k]) /\ list[k].request.context = r.context =>
       k \in overlapped' /\ l \in overlapped'

LEMMA BecomesKeeps ==
  ASSUME ListsInv, NEW l \in Lists, NEW r, NEW s, Becomes(l, r, s), Spread(l, r), SetsOK',
         policy' = policy, tables' = tables
  PROVE  ListsInv'
<1>1. /\ list' = [list EXCEPT ![l] = s] /\ DOMAIN list = Lists
      /\ Alive(s) => s.request = r
  BY DEF Becomes, ListsInv, Alive
<1>2. DOMAIN list' = Lists /\ list'[l] = s /\ \A k \in Lists : k # l => list'[k] = list[k]
  BY <1>1
<1>3. overlapped \subseteq overlapped'
  BY DEF Spread
<1>4. ASSUME NEW k \in Lists
      PROVE  Good(policy', list'[k], tables') /\ (k \notin overlapped' => RetainedTotal(list'[k], tables'))
  <2>1. CASE k = l
    BY <1>2, <1>3, <2>1 DEF Becomes
  <2>2. CASE k # l
    BY <1>2, <1>3, <2>2 DEF ListsInv
  <2> QED
    BY <2>1, <2>2
<1>5. ASSUME NEW k \in Lists, Alive(list'[k]), k \notin overlapped'
      PROVE  OwnMark(list'[k], observed'[list'[k].request.context], tables')
  <2>1. CASE k = l
    BY <1>1, <1>2, <1>3, <1>5, <2>1 DEF Becomes
  <2>2. CASE k # l
    <3>1. list'[k] = list[k] /\ k \notin overlapped /\ Alive(list[k])
      BY <1>2, <1>3, <1>5, <2>2
    <3>2. OwnMark(list[k], observed[list[k].request.context], tables)
      BY <3>1 DEF ListsInv, MarksOK
    <3>3. list[k].request.context # r.context
      BY <1>5, <2>2, <3>1 DEF Spread
    <3>4. list[k].request.context \in Contexts /\ DOMAIN observed = Contexts
      <4>1. list[k].request \in Requests
        BY <3>1 DEF ListsInv, Good, Called, Alive
      <4> QED
        BY <4>1, RequestsAssumption DEF RequestsAssumption, ListsInv, MarksOK
    <3>5. observed'[list[k].request.context] = observed[list[k].request.context]
      BY <3>3, <3>4 DEF Becomes
    <3> QED
      BY <3>1, <3>2, <3>5
  <2> QED
    BY <2>1, <2>2
<1>6. DOMAIN observed' = Contexts
  BY DEF Becomes, ListsInv, MarksOK
<1>7. ASSUME NEW j \in Lists, NEW k \in Lists, j # k, Alive(list'[j]), Alive(list'[k]),
             list'[j].request.context = list'[k].request.context
      PROVE  k \in overlapped'
  <2>1. CASE j = l
    <3>1. list'[j].request = r /\ list'[k] = list[k] /\ k # l
      BY <1>1, <1>2, <1>7, <2>1
    <3> QED
      BY <1>7, <3>1 DEF Spread
  <2>2. CASE k = l
    <3>1. list'[k].request = r /\ list'[j] = list[j] /\ j # l
      BY <1>1, <1>2, <1>7, <2>2
    <3> QED
      BY <1>7, <2>2, <3>1 DEF Spread
  <2>3. CASE j # l /\ k # l
    <3>1. list'[j] = list[j] /\ list'[k] = list[k]
      BY <1>2, <2>3
    <3> QED
      BY <1>3, <1>7, <3>1 DEF ListsInv, Apart
  <2> QED
    BY <2>1, <2>2, <2>3
<1>8. MarksOK'
  BY <1>5, <1>6 DEF MarksOK
<1>9. Apart'
  BY <1>7 DEF Apart
<1>10. TablesOK'
  BY DEF ListsInv, TablesOK
<1> QED
  BY <1>2, <1>4, <1>8, <1>9, <1>10 DEF ListsInv

LEMMA SpreadAlready ==
  ASSUME ListsInv, NEW l \in Lists, Alive(list[l]), overlapped' = overlapped
  PROVE  Spread(l, list[l].request)
BY DEF Spread, ListsInv, Apart

\* Calls that differ in their stage, and in their total.
Like(s, c) ==
  AlikeInAnswers(s, c) /\ c.from = s.from /\ c.only = s.only /\ IsCall(c)

LEMMA CalledLike ==
  ASSUME NEW s, NEW c, Like(s, c), NEW tb, Called(s, tb)
  PROVE  Called(c, tb) /\ Shots(c, tb) = Shots(s, tb)
BY DEF Called, Like, AlikeInAnswers, Shots

LEMMA StageLike ==
  ASSUME NEW pol, NEW s, NEW c, Like(s, c), NEW stage, NEW tb, AtStage(pol, s, stage, tb),
         stage \in {"page", "nested", "done"} => TotalTold(c, tb)
  PROVE  AtStage(pol, c, stage, tb)
<1>1. Shots(c, tb) = Shots(s, tb)
  BY DEF Like, Shots
<1>2. Progress(pol, s, Shots(s, tb)) => Progress(pol, c, Shots(c, tb))
  BY <1>1, ProgressAlike DEF Like
<1> QED
  BY <1>2 DEF AtStage, AllAsked, Like, AlikeInAnswers

LEMMA TotalLike ==
  ASSUME NEW s, NEW c, Like(s, c), c.answer.total = s.answer.total, NEW tb, TotalTold(s, tb)
  PROVE  TotalTold(c, tb)
BY DEF Like, AlikeInAnswers, TotalTold, Shots

\* c is s at another stage.
Restaged(s, c, stage, n) ==
  /\ Like(s, c) /\ c.answer = s.answer /\ c.request = s.request
  /\ c.pc = stage /\ c.issued = n /\ c.from = s.from

LEMMA Staged ==
  ASSUME NEW s, IsCall(s), NEW stage, NEW n
  PROVE  Restaged(s, [s EXCEPT !.pc = stage, !.issued = n], stage, n)
<1> DEFINE c == [s EXCEPT !.pc = stage, !.issued = n]
<1>1. /\ c.pc = stage /\ c.issued = n
      /\ c.request = s.request /\ c.from = s.from /\ c.only = s.only
  BY DEF IsCall
<1>2. c.todo = s.todo /\ c.counts = s.counts /\ c.answer = s.answer
  BY DEF IsCall
<1>3. DOMAIN s = {"pc", "request", "from", "issued", "only", "todo", "counts", "answer"}
  BY DEF IsCall
<1>4. c = [k \in DOMAIN s |-> c[k]]
  OBVIOUS
<1> HIDE DEF c
<1>5. c = [pc |-> c.pc, request |-> c.request, from |-> c.from, issued |-> c.issued, only |-> c.only,
           todo |-> c.todo, counts |-> c.counts, answer |-> c.answer]
  BY <1>3, <1>4
<1>6. IsCall(c)
  BY <1>2, <1>5 DEF IsCall
<1>7. Like(s, c)
  BY <1>1, <1>2, <1>6 DEF Like, AlikeInAnswers
<1> QED
  BY <1>1, <1>2, <1>7 DEF c, Restaged

LEMMA IssueBecomes ==
  ASSUME ListsInv, NEW l \in Lists, NEW s, NEW stage \in Stages, Called(s, tables),
         AtStage(policy, s, stage, tables), Listing!Issue(l, s, stage)
  PROVE  \E c : Becomes(l, s.request, c)
<1> DEFINE c == [s EXCEPT !.pc = stage, !.issued = Len(tables)]
           r == s.request
<1>1. list' = [list EXCEPT ![l] = c] /\ observed' = [observed EXCEPT ![r.context] = Listing!Inexact]
  BY DEF Listing!Issue, Listing!Go, Listing!Observe
<1>2. /\ Like(s, c) /\ c.answer.total = s.answer.total /\ c.request = r
      /\ c.pc = stage /\ c.issued = Len(tables) /\ c.from = s.from
  <2>1. IsCall(s)
    BY DEF Called
  <2>2. Restaged(s, c, stage, Len(tables))
    BY <2>1, Staged
  <2> QED
    BY <2>2 DEF Restaged
<1> HIDE DEF c
<1>3. Called(c, tables)
  BY <1>2, CalledLike
<1>4. AtStage(policy, c, stage, tables)
  <2>1. stage \in {"page", "nested", "done"} => TotalTold(s, tables)
    BY DEF AtStage
  <2> QED
    BY <1>2, <2>1, StageLike, TotalLike
<1>5. c.issued \in c.from .. Len(tables)
  BY <1>2, <1>3, LenProperties DEF Called, ListsInv, TablesOK
<1>6. Good(policy, c, tables)
  BY <1>2, <1>3, <1>4, <1>5 DEF Good, Called
<1>7. RetainedTotal(c, tables)
  BY <1>2 DEF RetainedTotal, Stages
<1>8. OwnMark(c, observed'[r.context], tables)
  <2>1. r.context \in Contexts /\ DOMAIN observed = Contexts
    BY RequestsAssumption DEF RequestsAssumption, Called, ListsInv, MarksOK
  <2>2. observed'[r.context] = Listing!Inexact
    BY <1>1, <2>1
  <2> QED
    BY <2>2 DEF OwnMark, Listing!Inexact
<1> QED
  BY <1>1, <1>2, <1>6, <1>7, <1>8 DEF Becomes

LEMMA DoneBecomes ==
  ASSUME ListsInv, NEW l \in Lists, NEW s, Called(s, tables),
         AtStage(policy, s, "done", tables), Listing!Done(l, s),
         l \notin overlapped => RetainedTotal([s EXCEPT !.pc = "done"], tables),
         observed' = observed \/ \E o : observed' = [observed EXCEPT ![s.request.context] = o]
  PROVE  \E c : Becomes(l, s.request, c)
<1> DEFINE c == [s EXCEPT !.pc = "done"]
           r == s.request
<1>1. list' = [list EXCEPT ![l] = c] /\ (l \notin overlapped => RetainedTotal(c, tables))
  BY DEF Listing!Done, Listing!Go
<1>2. /\ Like(s, c) /\ c.answer.total = s.answer.total /\ c.request = r
      /\ c.pc = "done" /\ c.from = s.from
  BY DEF Called, IsCall, Like, AlikeInAnswers
<1> HIDE DEF c
<1>3. Called(c, tables)
  BY <1>2, CalledLike
<1>4. AtStage(policy, c, "done", tables)
  <2>1. TotalTold(s, tables)
    BY DEF AtStage
  <2>2. TotalTold(c, tables)
    BY <1>2, <2>1, TotalLike
  <2> QED
    BY <1>2, <2>2, StageLike
<1>5. ~Alive(c)
  BY <1>2 DEF Alive, Stages
<1>6. Good(policy, c, tables)
  BY <1>2, <1>3, <1>4, <1>5 DEF Good, Called
<1> QED
  BY <1>1, <1>2, <1>5, <1>6 DEF Becomes

\* c is s with another total.
Totalled(s, c, total) ==
  /\ Like(s, c) /\ c.answer.total = total /\ c.request = s.request /\ c.from = s.from
  /\ c.only = s.only /\ c.answer.rows = s.answer.rows

LEMMA WithTotal ==
  ASSUME NEW s, IsCall(s), NEW total
  PROVE  Totalled(s, [s EXCEPT !.answer.total = total], total)
<1> DEFINE c == [s EXCEPT !.answer.total = total]
           d == c.answer
<1>1. /\ c.pc = s.pc /\ c.issued = s.issued
      /\ c.request = s.request /\ c.from = s.from /\ c.only = s.only
  BY DEF IsCall
<1>2. c.todo = s.todo /\ c.counts = s.counts /\ c.answer = [s.answer EXCEPT !.total = total]
  BY DEF IsCall
<1>3. DOMAIN s = {"pc", "request", "from", "issued", "only", "todo", "counts", "answer"}
  BY DEF IsCall
<1>4. c = [k \in DOMAIN s |-> c[k]]
  OBVIOUS
<1> HIDE DEF c
<1>5. c = [pc |-> c.pc, request |-> c.request, from |-> c.from, issued |-> c.issued, only |-> c.only,
           todo |-> c.todo, counts |-> c.counts, answer |-> c.answer]
  BY <1>3, <1>4
<1>6. /\ d.total = total /\ d.rows = s.answer.rows /\ d.sums = s.answer.sums
      /\ d.related = s.answer.related /\ d.facets = s.answer.facets
      /\ DOMAIN d = {"rows", "total", "sums", "related", "facets"}
      /\ d = [k \in DOMAIN d |-> d[k]]
  BY <1>2 DEF IsCall
<1> HIDE DEF d
<1>7. d = [rows |-> d.rows, total |-> d.total, sums |-> d.sums, related |-> d.related, facets |-> d.facets]
  BY <1>6
<1>8. IsCall(c)
  BY <1>5, <1>7 DEF IsCall, d
<1> QED
  BY <1>1, <1>2, <1>6, <1>8 DEF c, d, Totalled, Like, AlikeInAnswers

\* c is s at its end.
Over(s, c) ==
  /\ c.pc = "done" /\ c.request = s.request /\ c.from = s.from /\ c.only = s.only
  /\ c.answer = s.answer

LEMMA AtEnd ==
  ASSUME NEW s, IsCall(s)
  PROVE  Over(s, [s EXCEPT !.pc = "done"])
BY DEF IsCall, Over

LEMMA FinishBecomes ==
  ASSUME ListsInv, NEW l \in Lists, NEW s, Called(s, tables), AllAsked(policy, s, tables),
         TotalTold(s, tables), l \notin overlapped => OwnMark(s, observed[s.request.context], tables),
         Listing!Finish(l, s)
  PROVE  \E c : Becomes(l, s.request, c)
<1> DEFINE r == s.request
           seen == observed[r.context]
           total == IF r.counted /\ r.idSet THEN {seen.count} ELSE s.answer.total
           d == [s EXCEPT !.answer.total = total]
<1>1. CASE r.counted /\ r.idSet /\ ~seen.exact
  <2>1. Listing!Issue(l, s, "total")
    BY <1>1 DEF Listing!Finish
  <2>2. AtStage(policy, s, "total", tables) /\ "total" \in Stages
    BY DEF AtStage, Stages
  <2> QED
    BY <2>1, <2>2, IssueBecomes
<1>2. CASE ~(r.counted /\ r.idSet /\ ~seen.exact)
  <2>1. Listing!Done(l, d) /\ UNCHANGED observed
    BY <1>2 DEF Listing!Finish
  <2>2. Totalled(s, d, total)
    BY WithTotal DEF Called
  <2> HIDE DEF d
  <2>3. Called(d, tables) /\ Shots(d, tables) = Shots(s, tables) /\ d.request = r
    BY <2>2, CalledLike DEF Totalled
  <2>4. TotalTold(d, tables)
    BY <2>2, <2>3 DEF TotalTold, Totalled
  <2>5. AtStage(policy, d, "done", tables)
    <3>1. AtStage(policy, s, "done", tables)
      BY DEF AtStage
    <3> QED
      BY <2>2, <2>4, <3>1, StageLike DEF Totalled
  <2>6. l \notin overlapped => RetainedTotal([d EXCEPT !.pc = "done"], tables)
    <3> SUFFICES ASSUME l \notin overlapped
                 PROVE  RetainedTotal([d EXCEPT !.pc = "done"], tables)
      OBVIOUS
    <3> DEFINE c == [d EXCEPT !.pc = "done"]
    <3>1. Over(d, c)
      BY <2>3, AtEnd DEF Called
    <3> HIDE DEF c
    <3>2. c.request = r /\ c.answer.total = total /\ c.only = s.only
      BY <2>2, <3>1 DEF Over, Totalled
    <3>3. r.counted /\ r.idSet => s.only # {} /\ \E t \in Members(tables) : total = {CountOf(t, r)}
      BY <1>2 DEF OwnMark
    <3> HIDE DEF total
    <3> QED
      BY <3>2, <3>3 DEF RetainedTotal, c
  <2> QED
    BY <2>1, <2>3, <2>5, <2>6, DoneBecomes
<1> QED
  BY <1>1, <1>2

LEMMA ContinueBecomes ==
  ASSUME ListsInv, NEW l \in Lists, NEW s, Called(s, tables), Progress(policy, s, Shots(s, tables)),
         TotalTold(s, tables), l \notin overlapped => OwnMark(s, observed[s.request.context], tables),
         Listing!Continue(l, s)
  PROVE  \E c : Becomes(l, s.request, c)
<1>1. CASE s.todo = <<>>
  <2>1. Listing!Finish(l, s) /\ AllAsked(policy, s, tables)
    BY <1>1 DEF Listing!Continue, AllAsked
  <2> QED
    BY <2>1, FinishBecomes
<1>2. CASE s.todo # <<>>
  <2>1. Listing!Issue(l, s, "nested")
    BY <1>2 DEF Listing!Continue
  <2>2. AtStage(policy, s, "nested", tables) /\ "nested" \in Stages
    BY <1>2 DEF AtStage, Stages
  <2> QED
    BY <2>1, <2>2, IssueBecomes
<1> QED
  BY <1>1, <1>2

\* c is s about to read the page of a retained set.
Limited(s, c, n, only) ==
  /\ AlikeInAnswers(s, c) /\ c.answer = s.answer /\ IsCall(c)
  /\ c.pc = "page" /\ c.issued = n /\ c.only = only /\ c.from = s.from /\ c.request = s.request

LEMMA WithPage ==
  ASSUME NEW s, IsCall(s), NEW n, NEW only
  PROVE  Limited(s, [s EXCEPT !.pc = "page", !.issued = n, !.only = only], n, only)
<1> DEFINE c == [s EXCEPT !.pc = "page", !.issued = n, !.only = only]
<1>1. /\ c.pc = "page" /\ c.issued = n /\ c.only = only
      /\ c.request = s.request /\ c.from = s.from
  BY DEF IsCall
<1>2. c.todo = s.todo /\ c.counts = s.counts /\ c.answer = s.answer
  BY DEF IsCall
<1>3. DOMAIN s = {"pc", "request", "from", "issued", "only", "todo", "counts", "answer"}
  BY DEF IsCall
<1>4. c = [k \in DOMAIN s |-> c[k]]
  OBVIOUS
<1> HIDE DEF c
<1>5. c = [pc |-> c.pc, request |-> c.request, from |-> c.from, issued |-> c.issued, only |-> c.only,
           todo |-> c.todo, counts |-> c.counts, answer |-> c.answer]
  BY <1>3, <1>4
<1>6. IsCall(c)
  BY <1>2, <1>5 DEF IsCall
<1> QED
  BY <1>1, <1>2, <1>6 DEF Limited, AlikeInAnswers, c

\* What a set retained for the filter of r shows.
Retained(held, r) == DistinctRows(held) /\ \E t \in Members(tables) : Len(held) = CountOf(t, r)

\* A page of different rows shows different rows.
LEMMA DistinctSlice ==
  ASSUME NEW x, DistinctRows(x), NEW o \in Nat, NEW k \in Nat
  PROVE  DistinctRows(Listing!Slice(x, o, k))
<1> DEFINE w == Listing!Slice(x, o, k)
<1>1. /\ w \in Seq(MemberIds)
      /\ \A i \in DOMAIN w : i \in Nat /\ o + i \in 1 .. Len(x) /\ w[i] = x[o + i]
  <2>1. x \in Seq(MemberIds)
    BY DEF DistinctRows
  <2>2. /\ w \in Seq(MemberIds)
        /\ \A i \in DOMAIN w : i \in Nat /\ o + i \in 1 .. Len(x) /\ i <= k /\ w[i] = x[o + i]
        /\ \A j \in 1 .. Len(x) : o < j /\ j <= o + k => j - o \in DOMAIN w
    <3> HIDE DEF w
    <3> QED
      BY <2>1, SliceShows DEF w
  <2> QED
    BY <2>2
<1> HIDE DEF w
<1>2. DOMAIN x = 1 .. Len(x)
  BY LenProperties DEF DistinctRows
<1>3. ASSUME NEW i \in DOMAIN w, NEW j \in DOMAIN w, w[i] = w[j]
      PROVE  i = j
  <2>1. o + i \in DOMAIN x /\ o + j \in DOMAIN x /\ x[o + i] = x[o + j] /\ i \in Nat /\ j \in Nat
    BY <1>1, <1>2, <1>3
  <2>2. o + i = o + j
    BY <2>1 DEF DistinctRows
  <2> QED
    BY <2>1, <2>2
<1> QED
  BY <1>1, <1>3 DEF DistinctRows, w

LEMMA UseSetBecomes ==
  ASSUME ListsInv, NEW l \in Lists, NEW s, Called(s, tables), s.request.idSet,
         s.only = {}, s.answer.rows = <<>>, NEW held, Retained(held, s.request),
         Listing!UseSet(l, s, held)
  PROVE  \E c : Becomes(l, s.request, c)
<1> DEFINE r == s.request
           page == Listing!Slice(held, r.offset, r.limit)
           o == [exact |-> TRUE, count |-> Len(held)]
<1>1. observed' = [observed EXCEPT ![r.context] = o]
  BY DEF Listing!UseSet, Listing!Observe
<1>2. IsCall(s) /\ r \in Requests /\ r.offset \in Nat /\ r.limit \in Nat /\ r.context \in Contexts
  BY RequestsAssumption DEF Called, RequestsAssumption
<1>3. CASE r.offset >= Len(held)
  <2> DEFINE total == IF r.counted THEN {Len(held)} ELSE {}
             d == [s EXCEPT !.answer.total = total]
             c == [d EXCEPT !.pc = "done"]
  <2>1. Listing!Done(l, d)
    BY <1>3 DEF Listing!UseSet
  <2>2. Totalled(s, d, total)
    BY <1>2, WithTotal
  <2> HIDE DEF d
  <2>3. Called(d, tables) /\ d.request = r
    BY <2>2, CalledLike DEF Totalled
  <2>4. AtStage(policy, d, "done", tables)
    BY <2>2, <2>3 DEF AtStage, TotalTold, AllAsked, Totalled
  <2>5. RetainedTotal(c, tables)
    <3>1. Over(d, c)
      BY <2>3, AtEnd DEF Called
    <3> HIDE DEF c
    <3>2. c.request = r /\ c.answer.total = total /\ c.answer.rows = <<>>
      BY <2>2, <3>1 DEF Over, Totalled
    <3>3. r.counted => \E t \in Members(tables) : total = {CountOf(t, r)}
      BY DEF Retained
    <3> HIDE DEF total
    <3> QED
      BY <3>2, <3>3 DEF RetainedTotal
  <2> QED
    BY <1>1, <2>1, <2>3, <2>4, <2>5, DoneBecomes
<1>4. CASE ~(r.offset >= Len(held))
  <2> DEFINE c == [s EXCEPT !.pc = "page", !.issued = Len(tables), !.only = {page}]
  <2>1. list' = [list EXCEPT ![l] = c]
    BY <1>4 DEF Listing!UseSet, Listing!Go
  <2>2. DistinctRows(page)
    BY <1>2, DistinctSlice DEF Retained
  <2> HIDE DEF page
  <2>3. Limited(s, c, Len(tables), {page})
    BY <1>2, WithPage
  <2> HIDE DEF c
  <2>4. Called(c, tables)
    BY <2>2, <2>3 DEF Called, Limited
  <2>5. AtStage(policy, c, "page", tables)
    BY <2>3 DEF AtStage, TotalTold, Limited
  <2>6. c.issued \in c.from .. Len(tables)
    BY <2>3, <2>4, LenProperties DEF Called, ListsInv, TablesOK, Limited
  <2>7. Good(policy, c, tables)
    BY <2>3, <2>4, <2>5, <2>6 DEF Good, Called, Limited, Stages
  <2>8. RetainedTotal(c, tables)
    BY <2>3 DEF RetainedTotal, Limited
  <2>9. OwnMark(c, observed'[r.context], tables)
    <3>1. observed'[r.context] = o
      BY <1>1, <1>2 DEF ListsInv, MarksOK
    <3>2. c.only # {} /\ c.request = r
      BY <2>3 DEF Limited
    <3> QED
      BY <3>1, <3>2 DEF OwnMark, Retained
  <2>10. c.request = r
    BY <2>3 DEF Limited
  <2> QED
    BY <1>1, <2>1, <2>7, <2>8, <2>9, <2>10 DEF Becomes
<1> QED
  BY <1>3, <1>4

LEMMA PrepareBecomes ==
  ASSUME ListsInv, NEW l \in Lists, NEW s, Called(s, tables), TotalTold(s, tables),
         s.request.idSet => s.only = {} /\ s.answer.rows = <<>>, Listing!Prepare(l, s)
  PROVE  \E c : Becomes(l, s.request, c)
<1> DEFINE r == s.request
<1>1. CASE Listing!Issue(l, s, "page")
  <2>1. AtStage(policy, s, "page", tables) /\ "page" \in Stages
    BY DEF AtStage, Stages
  <2> QED
    BY <1>1, <2>1, IssueBecomes
<1>2. CASE r.idSet /\ Listing!Issue(l, s, "collect")
  <2>1. AtStage(policy, s, "collect", tables) /\ "collect" \in Stages
    BY <1>2 DEF AtStage, Stages
  <2> QED
    BY <1>2, <2>1, IssueBecomes
<1>3. CASE r.idSet /\ \E held \in sets[r.filter] : Listing!UseSet(l, s, held)
  <2>1. PICK held \in sets[r.filter] : Listing!UseSet(l, s, held)
    BY <1>3
  <2>2. r \in Requests /\ r.filter \in Listing!Filters
    BY DEF Called, Listing!Filters
  <2>3. Retained(held, r)
    BY <2>2 DEF ListsInv, SetsOK, Retained
  <2> QED
    BY <1>3, <2>1, <2>3, UseSetBecomes
<1> QED
  BY <1>1, <1>2, <1>3 DEF Listing!Prepare

-----------------------------------------------------------------------------
(* The actions *)

\* A SELECT reads the database as it was since the call began.
LEMMA ReadsShots ==
  ASSUME ListsInv, NEW l \in Lists, Alive(list[l]), NEW t \in Listing!Reads(l)
  PROVE  t \in Shots(list[l], tables) /\ t \in Members(tables) /\ t \in Databases
<1>1. /\ tables \in Seq(Databases) /\ DOMAIN tables = 1 .. Len(tables) /\ Len(tables) \in Nat
  BY LenProperties DEF ListsInv, TablesOK
<1>2. list[l].from \in 1 .. Len(tables) /\ list[l].issued \in list[l].from .. Len(tables)
  BY DEF ListsInv, Good, Called, Alive
<1>3. PICK i \in list[l].issued .. Len(tables) : t = tables[i]
  BY DEF Listing!Reads
<1>4. i \in list[l].from .. Len(tables) /\ i \in DOMAIN tables
  BY <1>1, <1>2, <1>3
<1> QED
  BY <1>1, <1>3, <1>4, ElementOfSeq DEF Shots, Members

\* What the invariant says of a call under way.
LEMMA AliveCall ==
  ASSUME ListsInv, NEW l \in Lists, Alive(list[l])
  PROVE  /\ Called(list[l], tables) /\ IsCall(list[l]) /\ list[l].request \in Requests
         /\ AtStage(policy, list[l], list[l].pc, tables)
         /\ l \notin overlapped => OwnMark(list[l], observed[list[l].request.context], tables)
         /\ Shots(list[l], tables) \subseteq Databases
<1>1. Called(list[l], tables) /\ AtStage(policy, list[l], list[l].pc, tables)
  BY DEF ListsInv, Good, Alive
<1>2. Shots(list[l], tables) \subseteq Databases
  BY <1>1, ElementOfSeq DEF Called, ListsInv, TablesOK, Shots
<1> QED
  BY <1>1, <1>2 DEF Called, ListsInv, MarksOK

LEMMA StartKeeps ==
  ASSUME ListsInv, NEW l \in Lists, NEW r \in Requests, Listing!Start(l, r)
  PROVE  ListsInv'
<1> DEFINE s == [Listing!NoList EXCEPT !.request = r, !.from = Len(tables)]
<1>1. IsCall(s) /\ s.request = r /\ s.only = {} /\ s.answer.rows = <<>> /\ s.from = Len(tables)
  <2>1. /\ s.request = r /\ s.from = Len(tables) /\ s.only = {} /\ s.answer = Listing!NoAnswer
        /\ DOMAIN s = {"pc", "request", "from", "issued", "only", "todo", "counts", "answer"}
        /\ s = [k \in DOMAIN s |-> s[k]]
    BY DEF Listing!NoList
  <2> HIDE DEF s
  <2>2. s = [pc |-> s.pc, request |-> s.request, from |-> s.from, issued |-> s.issued, only |-> s.only,
             todo |-> s.todo, counts |-> s.counts, answer |-> s.answer]
    BY <2>1
  <2>3. s.answer.rows = <<>> /\ IsCall(s)
    BY <2>1, <2>2 DEF IsCall, Listing!NoAnswer
  <2> QED
    BY <2>1, <2>3
<1>2. IF r.counted /\ ~r.idSet THEN Listing!Issue(l, s, "total") ELSE Listing!Prepare(l, s)
  BY DEF Listing!Start
<1> HIDE DEF s
<1>3. Called(s, tables)
  <2>1. DistinctRows(<<>>)
    BY DEF DistinctRows
  <2>2. Len(tables) \in 1 .. Len(tables)
    BY LenProperties, EmptySeq DEF ListsInv, TablesOK
  <2> QED
    BY <1>1, <2>1, <2>2 DEF Called
<1>4. \E c : Becomes(l, r, c)
  <2>1. CASE r.counted /\ ~r.idSet
    <3>1. AtStage(policy, s, "total", tables) /\ "total" \in Stages
      BY <1>1 DEF AtStage, AllAsked, Stages
    <3> QED
      BY <1>1, <1>2, <1>3, <2>1, <3>1, IssueBecomes
  <2>2. CASE ~(r.counted /\ ~r.idSet)
    <3>1. TotalTold(s, tables)
      BY <1>1, <2>2 DEF TotalTold
    <3> QED
      BY <1>1, <1>2, <1>3, <2>2, <3>1, PrepareBecomes
  <2> QED
    BY <2>1, <2>2
<1>5. Spread(l, r)
  <2> DEFINE met == {k \in Lists : Listing!Running(k) /\ list[k].request.context = r.context}
  <2>1. overlapped' = overlapped \cup met \cup (IF met = {} THEN {} ELSE {l})
    BY DEF Listing!Start
  <2>2. \A k \in Lists : Alive(list[k]) => Listing!Running(k)
    BY DEF Alive, Stages, Listing!Running
  <2> QED
    BY <2>1, <2>2 DEF Spread
<1>6. policy' = policy /\ tables' = tables /\ SetsOK'
  BY DEF Listing!Start, ListsInv, SetsOK, Retained
<1> QED
  BY <1>4, <1>5, <1>6, BecomesKeeps

\* A step of a call under way that starts no other.
LEMMA CallKeeps ==
  ASSUME ListsInv, NEW l \in Lists, Alive(list[l]), \E c : Becomes(l, list[l].request, c), SetsOK',
         policy' = policy, tables' = tables, overlapped' = overlapped
  PROVE  ListsInv'
BY SpreadAlready, BecomesKeeps

LEMMA SetsStay ==
  ASSUME ListsInv, sets' = sets, tables' = tables
  PROVE  SetsOK'
BY DEF ListsInv, SetsOK

LEMMA SelectTotalKeeps ==
  ASSUME ListsInv, NEW l \in Lists, Listing!SelectTotal(l)
  PROVE  ListsInv'
<1>1. list[l].pc = "total" /\ Alive(list[l])
  BY DEF Listing!SelectTotal, Alive, Stages
<1> DEFINE r == list[l].request
<1>2. PICK t \in Listing!Reads(l) :
        LET s == [list[l] EXCEPT !.answer.total = {Cardinality(Listing!Selected(t, r))}]
        IN  IF s.request.idSet THEN Listing!Done(l, s) /\ UNCHANGED observed ELSE Listing!Prepare(l, s)
  BY Same DEF Listing!SelectTotal
<1> DEFINE total == {CountOf(t, r)}
           s == [list[l] EXCEPT !.answer.total = total]
           c == [s EXCEPT !.pc = "done"]
<1>3. IF s.request.idSet THEN Listing!Done(l, s) /\ UNCHANGED observed ELSE Listing!Prepare(l, s)
  BY <1>2 DEF CountOf
<1>4. t \in Shots(list[l], tables) /\ t \in Members(tables)
  BY <1>1, ReadsShots
<1>5. /\ Called(list[l], tables) /\ IsCall(list[l]) /\ AllAsked(policy, list[l], tables)
  BY <1>1, AliveCall DEF AtStage
<1>6. Totalled(list[l], s, total)
  BY <1>5, WithTotal
<1> HIDE DEF s, total
<1>7. Called(s, tables) /\ Shots(s, tables) = Shots(list[l], tables) /\ s.request = r
  BY <1>5, <1>6, CalledLike DEF Totalled
<1>8. TotalTold(s, tables)
  BY <1>4, <1>6, <1>7 DEF TotalTold, Totalled, total
<1>9. \E d : Becomes(l, r, d)
  <2>1. CASE r.idSet
    <3>1. AtStage(policy, s, "done", tables)
      <4>1. AtStage(policy, list[l], "total", tables)
        BY <1>5 DEF AtStage
      <4>2. AtStage(policy, s, "total", tables)
        BY <1>6, <1>8, <4>1, StageLike DEF Totalled
      <4> QED
        BY <1>8, <4>2 DEF AtStage
    <3>2. RetainedTotal(c, tables)
      <4>1. Over(s, c)
        BY <1>7, AtEnd DEF Called
      <4> HIDE DEF c
      <4>2. c.request = r /\ c.answer.total = total /\ Shots(c, tables) = Shots(list[l], tables)
        BY <1>6, <1>7, <4>1 DEF Over, Totalled, Shots
      <4> QED
        BY <1>4, <4>2 DEF RetainedTotal, total
    <3> QED
      BY <1>3, <1>7, <2>1, <3>1, <3>2, DoneBecomes
  <2>2. CASE ~r.idSet
    BY <1>3, <1>7, <1>8, <2>2, PrepareBecomes
  <2> QED
    BY <2>1, <2>2
<1>10. policy' = policy /\ tables' = tables /\ overlapped' = overlapped /\ SetsOK'
  BY SetsStay DEF Listing!SelectTotal
<1> QED
  BY <1>1, <1>9, <1>10, CallKeeps

\* The IDs read for a set are different rows, as many as there were.
LEMMA InOrderRetained ==
  ASSUME NEW t \in Databases, NEW r
  PROVE  LET held == Listing!InOrder(Listing!Selected(t, r))
         IN  DistinctRows(held) /\ Len(held) = CountOf(t, r)
<1> DEFINE S == Listing!Selected(t, r)
<1>1. S \subseteq MemberIds /\ IsFiniteSet(S) /\ S \subseteq Int
  BY Rowwise, TablesAssumption DEF TablesAssumption
<1> HIDE DEF S
<1> DEFINE held == Listing!InOrder(S)
<1>2. /\ held \in Seq(S) /\ Len(held) = Cardinality(S)
      /\ \A i, j \in DOMAIN held : held[i] = held[j] => i = j
  <2> HIDE DEF held
  <2> QED
    BY <1>1, RowsInOrder DEF held
<1> HIDE DEF held
<1>3. held \in Seq(MemberIds)
  <2>1. \A i \in 1 .. Len(held) : held[i] \in MemberIds
    BY <1>1, <1>2, ElementOfSeq
  <2> QED
    BY <1>2, <2>1, SeqDef, LenProperties
<1> QED
  BY <1>2, <1>3 DEF DistinctRows, CountOf, S, held

LEMMA ListCollectKeeps ==
  ASSUME ListsInv, NEW l \in Lists, Listing!Collect(l)
  PROVE  ListsInv'
<1> DEFINE r == list[l].request
<1>1. list[l].pc = "collect" /\ Alive(list[l])
  BY DEF Listing!Collect, Alive, Stages
<1>2. /\ Called(list[l], tables) /\ r \in Requests /\ r.idSet
      /\ list[l].only = {} /\ list[l].answer.rows = <<>>
  BY <1>1, AliveCall DEF AtStage
<1>3. policy' = policy /\ tables' = tables /\ overlapped' = overlapped
  BY DEF Listing!Collect
<1>4. ASSUME NEW t \in Listing!Reads(l), NEW held, held = Listing!InOrder(Listing!Selected(t, r)),
             sets' = [sets EXCEPT ![r.filter] = {held}], Listing!UseSet(l, list[l], held)
      PROVE  ListsInv'
  <2>1. t \in Members(tables) /\ t \in Databases
    BY <1>1, ReadsShots
  <2>2. DistinctRows(held) /\ Len(held) = CountOf(t, r)
    BY <1>4, <2>1, InOrderRetained
  <2>3. \E c : Becomes(l, r, c)
    BY <1>2, <1>4, <2>1, <2>2, UseSetBecomes DEF Retained
  <2>4. SetsOK'
    <3>1. \A q \in Requests : q.filter = r.filter => CountOf(t, q) = CountOf(t, r)
      BY DEF CountOf, Listing!Selected
    <3>2. DOMAIN sets' = Listing!Filters /\ DOMAIN sets = Listing!Filters
      BY <1>4 DEF ListsInv, SetsOK
    <3>3. ASSUME NEW f \in Listing!Filters, NEW x \in sets'[f]
          PROVE  DistinctRows(x)
                 /\ \E u \in Members(tables) : \A q \in Requests : q.filter = f => Len(x) = CountOf(u, q)
      <4>1. CASE f = r.filter
        <5>1. x = held
          BY <1>4, <3>2, <3>3, <4>1
        <5> QED
          BY <2>1, <2>2, <3>1, <4>1, <5>1
      <4>2. CASE f # r.filter
        <5>1. x \in sets[f]
          BY <1>4, <3>2, <3>3, <4>2
        <5> QED
          BY <5>1 DEF ListsInv, SetsOK
      <4> QED
        BY <4>1, <4>2
    <3> QED
      BY <1>3, <3>2, <3>3 DEF SetsOK, Listing!Filters
  <2> QED
    BY <1>1, <1>3, <2>3, <2>4, CallKeeps
<1>5. ASSUME Listing!Issue(l, list[l], "page"), sets' = sets
      PROVE  ListsInv'
  <2>1. AtStage(policy, list[l], "page", tables) /\ "page" \in Stages
    BY <1>2 DEF AtStage, TotalTold, Stages
  <2>2. \E c : Becomes(l, r, c)
    BY <1>2, <1>5, <2>1, IssueBecomes
  <2> QED
    BY <1>1, <1>3, <1>5, <2>2, SetsStay, CallKeeps
<1> QED
  BY <1>4, <1>5 DEF Listing!Collect

\* The rows that s has of a page, and the queries that are to follow.
Paged(s, c, x, todo) ==
  /\ IsCall(c) /\ c.request = s.request /\ c.from = s.from /\ c.only = s.only
  /\ c.answer.rows = x /\ c.answer.total = s.answer.total /\ c.todo = todo

LEMMA WithRows ==
  ASSUME NEW s, IsCall(s), NEW x, NEW todo
  PROVE  Paged(s, [s EXCEPT !.answer.rows = x, !.todo = todo], x, todo)
<1> DEFINE c == [s EXCEPT !.answer.rows = x, !.todo = todo]
           d == c.answer
<1>1. /\ c.request = s.request /\ c.from = s.from /\ c.only = s.only
      /\ c.todo = todo /\ c.answer = [s.answer EXCEPT !.rows = x]
  BY DEF IsCall
<1>2. DOMAIN s = {"pc", "request", "from", "issued", "only", "todo", "counts", "answer"}
  BY DEF IsCall
<1>3. c = [k \in DOMAIN s |-> c[k]]
  OBVIOUS
<1> HIDE DEF c
<1>4. c = [pc |-> c.pc, request |-> c.request, from |-> c.from, issued |-> c.issued, only |-> c.only,
           todo |-> c.todo, counts |-> c.counts, answer |-> c.answer]
  BY <1>2, <1>3
<1>5. /\ d.rows = x /\ d.total = s.answer.total
      /\ DOMAIN d = {"rows", "total", "sums", "related", "facets"}
      /\ d = [k \in DOMAIN d |-> d[k]]
  BY <1>1 DEF IsCall
<1> HIDE DEF d
<1>6. d = [rows |-> d.rows, total |-> d.total, sums |-> d.sums, related |-> d.related, facets |-> d.facets]
  BY <1>5
<1>7. IsCall(c)
  BY <1>4, <1>6 DEF IsCall, d
<1> QED
  BY <1>1, <1>5, <1>7 DEF c, d, Paged

\* Those of different rows that are in a set.
LEMMA DistinctAmong ==
  ASSUME NEW x, DistinctRows(x), NEW S
  PROVE  DistinctRows(Listing!Among(x, S))
<1> DEFINE at == {i \in DOMAIN x : x[i] \in S}
           places == Listing!InOrder(at)
           w == [j \in DOMAIN places |-> x[places[j]]]
<1>1. x \in Seq(MemberIds) /\ DOMAIN x = 1 .. Len(x) /\ Len(x) \in Nat
      /\ \A i \in DOMAIN x : x[i] \in MemberIds
  BY LenProperties, ElementOfSeq DEF DistinctRows
<1>2. at \subseteq Int /\ IsFiniteSet(at)
  <2> DEFINE n == Len(x)
  <2>1. at \subseteq 1 .. n /\ n \in Int
    BY <1>1
  <2> HIDE DEF at, n
  <2>2. IsFiniteSet(1 .. n)
    BY <2>1, FS_Interval
  <2>3. IsFiniteSet(at)
    BY <2>1, <2>2, FS_Subset
  <2>4. at \subseteq Int
    BY <2>1
  <2> QED
    BY <2>3, <2>4
<1>3. /\ places \in Seq(at) /\ \A i, j \in DOMAIN places : places[i] = places[j] => i = j
  <2> HIDE DEF at, places
  <2> QED
    BY <1>2, RowsInOrder DEF places
<1> HIDE DEF places
<1>4. DOMAIN places = 1 .. Len(places) /\ Len(places) \in Nat /\ \A j \in DOMAIN places : places[j] \in at
  BY <1>3, LenProperties, ElementOfSeq
<1>5. \A j \in DOMAIN places : places[j] \in DOMAIN x
  BY <1>4
<1>6. w \in Seq(MemberIds)
  <2>1. w = [j \in 1 .. Len(places) |-> x[places[j]]] /\ \A j \in 1 .. Len(places) : x[places[j]] \in MemberIds
    BY <1>1, <1>4, <1>5
  <2> HIDE DEF w
  <2> QED
    BY <1>4, <2>1, IsASeq
<1>7. \A i, j \in DOMAIN w : w[i] = w[j] => i = j
  <2>1. \A i, j \in DOMAIN places : x[places[i]] = x[places[j]] => places[i] = places[j]
    BY <1>5 DEF DistinctRows
  <2> QED
    BY <1>3, <2>1
<1> HIDE DEF w
<1>8. DistinctRows(w)
  BY <1>6, <1>7 DEF DistinctRows
<1> QED
  BY <1>8 DEF Listing!Among, w, places

LEMMA SelectPageKeeps ==
  ASSUME ListsInv, NEW l \in Lists, Listing!SelectPage(l)
  PROVE  ListsInv'
<1> DEFINE r == list[l].request
           rowsOf(t) == IF list[l].only = {} THEN Listing!Slice(Listing!InOrder(Listing!Selected(t, r)), r.offset, r.limit)
                        ELSE Listing!Among(CHOOSE held \in list[l].only : TRUE, Listing!Selected(t, r))
<1>1. list[l].pc = "page" /\ Alive(list[l])
  BY DEF Listing!SelectPage, Alive, Stages
<1>2. PICK t \in Listing!Reads(l) :
        Listing!Continue(l, [list[l] EXCEPT !.answer.rows = rowsOf(t), !.todo = Listing!Nested(r, rowsOf(t))])
  BY DEF Listing!SelectPage
<1>3. t \in Databases
  BY <1>1, ReadsShots
<1>4. /\ Called(list[l], tables) /\ IsCall(list[l]) /\ r \in Requests /\ TotalTold(list[l], tables)
      /\ l \notin overlapped => OwnMark(list[l], observed[r.context], tables)
  BY <1>1, AliveCall DEF AtStage
<1>5. DistinctRows(rowsOf(t))
  <2>1. CASE list[l].only = {}
    <3> DEFINE held == Listing!InOrder(Listing!Selected(t, r))
    <3>1. DistinctRows(held)
      BY <1>3, InOrderRetained
    <3>2. r.offset \in Nat /\ r.limit \in Nat
      BY <1>4, RequestsAssumption DEF RequestsAssumption
    <3> HIDE DEF held
    <3>3. DistinctRows(Listing!Slice(held, r.offset, r.limit))
      BY <3>1, <3>2, DistinctSlice
    <3> QED
      BY <2>1, <3>3 DEF held
  <2>2. CASE list[l].only # {}
    <3> DEFINE held == CHOOSE x \in list[l].only : TRUE
    <3>1. DistinctRows(held)
      BY <1>4, <2>2 DEF Called
    <3> HIDE DEF held
    <3>2. DistinctRows(Listing!Among(held, Listing!Selected(t, r)))
      BY <3>1, DistinctAmong
    <3> QED
      BY <2>2, <3>2 DEF held
  <2> QED
    BY <2>1, <2>2
<1> DEFINE x == rowsOf(t)
           todo == Listing!Nested(r, x)
           s == [list[l] EXCEPT !.answer.rows = x, !.todo = todo]
<1>6. Listing!Continue(l, s) /\ DistinctRows(x)
  BY <1>2, <1>5
<1> HIDE DEF x
<1>7. Paged(list[l], s, x, todo)
  <2> HIDE DEF todo
  <2> QED
    BY <1>4, WithRows
<1> HIDE DEF s
<1>8. Called(s, tables) /\ TotalTold(s, tables) /\ s.request = r
  BY <1>4, <1>6, <1>7 DEF Called, Paged, TotalTold, Shots
<1>9. Progress(policy, s, Shots(s, tables))
  BY <1>6, <1>7, PageProgress DEF Paged
<1>10. l \notin overlapped => OwnMark(s, observed[r.context], tables)
  BY <1>4, <1>7 DEF OwnMark, Paged
<1>11. \E c : Becomes(l, r, c)
  BY <1>6, <1>8, <1>9, <1>10, ContinueBecomes
<1>12. policy' = policy /\ tables' = tables /\ overlapped' = overlapped /\ SetsOK'
  BY SetsStay DEF Listing!SelectPage
<1> QED
  BY <1>1, <1>11, <1>12, CallKeeps

LEMMA SelectNestedKeeps ==
  ASSUME ListsInv, NEW l \in Lists, Listing!SelectNested(l)
  PROVE  ListsInv'
<1> DEFINE r == list[l].request
           T == Shots(list[l], tables)
<1>1. list[l].pc = "nested" /\ Alive(list[l])
  BY DEF Listing!SelectNested, Alive, Stages
<1>2. PICK t \in Listing!Reads(l) : \E a \in Listing!Results(list[l], Head(list[l].todo), t) :
        Listing!Continue(l, [a EXCEPT !.todo = Tail(@)])
  BY DEF Listing!SelectNested
<1>3. PICK a \in Listing!Results(list[l], Head(list[l].todo), t) :
        Listing!Continue(l, [a EXCEPT !.todo = Tail(@)])
  BY <1>2
<1>4. t \in T
  BY <1>1, ReadsShots
<1>5. /\ Called(list[l], tables) /\ IsCall(list[l]) /\ r \in Requests /\ TotalTold(list[l], tables)
      /\ l \notin overlapped => OwnMark(list[l], observed[r.context], tables)
      /\ T \subseteq Databases /\ list[l].todo # <<>> /\ Progress(policy, list[l], T)
  BY <1>1, AliveCall DEF AtStage
<1>6. Asker(policy, list[l], T)
  BY <1>5 DEF Asker, Called
<1> DEFINE s == [a EXCEPT !.todo = Tail(@)]
<1>7. Carried(list[l], s) /\ Progress(policy, s, T)
  BY <1>3, <1>4, <1>5, <1>6, AnswerProgress
<1> HIDE DEF s
<1>8. Called(s, tables) /\ TotalTold(s, tables) /\ s.request = r /\ Shots(s, tables) = T
  BY <1>5, <1>7 DEF Called, Carried, TotalTold, Shots
<1>9. l \notin overlapped => OwnMark(s, observed[r.context], tables)
  BY <1>5, <1>7 DEF OwnMark, Carried
<1>10. Listing!Continue(l, s)
  BY <1>3 DEF s
<1>11. \E c : Becomes(l, r, c)
  BY <1>7, <1>8, <1>9, <1>10, ContinueBecomes
<1>12. policy' = policy /\ tables' = tables /\ overlapped' = overlapped /\ SetsOK'
  BY SetsStay DEF Listing!SelectNested
<1> QED
  BY <1>1, <1>11, <1>12, CallKeeps

LEMMA ListFailKeeps ==
  ASSUME ListsInv, NEW l \in Lists, Listing!Fail(l)
  PROVE  ListsInv'
<1> DEFINE c == [Listing!NoList EXCEPT !.pc = "failed"]
<1>1. Alive(list[l])
  BY DEF Listing!Fail, Listing!Running, ListsInv, Good, Alive, Stages
<1>2. list' = [list EXCEPT ![l] = c] /\ observed' = observed
  BY DEF Listing!Fail, Listing!Go
<1>3. c.pc = "failed" /\ IsCall(c)
  <2>1. /\ c.pc = "failed" /\ c.answer = Listing!NoAnswer
        /\ DOMAIN c = {"pc", "request", "from", "issued", "only", "todo", "counts", "answer"}
        /\ c = [k \in DOMAIN c |-> c[k]]
    BY DEF Listing!NoList
  <2> HIDE DEF c
  <2>2. c = [pc |-> c.pc, request |-> c.request, from |-> c.from, issued |-> c.issued, only |-> c.only,
             todo |-> c.todo, counts |-> c.counts, answer |-> c.answer]
    BY <2>1
  <2> QED
    BY <2>1, <2>2 DEF IsCall, Listing!NoAnswer
<1> HIDE DEF c
<1>4. Becomes(l, list[l].request, c)
  BY <1>2, <1>3 DEF Becomes, Good, RetainedTotal, Alive, Stages
<1>5. policy' = policy /\ tables' = tables /\ overlapped' = overlapped /\ SetsOK'
  BY SetsStay DEF Listing!Fail
<1> QED
  BY <1>1, <1>4, <1>5, CallKeeps

LEMMA LoseKeeps ==
  ASSUME ListsInv, NEW f \in Listing!Filters, Listing!Lose(f)
  PROVE  ListsInv'
<1>1. /\ sets' = [sets EXCEPT ![f] = {}] /\ policy' = policy /\ tables' = tables /\ observed' = observed
      /\ list' = list /\ overlapped' = overlapped
  BY DEF Listing!Lose
<1>2. SetsOK'
  BY <1>1 DEF ListsInv, SetsOK, Listing!Filters
<1> QED
  BY <1>1, <1>2 DEF ListsInv, TablesOK, MarksOK, Apart

LEMMA ChangeKeeps ==
  ASSUME ListsInv, Listing!Change
  PROVE  ListsInv'
<1> DEFINE last == tables[Len(tables)]
<1>1. last \in Databases
  <2>1. tables \in Seq(Databases) /\ Len(tables) \in 1 .. Len(tables)
    BY LenProperties, EmptySeq DEF ListsInv, TablesOK
  <2> QED
    BY <2>1, ElementOfSeq
<1>2. PICK t \in Listing!Changes(last) : tables' = Append(tables, t)
  BY DEF Listing!Change, Listing!Last
<1>3. t \in Databases /\ tables \in Seq(Databases)
  BY <1>1, <1>2, ChangesOK DEF ListsInv, TablesOK
<1>4. /\ policy' = policy /\ sets' = sets /\ observed' = observed /\ list' = list
      /\ overlapped' = overlapped
  BY DEF Listing!Change
<1>5. TablesOK' /\ Members(tables) \subseteq Members(tables')
  BY <1>2, <1>3, ShotsGrow DEF TablesOK
<1>6. SetsOK'
  <2>1. DOMAIN sets = Listing!Filters
        /\ \A f \in Listing!Filters : \A x \in sets[f] :
             DistinctRows(x)
             /\ \E u \in Members(tables) : \A q \in Requests : q.filter = f => Len(x) = CountOf(u, q)
    BY DEF ListsInv, SetsOK
  <2> QED
    BY <1>4, <1>5, <2>1 DEF SetsOK, Listing!Filters
<1>7. MarksOK'
  <2>1. \A l \in Lists : Alive(list[l]) /\ l \notin overlapped =>
          OwnMark(list[l], observed[list[l].request.context], tables')
    BY <1>2, <1>3, TotalsStay DEF ListsInv, MarksOK
  <2> QED
    BY <1>4, <2>1 DEF ListsInv, MarksOK
<1>8. ASSUME NEW l \in Lists
      PROVE  Good(policy', list'[l], tables') /\ (l \notin overlapped' => RetainedTotal(list'[l], tables'))
  <2>1. Good(policy, list[l], tables) /\ (l \notin overlapped => RetainedTotal(list[l], tables))
    BY DEF ListsInv
  <2>2. Good(policy, list[l], tables')
    BY <1>2, <1>3, <2>1, GoodStays
  <2>3. l \notin overlapped => RetainedTotal(list[l], tables')
    <3>1. list[l].pc = "done" => list[l].from \in 1 .. Len(tables)
      BY <2>1 DEF Good, Called
    <3>2. list[l].pc # "done" => RetainedTotal(list[l], tables')
      BY DEF RetainedTotal
    <3> QED
      BY <1>2, <1>3, <2>1, <3>1, <3>2, TotalsStay
  <2> QED
    BY <1>4, <2>2, <2>3
<1>9. Apart' /\ DOMAIN list' = Lists
  BY <1>4 DEF ListsInv, Apart
<1> QED
  BY <1>5, <1>6, <1>7, <1>8, <1>9 DEF ListsInv

LEMMA ListsStart ==
  ASSUME Listing!Init
  PROVE  ListsInv
<1>1. PICK t \in Databases : tables = <<t>>
  BY TablesAssumption DEF Listing!Init, TablesAssumption
<1>2. TablesOK
  BY <1>1 DEF TablesOK
<1>3. SetsOK
  BY DEF Listing!Init, SetsOK
<1>4. \A l \in Lists : list[l].pc = "idle" /\ IsCall(list[l])
  BY DEF Listing!Init, Listing!NoList, Listing!NoAnswer, IsCall
<1>5. \A l \in Lists : ~Alive(list[l]) /\ Good(policy, list[l], tables) /\ RetainedTotal(list[l], tables)
  BY <1>4 DEF Good, Alive, Stages, RetainedTotal
<1>6. DOMAIN list = Lists /\ DOMAIN observed = Contexts
  BY DEF Listing!Init
<1> QED
  BY <1>2, <1>3, <1>5, <1>6 DEF ListsInv, MarksOK, Apart

LEMMA ListsStep ==
  ASSUME ListsInv, [Listing!Next]_listVars
  PROVE  ListsInv'
<1>1. CASE UNCHANGED listVars
  BY <1>1 DEF listVars, ListsInv, TablesOK, SetsOK, MarksOK, Apart, Listing!Filters
<1>2. CASE Listing!Change
  BY <1>2, ChangeKeeps
<1>3. CASE \E f \in Listing!Filters : Listing!Lose(f)
  BY <1>3, LoseKeeps
<1>4. ASSUME NEW l \in Lists,
             \/ \E r \in Requests : Listing!Start(l, r)
             \/ Listing!SelectTotal(l) \/ Listing!Collect(l) \/ Listing!SelectPage(l)
             \/ Listing!SelectNested(l) \/ Listing!Fail(l)
      PROVE  ListsInv'
  BY <1>4, StartKeeps, SelectTotalKeeps, ListCollectKeeps, SelectPageKeeps, SelectNestedKeeps, ListFailKeeps
<1> QED
  BY <1>1, <1>2, <1>3, <1>4 DEF Listing!Next

\* Different rows are as many as there are places.
LEMMA RowCount ==
  ASSUME NEW x, DistinctRows(x)
  PROVE  Cardinality(Members(x)) = Len(x)
<1> DEFINE n == Len(x)
<1>1. n \in Nat /\ DOMAIN x = 1 .. n /\ \A i, j \in 1 .. n : x[i] = x[j] => i = j
  BY LenProperties DEF DistinctRows
<1>2. x \in [1 .. n -> Members(x)] /\ \A y \in Members(x) : \E i \in 1 .. n : x[i] = y
  BY <1>1, LenProperties DEF DistinctRows, Members
<1> HIDE DEF n
<1>3. x \in Bijection(1 .. n, Members(x))
  BY <1>1, <1>2 DEF Bijection, Injection, IsInjective, Surjection
<1>4. IsFiniteSet(1 .. n) /\ Cardinality(1 .. n) = n
  BY <1>1, FS_Interval
<1>5. Cardinality(Members(x)) = Cardinality(1 .. n)
  BY <1>3, <1>4, FS_Bijection DEF ExistsBijection
<1> QED
  BY <1>4, <1>5 DEF n

\* At the end of a call whatever was to be asked is told of.
LEMMA EndedTold ==
  ASSUME ListsInv, NEW l \in Lists, Listing!Ended(l)
  PROVE  /\ Called(list[l], tables)
         /\ \A q \in Asking(policy, list[l]) : Told(list[l], Shots(list[l], tables), q)
<1>1. /\ list[l].pc = "done" /\ list[l].answer.rows # <<>>
      /\ Called(list[l], tables) /\ AtStage(policy, list[l], "done", tables)
  BY DEF Listing!Ended, ListsInv, Good
<1>2. list[l].todo = <<>> /\ Progress(policy, list[l], Shots(list[l], tables))
  BY <1>1 DEF AtStage, AllAsked
<1>3. Members(list[l].todo) = {}
  BY <1>2 DEF Members
<1> QED
  BY <1>1, <1>2, <1>3 DEF Progress

LEMMA RelatedAreTrue ==
  ASSUME ListsInv
  PROVE  Listing!RelatedTrue
<1> SUFFICES ASSUME NEW l \in Lists, Listing!Ended(l), NEW load \in list[l].request.load
             PROVE  LET related == list[l].answer.related
                        ps == Listing!Parents(l)
                    IN  IF ~load.query THEN \E t \in Listing!Since(l) : Listing!UpToCeiling(related, t, ps)
                        ELSE IF Listing!UsesProbes(load, Listing!Cardinality(ps))
                               THEN \A p \in ps : \E t \in Listing!Since(l) : Listing!InLimits(related[p], t, p, load)
                               ELSE \E t \in Listing!Since(l) : \A p \in ps : Listing!InLimits(related[p], t, p, load)
  BY DEF Listing!RelatedTrue
<1> DEFINE s == list[l]
           x == s.answer.rows
           ps == Members(x)
           T == Shots(s, tables)
<1>1. Called(s, tables) /\ \A q \in Asking(policy, s) : Told(s, T, q)
  BY EndedTold
<1>2. Listing!Since(l) = T /\ Listing!Parents(l) = ps /\ RowsOf(s) = ps /\ x # <<>>
  BY DEF Listing!Since, Shots, Listing!Parents, Listing!ToSet, RowsOf, Members, Listing!Ended
<1>3. load = LoadOf(s) /\ s.request.load # {}
  BY <1>1, OneLoad DEF Called
<1>4. Listing!Cardinality(ps) = Len(x)
  BY <1>1, Same, RowCount DEF Called
<1>5. \A n : Listing!UsesProbes(load, n) <=> Probes(policy, load, n)
  BY DEF Listing!UsesProbes, Probes
<1>6. load = CHOOSE y \in s.request.load : TRUE
  BY <1>3 DEF LoadOf
<1>7. ASSUME ~Probes(policy, load, Len(x))
      PROVE  IF load.query THEN \E t \in T : \A p \in ps : ChildrenTold(s, t, p)
             ELSE \E t \in T : WholeTold(s, t)
  <2>1. Ask("load", 0) \in Asking(policy, s)
    BY <1>2, <1>3, <1>6, <1>7 DEF Asking, AskedOf, Ask, Queryable, Ops
  <2>2. Ask("load", 0).op = "load"
    BY DEF Ask
  <2> QED
    BY <1>1, <1>2, <1>3, <2>1, <2>2 DEF Told
<1>8. ASSUME Probes(policy, load, Len(x)), NEW p \in ps
      PROVE  \E t \in T : ChildrenTold(s, t, p)
  <2>1. p \in Int
    BY <1>1, RowIds DEF Called
  <2>2. Ask("probe", p) \in Asking(policy, s)
    BY <1>2, <1>3, <1>6, <1>8, <2>1 DEF Asking, AskedOf, Ask, Queryable, Ops
  <2>3. Ask("probe", p).op = "probe" /\ Ask("probe", p).of = p
    BY DEF Ask
  <2> QED
    BY <1>1, <2>2, <2>3 DEF Told
<1>9. Probes(policy, load, Len(x)) => load.query
  BY DEF Probes
<1> HIDE DEF s, x, ps, T
<1>10. CASE ~load.query
  <2>1. PICK t \in T : WholeTold(s, t)
    BY <1>7, <1>9, <1>10
  <2> QED
    BY <1>2, <1>10, <2>1 DEF WholeTold, s
<1>11. CASE load.query /\ Probes(policy, load, Len(x))
  BY <1>2, <1>3, <1>4, <1>5, <1>8, <1>11 DEF ChildrenTold, s
<1>12. CASE load.query /\ ~Probes(policy, load, Len(x))
  BY <1>2, <1>3, <1>4, <1>5, <1>7, <1>12 DEF ChildrenTold, s
<1> QED
  BY <1>10, <1>11, <1>12

LEMMA CountsAreTrue ==
  ASSUME ListsInv
  PROVE  Listing!CountsTrue
<1> SUFFICES ASSUME NEW l \in Lists, list[l].pc = "done"
             PROVE  LET r == list[l].request
                    IN  /\ r.counted /\ (r.idSet => l \notin overlapped) => Listing!TotalTrue(l)
                        /\ Listing!Ended(l) =>
                             /\ r.sums => Listing!SumsTrue(l)
                             /\ r.facet # "none" /\ ~r.idSet => Listing!WholeFacet(l)
                             /\ \A load \in r.load : load.facet # "none" => Listing!ChildFacets(l, load)
  BY DEF Listing!CountsTrue
<1> DEFINE s == list[l]
           r == s.request
           x == s.answer.rows
           T == Shots(s, tables)
<1>1. /\ Called(s, tables) /\ TotalTold(s, tables)
      /\ l \notin overlapped => RetainedTotal(s, tables)
  BY DEF ListsInv, Good, AtStage
<1>2. Listing!Since(l) = T /\ Listing!Parents(l) = Members(x) /\ RowsOf(s) = Members(x)
  BY DEF Listing!Since, Shots, Listing!Parents, Listing!ToSet, RowsOf, Members
<1>3. ASSUME r.counted, r.idSet => l \notin overlapped
      PROVE  Listing!TotalTrue(l)
  <2>1. Listing!ToSet(tables) = Members(tables)
    BY DEF Listing!ToSet, Members
  <2>2. CASE ~r.idSet
    <3>1. PICK t \in T : s.answer.total = {CountOf(t, r)}
      BY <1>1, <1>3, <2>2 DEF TotalTold
    <3> QED
      BY <1>2, <2>2, <3>1, Same DEF Listing!TotalTrue, CountOf
  <2>3. CASE r.idSet
    <3>1. PICK t \in IF s.only = {} /\ x # <<>> THEN T ELSE Members(tables) : s.answer.total = {CountOf(t, r)}
      BY <1>1, <1>3, <2>3 DEF RetainedTotal
    <3>2. Listing!Ended(l) <=> x # <<>>
      BY DEF Listing!Ended
    <3> QED
      BY <1>2, <2>1, <2>3, <3>1, <3>2, Same DEF Listing!TotalTrue, CountOf
  <2> QED
    BY <2>2, <2>3
<1>4. ASSUME Listing!Ended(l), r.sums
      PROVE  Listing!SumsTrue(l)
  <2>1. Ask("sum", 0) \in Asking(policy, s)
    BY <1>4 DEF Listing!Ended, Asking, AskedOf, Ask, Queryable, Ops
  <2>2. Ask("sum", 0).op = "sum"
    BY DEF Ask
  <2>3. Told(s, T, Ask("sum", 0))
    BY <1>4, <2>1, EndedTold
  <2>4. PICK t \in T : SumsTold(s, t)
    BY <2>2, <2>3 DEF Told
  <2> QED
    BY <1>2, <2>4, Same DEF Listing!SumsTrue, SumsTold
<1>5. ASSUME NEW p, Ask("show", p) \in Asking(policy, s), Listing!Ended(l), ~PageFacet(s, p),
             NEW kind, \A t \in T : kind[t] = KindsOf(r, p, t)
      PROVE  p \in DOMAIN s.answer.facets
             /\ Listing!FacetTrue(l, s.answer.facets[p], WhichFacet(s, p), kind)
  <2>1. Told(s, T, Ask("show", p))
    BY <1>5, EndedTold
  <2>2. Ask("show", p).op = "show" /\ Ask("show", p).of = p
    BY DEF Ask
  <2>3. p \in DOMAIN s.answer.facets /\ \E t, u \in T : FacetTold(s, t, u, p)
    BY <1>5, <2>1, <2>2 DEF Told
  <2>4. PICK t \in T, u \in T : FacetTold(s, t, u, p)
    BY <2>3
  <2>5. Tells(s.answer.facets[p], kind[t], u.kinds, WhichFacet(s, p))
    BY <1>5, <2>4 DEF FacetTold
  <2> QED
    BY <1>2, <2>3, <2>5, Same DEF Listing!FacetTrue, Tells
<1>6. ASSUME Listing!Ended(l), r.facet # "none", ~r.idSet
      PROVE  Listing!WholeFacet(l)
  <2> DEFINE kind == [t \in T |-> [m \in Listing!Selected(t, r) |-> t.member[m]]]
  <2>1. Ask("show", 0) \in Asking(policy, s)
    BY <1>6 DEF Listing!Ended, Asking, AskedOf, Ask, Queryable, Ops
  <2>2. ~PageFacet(s, 0) /\ WhichFacet(s, 0) = r.facet
    BY <1>6 DEF PageFacet, WhichFacet
  <2>3. \A t \in T : kind[t] = KindsOf(r, 0, t)
    BY DEF KindsOf
  <2> HIDE DEF kind
  <2>4. 0 \in DOMAIN s.answer.facets /\ Listing!FacetTrue(l, s.answer.facets[0], r.facet, kind)
    BY <1>5, <1>6, <2>1, <2>2, <2>3
  <2> QED
    BY <1>2, <2>4 DEF Listing!WholeFacet, kind
<1>7. ASSUME Listing!Ended(l), NEW load \in r.load, load.facet # "none"
      PROVE  Listing!ChildFacets(l, load)
  <2>1. load = LoadOf(s) /\ r.load # {} /\ load = CHOOSE y \in r.load : TRUE
    BY <1>1, <1>7, OneLoad DEF Called, LoadOf
  <2>2. ASSUME NEW p \in Members(x)
        PROVE  Listing!FacetTrue(l, s.answer.facets[p], load.facet,
                 [t \in T |-> [c \in Listing!ChildrenOf(t, p) |-> t.child[c].kind]])
    <3> DEFINE kinds == [t \in T |-> [c \in Listing!ChildrenOf(t, p) |-> t.child[c].kind]]
    <3>1. p \in Int /\ p # 0
      BY <1>1, RowIds DEF Called
    <3>2. Ask("show", p) \in Asking(policy, s)
      BY <1>7, <2>1, <3>1 DEF Listing!Ended, Asking, AskedOf, Ask, Queryable, Ops
    <3>3. ~PageFacet(s, p) /\ WhichFacet(s, p) = load.facet
      BY <2>1, <3>1 DEF PageFacet, WhichFacet
    <3>4. \A t \in T : kinds[t] = KindsOf(r, p, t)
      BY <3>1 DEF KindsOf
    <3> HIDE DEF kinds
    <3>5. Listing!FacetTrue(l, s.answer.facets[p], load.facet, kinds)
      BY <1>5, <1>7, <3>2, <3>3, <3>4
    <3> QED
      BY <3>5 DEF kinds
  <2> QED
    BY <1>2, <2>2 DEF Listing!ChildFacets
<1> QED
  BY <1>3, <1>4, <1>5, <1>6, <1>7

\* However the statements of the lists fall between the writes of others, the
\* related rows of an answer and the numbers beside them are those of moments of
\* its call.
THEOREM AnswersSafe == AnySpec => []AnswerTrue
<1>1. AnyInit => ListsInv
  BY ListsStart DEF AnyInit
<1>2. ListsInv /\ [AnyNext]_<<inPlay, vars, listVars>> => ListsInv'
  <2> SUFFICES ASSUME ListsInv, [AnyNext]_<<inPlay, vars, listVars>>
               PROVE  ListsInv'
    OBVIOUS
  <2>1. [Listing!Next]_listVars
    BY DEF AnyNext
  <2> QED
    BY <2>1, ListsStep
<1>3. ListsInv => AnswerTrue
  BY RelatedAreTrue, CountsAreTrue DEF AnswerTrue, Listing!AnswerTrue
<1> QED
  BY <1>1, <1>2, <1>3, PTL DEF AnySpec
=============================================================================
