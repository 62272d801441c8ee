-------------------------- MODULE ResourcesProofs --------------------------
(***************************************************************************)
(* What the runs of MCResources check on small instances, for every set of *)
(* contexts, threads, tasks and calls, every lease, time, result and size: *)
(* one section for each component.  A behaviour has one component in play, *)
(* so each invariant is kept by that component's steps and by leaving its  *)
(* variables alone.  The theorems about MutationPolicy are of its own      *)
(* Spec, which every behaviour of MCResources satisfies (PolicyInPlay).    *)
(***************************************************************************)
EXTENDS MCResources, FiniteSetTheorems, SequenceTheorems, WellFoundedInduction, TLAPS

-----------------------------------------------------------------------------
(* Local lock *)

LockCall == [pc : {"idle", "asleep"}, deadline : Nat, lease : Nat, wake : Nat, notified : BOOLEAN]

LockType ==
  /\ clock \in 0 .. MaxClock
  /\ lock \subseteq [owner : Contexts, expires : Nat]
  /\ \A k, l \in lock : k = l
  /\ caller \in [Contexts -> LockCall]
  /\ granted \in [Contexts -> Nat]
  /\ shortened \in BOOLEAN

\* Whose lease runs has the entry, and the entry ends with the lease.
LeaseInv ==
  \A c \in Contexts : Lock!Holds(c) => \E l \in lock : l.owner = c /\ l.expires = granted[c]

\* A sleeper is due by its deadline, and before then another's entry lasts until it is.
SleepInv ==
  \A c \in Contexts : caller[c].pc = "asleep" /\ ~caller[c].notified /\ ~shortened =>
    /\ caller[c].wake <= caller[c].deadline
    /\ clock >= caller[c].wake \/ \E l \in lock : l.owner # c /\ l.expires >= caller[c].wake

LockInv == LockType /\ LeaseInv /\ SleepInv

\* A finite set of numbers has a greatest: the one whose set of numbers from it on
\* has no smaller one in it.
LEMMA GreatestElement ==
  ASSUME NEW S, S \subseteq Nat, S # {}, IsFiniteSet(S)
  PROVE  \E m \in S : \A n \in S : m >= n
<1> DEFINE above(m) == {n \in S : n >= m}
           all == {above(m) : m \in S}
<1>1. all # {} /\ all \subseteq FiniteSubsetsOf(S)
  <2>1. \A m \in S : above(m) \in SUBSET S /\ IsFiniteSet(above(m))
    BY FS_Subset
  <2> QED
    BY <2>1 DEF FiniteSubsetsOf
<1> HIDE DEF all
<1>2. PICK least \in all : \A other \in all : <<other, least>> \notin StrictSubsetOrdering(S)
  BY <1>1, WFMin, FS_StrictSubsetOrderingWellFounded
<1>3. PICK m \in S : least = above(m)
  BY <1>2 DEF all
<1>4. ASSUME NEW n \in S, ~(m >= n)
      PROVE  FALSE
  <2>1. above(n) \in all /\ m \in above(m) /\ m \notin above(n) /\ above(n) \subseteq above(m)
    <3>1. above(n) \in all
      BY DEF all
    <3>2. n \in Nat /\ m \in Nat /\ \A k \in S : k \in Nat
      OBVIOUS
    <3>3. m \in above(m) /\ m \notin above(n)
      BY <1>4, <3>2
    <3>4. \A k \in S : k >= n => k >= m
      BY <1>4, <3>2
    <3>5. above(n) \subseteq above(m)
      BY <3>4
    <3> QED
      BY <3>1, <3>3, <3>5
  <2>2. <<above(n), least>> \in StrictSubsetOrdering(S)
    BY <1>3, <2>1 DEF StrictSubsetOrdering
  <2> QED
    BY <1>2, <2>1, <2>2
<1> QED
  BY <1>3, <1>4

\* The least of two numbers.
LEMMA MinOfTwo ==
  ASSUME NEW m \in Int, NEW n \in Int
  PROVE  /\ Lock!Min({m, n}) = IF m <= n THEN m ELSE n
         /\ Stream!Min({m, n}) = IF m <= n THEN m ELSE n
         /\ Storage!Min({m, n}) = IF m <= n THEN m ELSE n
<1> DEFINE least == IF m <= n THEN m ELSE n
<1>1. least \in {m, n} /\ \A k \in {m, n} : least <= k
  OBVIOUS
<1>2. \A k \in {m, n} : (\A l \in {m, n} : k <= l) => k = least
  OBVIOUS
<1> QED
  BY <1>1, <1>2 DEF Lock!Min, Stream!Min, Storage!Min

\* Never is a time after every other.
LEMMA NeverLate == Lock!Never \in Nat /\ Lock!Never > MaxClock
<1> DEFINE T == Timeouts \cup Leases
<1>1. T \subseteq Nat /\ T # {} /\ IsFiniteSet(T) /\ MaxClock \in Nat
  BY TimesAssumption DEF TimesAssumption
<1> HIDE DEF T
<1>2. PICK m \in T : \A n \in T : m >= n
  BY <1>1, GreatestElement
<1>3. Lock!Max(T) \in T
  BY <1>2 DEF Lock!Max
<1>4. Lock!Max(T) \in Nat
  BY <1>1, <1>3
<1> QED
  BY <1>1, <1>4 DEF Lock!Never, T

LEMMA IdleCall == Lock!NotCalling \in LockCall
BY DEF Lock!NotCalling, LockCall

LEMMA LockNumbers ==
  ASSUME LockType
  PROVE  /\ clock \in Nat /\ MaxClock \in Nat
         /\ \A l \in lock : l.owner \in Contexts /\ l.expires \in Nat
         /\ \A c \in Contexts : /\ caller[c] \in LockCall /\ granted[c] \in Nat
                               /\ caller[c].wake \in Nat /\ caller[c].deadline \in Nat
                               /\ caller[c].lease \in Nat
BY TimesAssumption DEF TimesAssumption, LockType, LockCall

LEMMA LockStart == AnyInit => LockInv
<1> SUFFICES ASSUME Lock!LockInit PROVE LockInv
  BY DEF AnyInit
<1>1. LockType
  <2>1. 0 \in 0 .. MaxClock
    BY TimesAssumption DEF TimesAssumption
  <2> QED
    BY <2>1, IdleCall DEF Lock!LockInit, LockType
<1>2. LeaseInv /\ SleepInv
  BY DEF Lock!LockInit, Lock!NotCalling, Lock!Holds, LeaseInv, SleepInv
<1> QED
  BY <1>1, <1>2 DEF LockInv

\* One pass of the loop, by a call that has just come or has slept.
LEMMA LockPass ==
  ASSUME LockInv, NEW c \in Contexts,
         NEW call \in LockCall, Lock!Pass(c, call), UNCHANGED clock
  PROVE  LockInv'
<1> USE DEF LockInv
<1>1. CASE /\ Lock!Available(c)
           /\ lock' = {[owner |-> c, expires |-> Lock!Expiry(call.lease)]}
           /\ granted' = [granted EXCEPT ![c] = Lock!Expiry(call.lease)]
           /\ shortened' = (shortened \/ \E l \in lock : l.owner = c /\ Lock!Expiry(call.lease) < l.expires)
           /\ caller' = [caller EXCEPT ![c] = Lock!NotCalling]
  <2> USE LockNumbers
  <2> DEFINE end == Lock!Expiry(call.lease)
  <2>1. end \in Nat
    BY NeverLate DEF Lock!Expiry, LockCall
  <2> HIDE DEF end
  <2>2. LockType'
    <3>1. lock' \subseteq [owner : Contexts, expires : Nat] /\ \A k, l \in lock' : k = l
      BY <1>1, <2>1 DEF end
    <3>2. caller' \in [Contexts -> LockCall] /\ granted' \in [Contexts -> Nat] /\ shortened' \in BOOLEAN
      BY <1>1, <2>1, IdleCall DEF LockType, end
    <3> QED
      BY <3>1, <3>2 DEF LockType
  <2>3. LeaseInv'
    <3> SUFFICES ASSUME NEW d \in Contexts, Lock!Holds(d)'
                 PROVE  \E l \in lock' : l.owner = d /\ l.expires = granted'[d]
      BY DEF LeaseInv
    <3>1. CASE d = c
      BY <1>1, <3>1 DEF LockType
    <3>2. CASE d # c
      <4>1. Lock!Holds(d) /\ granted[d] > clock
        BY <1>1, <3>2 DEF Lock!Holds, LockType
      <4>2. PICK l \in lock : l.owner = d /\ l.expires = granted[d]
        BY <4>1 DEF LeaseInv
      <4> QED
        BY <1>1, <3>2, <4>1, <4>2 DEF Lock!Available, LockType
    <3> QED
      BY <3>1, <3>2
  <2>4. SleepInv'
    <3> SUFFICES ASSUME NEW d \in Contexts, caller'[d].pc = "asleep", ~caller'[d].notified, ~shortened'
                 PROVE  /\ caller'[d].wake <= caller'[d].deadline
                        /\ \/ clock >= caller'[d].wake
                           \/ \E l \in lock' : l.owner # d /\ l.expires >= caller'[d].wake
      BY DEF SleepInv
    <3>1. d # c /\ caller'[d] = caller[d]
      BY <1>1 DEF LockType, Lock!NotCalling
    <3>2. /\ caller[d].wake <= caller[d].deadline
          /\ clock >= caller[d].wake \/ \E l \in lock : l.owner # d /\ l.expires >= caller[d].wake
      BY <1>1, <3>1 DEF SleepInv
    <3>3. CASE clock >= caller[d].wake
      BY <3>1, <3>2, <3>3
    <3>4. ASSUME NEW l \in lock, l.owner # d, l.expires >= caller[d].wake
          PROVE  clock >= caller[d].wake \/ end >= caller[d].wake
      <4>1. CASE clock >= l.expires
        BY <3>4, <4>1
      <4>2. CASE l.owner = c
        <5>1. ~(end < l.expires)
          BY <1>1, <4>2 DEF end
        <5>2. end \in Nat /\ l.expires \in Nat /\ caller[d].wake \in Nat
          BY <2>1
        <5> QED
          BY <3>4, <5>1, <5>2
      <4> QED
        BY <1>1, <4>1, <4>2 DEF Lock!Available
    <3>5. end >= caller[d].wake \/ clock >= caller[d].wake
      BY <3>2, <3>4
    <3> QED
      BY <1>1, <3>1, <3>2, <3>5 DEF end
  <2> QED
    BY <2>2, <2>3, <2>4
<1>2. CASE /\ ~Lock!Available(c)
           /\ call.deadline <= clock
           /\ caller' = [caller EXCEPT ![c] = Lock!NotCalling]
           /\ UNCHANGED <<lock, granted, shortened>>
  <2>1. LockType'
    BY <1>2, IdleCall DEF LockType
  <2>2. LeaseInv'
    BY <1>2 DEF LeaseInv, Lock!Holds
  <2>3. SleepInv'
    BY <1>2 DEF SleepInv, Lock!NotCalling, LockType
  <2> QED
    BY <2>1, <2>2, <2>3
<1>3. CASE /\ ~Lock!Available(c)
           /\ call.deadline > clock
           /\ caller' = [caller EXCEPT ![c] =
                [call EXCEPT !.pc = "asleep", !.notified = FALSE,
                             !.wake = Lock!Min({call.deadline} \cup {l.expires : l \in lock})]]
           /\ UNCHANGED <<lock, granted, shortened>>
  <2> USE LockNumbers
  <2>1. PICK l \in lock : clock < l.expires /\ l.owner # c
    BY <1>3 DEF Lock!Available, LockType
  <2>2. {call.deadline} \cup {k.expires : k \in lock} = {call.deadline, l.expires}
    BY <2>1 DEF LockType
  <2> DEFINE wake == Lock!Min({call.deadline} \cup {k.expires : k \in lock})
             slept == [call EXCEPT !.pc = "asleep", !.notified = FALSE, !.wake = wake]
  <2>0. caller' = [caller EXCEPT ![c] = slept]
    BY <1>3
  <2>7. wake = IF call.deadline <= l.expires THEN call.deadline ELSE l.expires
    <3>1. call.deadline \in Int /\ l.expires \in Int
      BY DEF LockCall
    <3> QED
      BY <2>2, <3>1, MinOfTwo
  <2>8. wake \in Nat
    BY <2>7 DEF LockCall
  <2> HIDE DEF wake
  <2>9. slept \in LockCall /\ slept.wake = wake /\ slept.deadline = call.deadline
    BY <2>8 DEF LockCall
  <2> HIDE DEF slept
  <2>3. caller'[c] = slept
    BY <2>0 DEF LockType
  <2>4. LockType'
    BY <1>3, <2>0, <2>9 DEF LockType
  <2>5. LeaseInv'
    BY <1>3 DEF LeaseInv, Lock!Holds
  <2>6. SleepInv'
    <3> SUFFICES ASSUME NEW d \in Contexts, caller'[d].pc = "asleep", ~caller'[d].notified, ~shortened'
                 PROVE  /\ caller'[d].wake <= caller'[d].deadline
                        /\ \/ clock >= caller'[d].wake
                           \/ \E k \in lock : k.owner # d /\ k.expires >= caller'[d].wake
      BY <1>3 DEF SleepInv
    <3>1. CASE d = c
      <4>1. call.deadline \in Nat
        BY DEF LockCall
      <4> QED
        BY <2>1, <2>3, <2>7, <2>9, <3>1, <4>1
    <3>2. CASE d # c
      BY <1>3, <2>0, <3>2 DEF SleepInv, LockType
    <3> QED
      BY <3>1, <3>2
  <2> QED
    BY <2>4, <2>5, <2>6
<1> QED
  BY <1>1, <1>2, <1>3 DEF Lock!Pass

LEMMA LockStep ==
  ASSUME LockInv, Lock!LockNext
  PROVE  LockInv'
<1> USE DEF LockInv
<1>1. ASSUME Lock!Tick
      PROVE  LockInv'
  <2>1. LockType'
    BY <1>1, TimesAssumption DEF TimesAssumption, Lock!Tick, LockType
  <2>2. LeaseInv' /\ SleepInv'
    BY <1>1, LockNumbers DEF Lock!Tick, LeaseInv, SleepInv, Lock!Holds
  <2> QED
    BY <2>1, <2>2
<1>2. ASSUME NEW c \in Contexts, Lock!TryLock(c)
      PROVE  LockInv'
  <2>1. PICK timeout \in Timeouts, lease \in Leases :
          Lock!Pass(c, [Lock!NotCalling EXCEPT !.deadline = clock + timeout, !.lease = lease])
    BY <1>2 DEF Lock!TryLock
  <2>2. [Lock!NotCalling EXCEPT !.deadline = clock + timeout, !.lease = lease]
          \in LockCall
    <3>1. clock + timeout \in Nat /\ lease \in Nat
      BY TimesAssumption DEF TimesAssumption, LockType
    <3> QED
      BY <3>1, IdleCall DEF LockCall, Lock!NotCalling
  <2>3. UNCHANGED clock
    BY <1>2 DEF Lock!TryLock
  <2> QED
    BY <2>1, <2>2, <2>3, LockPass
<1>3. ASSUME NEW c \in Contexts, Lock!Wake(c)
      PROVE  LockInv'
  <2>1. Lock!Pass(c, caller[c]) /\ UNCHANGED clock
    BY <1>3 DEF Lock!Wake
  <2>2. caller[c] \in LockCall
    BY DEF LockType
  <2> QED
    BY <2>1, <2>2, LockPass
<1>4. ASSUME NEW c \in Contexts, Lock!Unlock(c)
      PROVE  LockInv'
  <2> DEFINE woken(d) == [caller[d] EXCEPT !.notified = @ \/ caller[d].pc = "asleep"]
  <2>1. /\ granted' = [granted EXCEPT ![c] = 0]
        /\ UNCHANGED <<clock, shortened>>
    BY <1>4 DEF Lock!Unlock
  <2>2. CASE /\ \E l \in lock : l.owner = c
             /\ lock' = {}
             /\ caller' = [d \in Contexts |-> woken(d)]
    <3>1. \A d \in Contexts : woken(d) \in LockCall /\ (woken(d).pc = "asleep" => woken(d).notified)
      BY LockNumbers DEF LockCall
    <3>2. LockType'
      BY <2>1, <2>2, <3>1 DEF LockType
    <3>3. LeaseInv'
      BY <2>1, <2>2, LockNumbers DEF LeaseInv, LockType, Lock!Holds
    <3>4. SleepInv'
      BY <2>2, <3>1 DEF SleepInv
    <3> QED
      BY <3>2, <3>3, <3>4
  <2>3. CASE ~(\E l \in lock : l.owner = c) /\ UNCHANGED <<lock, caller>>
    BY <2>1, <2>3, LockNumbers DEF LockType, LeaseInv, SleepInv, Lock!Holds
  <2> QED
    BY <1>4, <2>2, <2>3 DEF Lock!Unlock
<1> QED
  BY <1>1, <1>2, <1>3, <1>4 DEF Lock!LockNext

\* Contexts that take, renew, lose and give back the lock in any order never hold
\* running leases together, and none sleeps on while it is to be had (try_local_lock,
\* unlock_local).
THEOREM LockSafe == AnySpec => []LeasesHonored
<1>1. LockInv /\ [AnyNext]_allVars => LockInv'
  <2> SUFFICES ASSUME LockInv, [AnyNext]_allVars PROVE LockInv'
    OBVIOUS
  <2>1. CASE Lock!LockNext
    BY <2>1, LockStep
  <2>2. CASE UNCHANGED lockVars
    BY <2>2 DEF lockVars, LockInv, LockType, LeaseInv, SleepInv, Lock!Holds
  <2> QED
    BY <2>1, <2>2 DEF AnyNext, allVars
<1>2. LockInv => LeasesHonored
  <2> SUFFICES ASSUME LockInv PROVE LeasesHonored
    OBVIOUS
  <2>1. ASSUME NEW c \in Contexts, NEW d \in Contexts, Lock!Holds(c), Lock!Holds(d)
        PROVE  c = d
    BY <2>1 DEF LockInv, LockType, LeaseInv
  <2>2. ASSUME NEW c \in Contexts, caller[c].pc = "asleep", ~shortened, ~caller[c].notified,
               Lock!Available(c) \/ clock >= caller[c].deadline
        PROVE  clock >= caller[c].wake
    <3>1. caller[c].wake \in Nat /\ caller[c].deadline \in Nat /\ clock \in Nat
      BY LockNumbers DEF LockInv
    <3>2. /\ caller[c].wake <= caller[c].deadline
          /\ clock >= caller[c].wake \/ \E l \in lock : l.owner # c /\ l.expires >= caller[c].wake
      BY <2>2 DEF LockInv, SleepInv
    <3>3. \A l \in lock : l.expires \in Nat
      BY LockNumbers DEF LockInv
    <3> QED
      BY <2>2, <3>1, <3>2, <3>3 DEF Lock!Available
  <2> QED
    BY <2>1, <2>2 DEF LeasesHonored, Lock!LeasesHonored
<1> QED
  BY LockStart, <1>1, <1>2, PTL DEF AnySpec

-----------------------------------------------------------------------------
(* Object storage *)

StorageType ==
  /\ size \in Nat /\ got \in Nat
  /\ raw \in [left : Nat, open : BOOLEAN]
  /\ content \in [remaining : Nat, ended : BOOLEAN, closed : BOOLEAN]
  /\ receipt \in {<<>>, <<"success">>, <<"io">>, <<"cancelled">>}
  /\ reader = {} \/ \E n \in Reads : reader = {n}
  /\ closer \in {"idle", "closing"}

\* Nobody reads past the end, and the end has been reported.
EndInv ==
  /\ reader # {} => ~content.ended
  /\ content.ended => receipt # <<>> /\ content.remaining = 0
  /\ receipt = <<"success">> => content.ended

\* Who closed the stream, by hand or by a failure, has reported it and closed the
\* provider's, read or not.
ClosedInv == content.closed /\ closer = "idle" => receipt # <<>> /\ ~raw.open

StorageInv == StorageType /\ EndInv /\ ClosedInv /\ got + content.remaining = size

LEMMA StorageStart == AnyInit => StorageInv
<1> SUFFICES ASSUME Storage!StorageInit PROVE StorageInv
  BY DEF AnyInit
<1>1. Sizes \subseteq Nat
  BY BlocksAssumption DEF BlocksAssumption
<1>2. StorageType
  BY <1>1 DEF Storage!StorageInit, StorageType
<1> QED
  BY <1>1, <1>2 DEF Storage!StorageInit, StorageInv, EndInv, ClosedInv

\* What a read that failed leaves behind.
LEMMA StorageFail ==
  ASSUME StorageInv, reader # {}, Storage!Fail, reader' = {}, UNCHANGED <<size, closer>>
  PROVE  StorageInv'
<1>1. /\ receipt' = IF receipt = <<>> THEN <<"io">> ELSE receipt
      /\ content' = [content EXCEPT !.closed = TRUE]
      /\ raw' = [raw EXCEPT !.open = FALSE]
      /\ got' = got
  BY DEF Storage!Fail, Storage!FinishReceipt
<1>2. StorageType'
  BY <1>1 DEF StorageInv, StorageType
<1>3. content'.remaining = content.remaining /\ content'.ended = content.ended /\ ~raw'.open
  BY <1>1 DEF StorageInv, StorageType
<1> QED
  BY <1>1, <1>2, <1>3 DEF StorageInv, StorageType, EndInv, ClosedInv

\* What a block that came leaves behind.
LEMMA StorageAccept ==
  ASSUME StorageInv, reader # {}, NEW n, NEW k \in Nat, k <= raw.left, raw.open,
         Storage!Accept(n, k), reader' = {}, UNCHANGED <<size, closer>>
  PROVE  StorageInv'
<1> DEFINE due == content.remaining - k
           last == k = 0 \/ n = AllOf
<1>1. CASE k > content.remaining \/ (last /\ due # 0)
  BY <1>1, StorageFail DEF Storage!Accept
<1>2. CASE ~(k > content.remaining \/ (last /\ due # 0))
  <2>1. /\ content' = [content EXCEPT !.remaining = due, !.ended = last]
        /\ got' = got + k
        /\ raw' = [raw EXCEPT !.left = @ - k]
        /\ receipt' = IF last /\ receipt = <<>> THEN <<"success">> ELSE receipt
    BY <1>2 DEF Storage!Accept, Storage!FinishReceipt
  <2>2. content.remaining \in Nat /\ raw.left \in Nat /\ got \in Nat /\ size \in Nat /\ due \in Nat
    BY <1>2 DEF StorageInv, StorageType
  <2>3. (last => due = 0) /\ last \in BOOLEAN
    BY <1>2
  <2> HIDE DEF due, last
  <2>4. /\ content' \in [remaining : Nat, ended : BOOLEAN, closed : BOOLEAN]
        /\ content'.remaining = due /\ content'.ended = last /\ content'.closed = content.closed
    BY <2>1, <2>2, <2>3 DEF StorageInv, StorageType
  <2>5. raw' \in [left : Nat, open : BOOLEAN] /\ raw'.open = raw.open
    <3>1. raw.left - k \in Nat
      BY <2>2
    <3> QED
      BY <2>1, <3>1 DEF StorageInv, StorageType
  <2>6. StorageType'
    BY <2>1, <2>2, <2>4, <2>5 DEF StorageInv, StorageType
  <2>7. got' + content'.remaining = size'
    BY <2>1, <2>2, <2>4 DEF StorageInv, due
  <2>8. EndInv' /\ ClosedInv'
    BY <2>1, <2>3, <2>4, <2>5 DEF StorageInv, StorageType, EndInv, ClosedInv
  <2> QED
    BY <2>6, <2>7, <2>8 DEF StorageInv
<1> QED
  BY <1>1, <1>2

LEMMA StorageStep ==
  ASSUME StorageInv, Storage!StorageNext
  PROVE  StorageInv'
<1>1. ASSUME NEW n \in Reads, Storage!Read(n)
      PROVE  StorageInv'
  BY <1>1 DEF Storage!Read, StorageInv, StorageType, EndInv, ClosedInv
<1>2. ASSUME Storage!ReadReturns
      PROVE  StorageInv'
  <2>1. PICK n \in reader : /\ raw.open
                            /\ \E k \in 0 .. Storage!Min({raw.left, n}) : Storage!Accept(n, k)
    BY <1>2 DEF Storage!ReadReturns
  <2>2. PICK k \in 0 .. Storage!Min({raw.left, n}) : Storage!Accept(n, k)
    BY <2>1
  <2>3. n \in Nat /\ raw.left \in Nat
    BY BlocksAssumption DEF BlocksAssumption, StorageInv, StorageType
  <2>4. k \in Nat /\ k <= raw.left
    <3>1. raw.left \in Int /\ n \in Int
      BY <2>3
    <3>2. Storage!Min({raw.left, n}) = IF raw.left <= n THEN raw.left ELSE n
      BY <3>1, MinOfTwo
    <3> QED
      BY <2>3, <3>2
  <2>5. reader' = {} /\ UNCHANGED <<size, closer>>
    BY <1>2 DEF Storage!ReadReturns
  <2> QED
    BY <2>1, <2>2, <2>4, <2>5, StorageAccept
<1>3. ASSUME Storage!ReadRaises
      PROVE  StorageInv'
  BY <1>3, StorageFail DEF Storage!ReadRaises
<1>4. ASSUME Storage!Close
      PROVE  StorageInv'
  BY <1>4 DEF Storage!Close, StorageInv, StorageType, EndInv, ClosedInv
<1>5. ASSUME Storage!CloseEnds
      PROVE  StorageInv'
  <2>1. PICK outcome \in {"cancelled", "io"} : receipt' = IF receipt = <<>> THEN <<outcome>> ELSE receipt
    BY <1>5 DEF Storage!CloseEnds, Storage!FinishReceipt
  <2>2. /\ closer' = "idle" /\ raw' = [raw EXCEPT !.open = FALSE]
        /\ UNCHANGED <<size, content, reader, got>>
    BY <1>5 DEF Storage!CloseEnds
  <2>3. receipt' # <<>> /\ (receipt' = <<"success">> => receipt = <<"success">>)
    BY <2>1
  <2>4. StorageType' /\ ~raw'.open
    BY <2>1, <2>2 DEF StorageInv, StorageType
  <2> QED
    BY <2>2, <2>3, <2>4 DEF StorageInv, StorageType, EndInv, ClosedInv
<1> QED
  BY <1>1, <1>2, <1>3, <1>4, <1>5 DEF Storage!StorageNext

\* However reads, failures and a close interleave, the receipt reports one outcome,
\* "success" only for the whole object, and every closed stream is accounted for
\* (_Receipt, _ObservedStream).
THEOREM ReceiptSafe == AnySpec => []ReceiptHonest
<1>1. StorageInv /\ [AnyNext]_allVars => StorageInv'
  <2> SUFFICES ASSUME StorageInv, [AnyNext]_allVars PROVE StorageInv'
    OBVIOUS
  <2>1. CASE Storage!StorageNext
    BY <2>1, StorageStep
  <2>2. CASE UNCHANGED storageVars
    BY <2>2 DEF storageVars, StorageInv, StorageType, EndInv, ClosedInv
  <2> QED
    BY <2>1, <2>2 DEF AnyNext, allVars
<1>2. StorageInv => ReceiptHonest
  <2> SUFFICES ASSUME StorageInv PROVE Storage!ReceiptHonest
    BY DEF ReceiptHonest
  <2>1. Len(receipt) <= 1
    <3>1. receipt \in {<<>>, <<"success">>, <<"io">>, <<"cancelled">>}
      BY DEF StorageInv, StorageType
    <3>2. CASE receipt = <<>>
      BY <3>2
    <3>3. ASSUME NEW outcome, receipt = <<outcome>>
          PROVE  Len(receipt) <= 1
      BY <3>3
    <3> QED
      BY <3>1, <3>2, <3>3
  <2> QED
    BY <2>1 DEF StorageInv, StorageType, EndInv, ClosedInv, Storage!ReceiptHonest
<1> QED
  BY StorageStart, <1>1, <1>2, PTL DEF AnySpec

-----------------------------------------------------------------------------
(* Typed stream *)

Outcomes == {"success", "failure", "cancelled"}

CursorType == [pending : Nat, connection : {"none", "open", "closed"},
               statement : {"none", "open"} \cup Outcomes]
ScopeType == [closed : BOOLEAN, busy : BOOLEAN, rows : Nat, delivered : Nat,
              scope : {"none", "open"} \cup Outcomes]

StreamType ==
  /\ left \in Nat /\ total \in Nat
  /\ cursor \in CursorType /\ stream \in ScopeType
  /\ polling \in [Tasks -> {"none", "fetch", "hydrate", "close"}]

\* The busy flag is the task that awaits something.
BusyInv ==
  /\ stream.busy <=> \E t \in Tasks : polling[t] # "none"
  /\ \A s, t \in Tasks : polling[s] # "none" /\ polling[t] # "none" => s = t

\* What is open while that task awaits it.
PollInv ==
  \A t \in Tasks :
    /\ polling[t] = "fetch" =>
         /\ ~stream.closed /\ stream.rows = 0 /\ stream.scope = "open"
         /\ cursor.connection # "closed" /\ cursor.statement = "open"
    /\ polling[t] \in {"hydrate", "close"} =>
         /\ stream.closed /\ stream.scope \notin Outcomes
         /\ cursor.connection = "open" /\ cursor.statement \notin Outcomes

\* A stream that goes on has its rows ahead of it, and nothing of it has ended.
OpenInv ==
  ~stream.closed =>
    /\ stream.delivered + stream.rows + cursor.pending + left = total
    /\ stream.scope \notin Outcomes /\ cursor.statement \notin Outcomes
    /\ cursor.connection = "closed" => cursor.pending = 0 /\ left = 0
    /\ cursor.connection # "none" => cursor.statement # "none"
    /\ cursor.connection = "none" => cursor.pending = 0 /\ stream.rows = 0

\* One that is closed and not busy left nothing open, and succeeded only when whole.
SettledInv ==
  /\ stream.closed /\ ~stream.busy =>
       cursor.connection # "open" /\ "open" \notin {stream.scope, cursor.statement}
  /\ stream.scope = "success" => stream.delivered = total /\ cursor.statement = "success"
  /\ cursor.statement = "success" =>
       stream.delivered = total /\ stream.scope \in {"success", "failure"}

StreamInv == StreamType /\ BusyInv /\ PollInv /\ OpenInv /\ SettledInv

LEMMA StreamStart == AnyInit => StreamInv
<1> SUFFICES ASSUME Stream!StreamInit PROVE StreamInv
  BY DEF AnyInit
<1>1. left \in Nat
  BY ChunksAssumption DEF ChunksAssumption, Stream!StreamInit
<1>2. StreamType
  BY <1>1 DEF Stream!StreamInit, StreamType, CursorType, ScopeType
<1>3. BusyInv /\ PollInv
  BY DEF Stream!StreamInit, BusyInv, PollInv
<1>4. OpenInv /\ SettledInv
  BY <1>1 DEF Stream!StreamInit, OpenInv, SettledInv, Outcomes
<1> QED
  BY <1>2, <1>3, <1>4 DEF StreamInv

\* A stream that ends with task t and leaves nothing open.
LEMMA StreamEnds ==
  ASSUME StreamInv, NEW t \in Tasks, NEW s \in ScopeType, NEW outcome \in {"none"} \cup Outcomes,
         \A u \in Tasks : u # t => polling[u] = "none",
         stream' = Stream!Ended(s, outcome), polling' = [polling EXCEPT ![t] = "none"],
         cursor' \in CursorType, cursor'.connection # "open", cursor'.statement # "open",
         outcome = "success" => s.delivered = total /\ cursor'.statement = "success",
         cursor'.statement = "success" => s.delivered = total /\ outcome \in {"success", "failure"},
         left' \in Nat, total' = total
  PROVE  StreamInv'
<1>1. /\ stream' \in ScopeType /\ stream'.closed /\ ~stream'.busy
      /\ stream'.scope = outcome /\ stream'.delivered = s.delivered
  BY DEF Stream!Ended, ScopeType
<1>2. \A u \in Tasks : polling'[u] = "none"
  BY DEF StreamInv, StreamType
<1>3. StreamType'
  BY <1>1 DEF StreamInv, StreamType
<1>4. BusyInv' /\ PollInv' /\ OpenInv'
  BY <1>1, <1>2 DEF BusyInv, PollInv, OpenInv
<1>5. SettledInv'
  BY <1>1 DEF SettledInv, Outcomes
<1> QED
  BY <1>3, <1>4, <1>5 DEF StreamInv

\* A stream that is closed and waits for its cursor to close.
LEMMA StreamWaits ==
  ASSUME StreamInv, NEW t \in Tasks, NEW s \in ScopeType, NEW why \in {"hydrate", "close"},
         \A u \in Tasks : u # t => polling[u] = "none",
         stream' = [Stream!Busy(s) EXCEPT !.closed = TRUE], polling' = [polling EXCEPT ![t] = why],
         s.scope \notin Outcomes,
         cursor' \in CursorType, cursor'.connection = "open", cursor'.statement \notin Outcomes,
         left' \in Nat, total' = total
  PROVE  StreamInv'
<1>1. /\ stream' \in ScopeType /\ stream'.closed /\ stream'.busy
      /\ stream'.scope = s.scope
  BY DEF Stream!Busy, ScopeType
<1>2. polling'[t] = why /\ \A u \in Tasks : u # t => polling'[u] = "none"
  BY DEF StreamInv, StreamType
<1>3. StreamType'
  BY <1>1 DEF StreamInv, StreamType
<1>4. BusyInv' /\ PollInv' /\ OpenInv'
  BY <1>1, <1>2 DEF BusyInv, PollInv, OpenInv
<1>5. SettledInv'
  BY <1>1 DEF SettledInv, Outcomes
<1> QED
  BY <1>3, <1>4, <1>5 DEF StreamInv

\* The next row is delivered, or hydrate raises.
LEMMA StreamDeliver ==
  ASSUME StreamInv, NEW t \in Tasks, NEW s \in ScopeType, NEW c \in CursorType,
         Stream!Deliver(t, s, c),
         \A u \in Tasks : u # t => polling[u] = "none",
         ~s.closed, s.rows > 0, s.scope = "open",
         c.statement = "open", c.connection # "none",
         left' \in Nat, total' = total,
         s.delivered + s.rows + c.pending + left' = total,
         c.connection = "closed" => c.pending = 0 /\ left' = 0
  PROVE  StreamInv'
<1>1. CASE /\ stream' = [s EXCEPT !.busy = FALSE, !.rows = @ - 1, !.delivered = @ + 1]
           /\ polling' = [polling EXCEPT ![t] = "none"]
           /\ cursor' = c
  <2>1. s.rows \in Nat /\ s.delivered \in Nat /\ c.pending \in Nat /\ s.rows - 1 \in Nat
    BY DEF ScopeType, CursorType
  <2>2. /\ stream' \in ScopeType /\ ~stream'.closed /\ ~stream'.busy /\ stream'.scope = "open"
        /\ stream'.rows = s.rows - 1 /\ stream'.delivered = s.delivered + 1
    <3> DEFINE fewer == s.rows - 1
               more == s.delivered + 1
    <3>1. fewer \in Nat /\ more \in Nat
      BY <2>1
    <3>2. stream' = [s EXCEPT !.busy = FALSE, !.rows = fewer, !.delivered = more]
      BY <1>1
    <3> HIDE DEF fewer, more
    <3>3. /\ stream' \in ScopeType /\ ~stream'.closed /\ ~stream'.busy /\ stream'.scope = "open"
          /\ stream'.rows = fewer /\ stream'.delivered = more
      BY <3>1, <3>2 DEF ScopeType
    <3> QED
      BY <3>3 DEF fewer, more
  <2>3. \A u \in Tasks : polling'[u] = "none"
    BY <1>1 DEF StreamInv, StreamType
  <2>4. StreamType'
    BY <1>1, <2>2 DEF StreamInv, StreamType
  <2>5. BusyInv' /\ PollInv'
    BY <2>2, <2>3 DEF BusyInv, PollInv
  <2>6. OpenInv'
    BY <1>1, <2>1, <2>2 DEF StreamInv, StreamType, OpenInv, Outcomes
  <2>7. SettledInv'
    BY <1>1, <2>2 DEF SettledInv
  <2> QED
    BY <2>4, <2>5, <2>6, <2>7 DEF StreamInv
<1>2. CASE /\ c.connection # "open"
           /\ stream' = Stream!Ended(s, "failure")
           /\ polling' = [polling EXCEPT ![t] = "none"]
           /\ cursor' = Stream!EndStatement(c, "cancelled")
  <2>1. cursor' \in CursorType /\ cursor'.connection # "open" /\ cursor'.statement = "cancelled"
    BY <1>2 DEF Stream!EndStatement, CursorType, Outcomes
  <2> QED
    BY <1>2, <2>1, StreamEnds DEF Outcomes
<1>3. CASE /\ c.connection = "open"
           /\ stream' = [Stream!Busy(s) EXCEPT !.closed = TRUE]
           /\ polling' = [polling EXCEPT ![t] = "hydrate"]
           /\ cursor' = c
  BY <1>3, StreamWaits DEF Outcomes
<1> QED
  BY <1>1, <1>2, <1>3 DEF Stream!Deliver

\* The cursor has nothing more to hand on.
LEMMA StreamExhaust ==
  ASSUME StreamInv, NEW t \in Tasks, NEW c \in CursorType, Stream!Exhaust(t, c),
         \A u \in Tasks : u # t => polling[u] = "none",
         c.connection = "closed", c.statement = "success", stream.delivered = total,
         left' \in Nat, total' = total
  PROVE  StreamInv'
<1>1. PICK outcome \in {"success", "failure"} : stream' = Stream!Ended(stream, outcome)
  BY DEF Stream!Exhaust
<1>2. polling' = [polling EXCEPT ![t] = "none"] /\ cursor' = c /\ stream \in ScopeType
  BY DEF Stream!Exhaust, StreamInv, StreamType
<1> QED
  BY <1>1, <1>2, StreamEnds DEF Outcomes

LEMMA StreamPoll ==
  ASSUME StreamInv, NEW t \in Tasks, Stream!Poll(t)
  PROVE  StreamInv'
<1> DEFINE s == [stream EXCEPT !.scope = "open"]
<1>1. /\ ~stream.closed /\ ~stream.busy /\ UNCHANGED <<left, total>>
      /\ \A u \in Tasks : polling[u] = "none"
  BY DEF Stream!Poll, StreamInv, BusyInv
<1>2. /\ s \in ScopeType /\ ~s.closed /\ s.scope = "open" /\ s.rows = stream.rows
      /\ s.delivered = stream.delivered
  BY <1>1 DEF StreamInv, StreamType, ScopeType
<1>3. /\ stream \in ScopeType /\ cursor \in CursorType /\ left \in Nat /\ left' = left /\ total' = total
      /\ stream.rows \in Nat /\ stream.delivered \in Nat /\ cursor.pending \in Nat /\ total \in Nat
  BY <1>1 DEF StreamInv, StreamType, ScopeType, CursorType
<1>4. /\ stream.delivered + stream.rows + cursor.pending + left = total
      /\ stream.scope \notin Outcomes /\ cursor.statement \notin Outcomes
      /\ cursor.connection = "closed" => cursor.pending = 0 /\ left = 0
      /\ cursor.connection # "none" => cursor.statement # "none"
      /\ cursor.connection = "none" => cursor.pending = 0 /\ stream.rows = 0
  BY <1>1 DEF StreamInv, OpenInv
<1>5. stream.rows = 0 \/ (cursor.statement = "open" /\ cursor.connection # "none")
  BY <1>3, <1>4 DEF CursorType
<1> HIDE DEF s
<1>6. CASE s.rows > 0 /\ Stream!Deliver(t, s, cursor)
  <2>1. cursor.statement = "open" /\ cursor.connection # "none"
    BY <1>2, <1>5, <1>6
  <2>2. s.delivered + s.rows + cursor.pending + left' = total
    BY <1>2, <1>3, <1>4
  <2>3. cursor.connection = "closed" => cursor.pending = 0 /\ left' = 0
    BY <1>3, <1>4
  <2>4. left' \in Nat
    BY <1>3
  <2> QED
    BY <1>1, <1>2, <1>3, <1>6, <2>1, <2>2, <2>3, <2>4, StreamDeliver
<1>7. CASE /\ s.rows = 0 /\ cursor.connection = "closed"
           /\ Stream!Exhaust(t, Stream!EndStatement(cursor, "success"))
  <2>1. /\ Stream!EndStatement(cursor, "success") \in CursorType
        /\ Stream!EndStatement(cursor, "success").connection = "closed"
        /\ Stream!EndStatement(cursor, "success").statement = "success"
    BY <1>3, <1>4, <1>7 DEF Stream!EndStatement, CursorType, Outcomes
  <2>2. stream.delivered = total
    BY <1>2, <1>3, <1>4, <1>7
  <2> QED
    BY <1>1, <1>3, <1>7, <2>1, <2>2, StreamExhaust
<1>8. CASE /\ s.rows = 0 /\ cursor.connection # "closed"
           /\ stream' = Stream!Busy(s)
           /\ polling' = [polling EXCEPT ![t] = "fetch"]
           /\ cursor' = [cursor EXCEPT !.statement = "open"]
  <2>1. /\ stream' \in ScopeType /\ ~stream'.closed /\ stream'.busy /\ stream'.scope = "open"
        /\ stream'.rows = s.rows /\ stream'.delivered = s.delivered
    BY <1>2, <1>8 DEF Stream!Busy, ScopeType
  <2>2. /\ cursor' \in CursorType /\ cursor'.connection = cursor.connection
        /\ cursor'.statement = "open" /\ cursor'.pending = cursor.pending
    BY <1>3, <1>8 DEF CursorType
  <2>3. polling'[t] = "fetch" /\ \A u \in Tasks : u # t => polling'[u] = "none"
    BY <1>1, <1>8 DEF StreamInv, StreamType
  <2>4. StreamType'
    BY <1>3, <1>8, <2>1, <2>2 DEF StreamInv, StreamType
  <2>5. BusyInv' /\ PollInv'
    BY <1>8, <2>1, <2>2, <2>3 DEF BusyInv, PollInv
  <2>6. OpenInv' /\ SettledInv'
    BY <1>2, <1>3, <1>4, <2>1, <2>2 DEF OpenInv, SettledInv, Outcomes
  <2> QED
    BY <2>4, <2>5, <2>6 DEF StreamInv
<1>9. CASE /\ cursor.statement = "none"
           /\ stream' = Stream!Ended(s, "failure")
           /\ UNCHANGED <<polling, cursor>>
  <2>1. polling' = [polling EXCEPT ![t] = "none"]
    BY <1>1, <1>9 DEF StreamInv, StreamType
  <2>2. cursor' \in CursorType /\ cursor'.connection # "open" /\ cursor'.statement = "none"
    BY <1>3, <1>4, <1>9
  <2> QED
    BY <1>1, <1>2, <1>3, <1>9, <2>1, <2>2, StreamEnds DEF Outcomes
<1> QED
  BY <1>6, <1>7, <1>8, <1>9 DEF Stream!Poll, s

\* What task t knows while it awaits a chunk.
LEMMA StreamFetching ==
  ASSUME StreamInv, NEW t \in Tasks, polling[t] = "fetch"
  PROVE  /\ stream \in ScopeType /\ cursor \in CursorType /\ left \in Nat /\ total \in Nat
         /\ stream.delivered \in Nat /\ cursor.pending \in Nat
         /\ \A u \in Tasks : u # t => polling[u] = "none"
         /\ ~stream.closed /\ stream.busy /\ stream.rows = 0 /\ stream.scope = "open"
         /\ cursor.connection # "closed" /\ cursor.statement = "open"
         /\ stream.delivered + cursor.pending + left = total
<1>1. /\ stream \in ScopeType /\ cursor \in CursorType /\ left \in Nat /\ total \in Nat
      /\ stream.delivered \in Nat /\ cursor.pending \in Nat
  BY DEF StreamInv, StreamType, ScopeType, CursorType
<1>2. /\ \A u \in Tasks : u # t => polling[u] = "none"
      /\ ~stream.closed /\ stream.busy /\ stream.rows = 0 /\ stream.scope = "open"
      /\ cursor.connection # "closed" /\ cursor.statement = "open"
  BY DEF StreamInv, BusyInv, PollInv
<1>3. stream.delivered + cursor.pending + left = total
  BY <1>1, <1>2 DEF StreamInv, OpenInv
<1> QED
  BY <1>1, <1>2, <1>3

\* The stream is about to hand on the pending chunk.
LEMMA StreamHandsOn ==
  ASSUME StreamInv, NEW t \in Tasks, polling[t] = "fetch", cursor.pending > 0
  PROVE  LET s == [stream EXCEPT !.rows = cursor.pending] IN
         /\ s \in ScopeType /\ ~s.closed /\ s.scope = "open" /\ s.rows = cursor.pending
         /\ s.delivered = stream.delivered
BY StreamFetching DEF ScopeType

LEMMA StreamChunk ==
  ASSUME StreamInv, NEW t \in Tasks, Stream!FetchChunk(t)
  PROVE  StreamInv'
<1> DEFINE chunk == Stream!Min({left, ChunkSize})
           c == [cursor EXCEPT !.connection = "open", !.pending = chunk]
           s == [stream EXCEPT !.rows = cursor.pending]
<1>1. polling[t] = "fetch" /\ left > 0 /\ left' = left - chunk /\ total' = total
  BY DEF Stream!FetchChunk
<1> USE StreamFetching
<1>2. left \in Int /\ ChunkSize \in Int /\ ChunkSize > 0
  BY <1>1, ChunksAssumption DEF ChunksAssumption
<1>3. chunk = IF left <= ChunkSize THEN left ELSE ChunkSize
  BY <1>2, MinOfTwo
<1>4. chunk \in Nat /\ left' \in Nat /\ chunk + left' = left
  BY <1>1, <1>2, <1>3
<1> HIDE DEF chunk
<1>5. /\ c \in CursorType /\ c.connection = "open" /\ c.statement = "open" /\ c.pending = chunk
  BY <1>1, <1>4 DEF CursorType
<1> HIDE DEF c, s
<1>6. CASE cursor.pending = 0 /\ cursor' = c /\ UNCHANGED <<stream, polling>>
  <2>1. StreamType' /\ BusyInv'
    BY <1>1, <1>4, <1>5, <1>6 DEF StreamInv, StreamType, BusyInv
  <2>2. PollInv'
    BY <1>1, <1>5, <1>6 DEF StreamInv, PollInv
  <2>3. OpenInv'
    BY <1>1, <1>4, <1>5, <1>6 DEF OpenInv, Outcomes
  <2>4. SettledInv'
    BY <1>1, <1>5, <1>6 DEF SettledInv
  <2> QED
    BY <2>1, <2>2, <2>3, <2>4 DEF StreamInv
<1>7. CASE cursor.pending # 0 /\ Stream!Deliver(t, s, c)
  <2>1. cursor.pending > 0
    BY <1>1, <1>7
  <2>2. /\ s \in ScopeType /\ ~s.closed /\ s.scope = "open" /\ s.rows = cursor.pending
        /\ s.delivered = stream.delivered
    BY <1>1, <2>1, StreamHandsOn DEF s
  <2>3. s.delivered + s.rows + c.pending + left' = total
    BY <1>1, <1>4, <1>5, <2>2
  <2> QED
    BY <1>1, <1>4, <1>5, <1>7, <2>1, <2>2, <2>3, StreamDeliver
<1> QED
  BY <1>6, <1>7 DEF Stream!FetchChunk, c, s, chunk

LEMMA StreamEnd ==
  ASSUME StreamInv, NEW t \in Tasks, Stream!FetchEnd(t)
  PROVE  StreamInv'
<1> DEFINE s == [stream EXCEPT !.rows = cursor.pending]
<1>1. polling[t] = "fetch" /\ left = 0 /\ left' = left /\ total' = total
  BY DEF Stream!FetchEnd
<1> USE StreamFetching
<1>2. CASE cursor.pending > 0 /\ Stream!Deliver(t, s, Stream!Over(cursor))
  <2>1. /\ s \in ScopeType /\ ~s.closed /\ s.scope = "open" /\ s.rows = cursor.pending
        /\ s.delivered = stream.delivered
    BY <1>1, <1>2, StreamHandsOn
  <2>2. /\ Stream!Over(cursor) \in CursorType /\ Stream!Over(cursor).connection = "closed"
        /\ Stream!Over(cursor).statement = "open" /\ Stream!Over(cursor).pending = 0
    <3>1. cursor.pending # 0 /\ cursor \in CursorType /\ cursor.statement = "open"
      BY <1>1, <1>2
    <3> DEFINE c == [cursor EXCEPT !.connection = "closed", !.pending = 0]
    <3>2. Stream!Over(cursor) = c
      BY <3>1 DEF Stream!Over
    <3>3. /\ c \in CursorType /\ c.connection = "closed" /\ c.statement = "open" /\ c.pending = 0
      BY <3>1 DEF CursorType
    <3> QED
      BY <3>2, <3>3
  <2> HIDE DEF s
  <2>3. s.delivered + s.rows + Stream!Over(cursor).pending + left' = total
    BY <1>1, <2>1, <2>2
  <2> QED
    BY <1>1, <1>2, <2>1, <2>2, <2>3, StreamDeliver
<1>3. CASE ~(cursor.pending > 0) /\ Stream!Exhaust(t, Stream!Over(cursor))
  <2>1. cursor.pending = 0
    BY <1>1, <1>3
  <2>2. /\ Stream!Over(cursor) \in CursorType /\ Stream!Over(cursor).connection = "closed"
        /\ Stream!Over(cursor).statement = "success"
    BY <1>1, <2>1 DEF Stream!Over, Stream!EndStatement, CursorType, Outcomes
  <2>3. stream.delivered = total
    BY <1>1, <2>1
  <2> QED
    BY <1>1, <1>3, <2>2, <2>3, StreamExhaust
<1> QED
  BY <1>2, <1>3 DEF Stream!FetchEnd

LEMMA StreamFails ==
  ASSUME StreamInv, NEW t \in Tasks, Stream!FetchFails(t)
  PROVE  StreamInv'
<1>1. polling[t] = "fetch" /\ polling' = [polling EXCEPT ![t] = "none"] /\ UNCHANGED <<left, total>>
  BY DEF Stream!FetchFails
<1> USE StreamFetching
<1>2. PICK outcome \in {"failure", "cancelled"} :
        /\ cursor' = Stream!EndStatement([cursor EXCEPT !.connection = "closed"], outcome)
        /\ stream' = Stream!Ended(stream, outcome)
  BY DEF Stream!FetchFails
<1>3. cursor' \in CursorType /\ cursor'.connection = "closed" /\ cursor'.statement = outcome
  BY <1>1, <1>2 DEF Stream!EndStatement, CursorType, Outcomes
<1>4. left' \in Nat /\ total' = total /\ outcome \in {"none"} \cup Outcomes /\ outcome # "success"
  BY <1>1 DEF Outcomes
<1> QED
  BY <1>1, <1>2, <1>3, <1>4, StreamEnds

LEMMA StreamClose ==
  ASSUME StreamInv, NEW t \in Tasks, Stream!Close(t)
  PROVE  StreamInv'
<1>1. /\ ~stream.closed /\ ~stream.busy /\ UNCHANGED <<left, total>>
      /\ \A u \in Tasks : polling[u] = "none"
  BY DEF Stream!Close, StreamInv, BusyInv
<1>2. stream \in ScopeType /\ cursor \in CursorType /\ left' \in Nat /\ total' = total
  BY <1>1 DEF StreamInv, StreamType
<1>3. stream.scope \notin Outcomes /\ cursor.statement \notin Outcomes
  BY <1>1 DEF StreamInv, OpenInv
<1>4. CASE /\ cursor.connection = "open"
           /\ stream' = [Stream!Busy(stream) EXCEPT !.closed = TRUE]
           /\ polling' = [polling EXCEPT ![t] = "close"]
           /\ UNCHANGED cursor
  BY <1>1, <1>2, <1>3, <1>4, StreamWaits
<1>5. CASE /\ cursor.connection # "open"
           /\ stream' = Stream!Ended(stream, IF stream.scope = "none" THEN "none" ELSE "cancelled")
           /\ cursor' = Stream!EndStatement(cursor, "cancelled")
           /\ UNCHANGED polling
  <2>1. /\ cursor' \in CursorType /\ cursor'.connection # "open"
        /\ cursor'.statement \in {"none", "cancelled"}
    BY <1>2, <1>3, <1>5 DEF Stream!EndStatement, CursorType, Outcomes
  <2>2. polling' = [polling EXCEPT ![t] = "none"]
    BY <1>1, <1>5 DEF StreamInv, StreamType
  <2>3. PICK outcome \in {"none", "cancelled"} : stream' = Stream!Ended(stream, outcome)
    BY <1>5
  <2> QED
    BY <1>1, <1>2, <2>1, <2>2, <2>3, StreamEnds DEF Outcomes
<1> QED
  BY <1>1, <1>4, <1>5 DEF Stream!Close

LEMMA StreamClosed ==
  ASSUME StreamInv, NEW t \in Tasks, Stream!Closed(t)
  PROVE  StreamInv'
<1>1. /\ polling[t] \in {"hydrate", "close"} /\ polling' = [polling EXCEPT ![t] = "none"]
      /\ UNCHANGED <<left, total>>
      /\ cursor' = Stream!EndStatement([cursor EXCEPT !.connection = "closed"], "cancelled")
  BY DEF Stream!Closed
<1>2. /\ \A u \in Tasks : u # t => polling[u] = "none"
      /\ cursor.statement \notin Outcomes
  BY <1>1 DEF StreamInv, BusyInv, PollInv
<1>3. stream \in ScopeType /\ cursor \in CursorType /\ left' \in Nat /\ total' = total
  BY <1>1 DEF StreamInv, StreamType
<1>4. PICK outcome \in {"failure", "cancelled"} : stream' = Stream!Ended(stream, outcome)
  BY DEF Stream!Closed
<1>5. /\ cursor' \in CursorType /\ cursor'.connection = "closed"
      /\ cursor'.statement \in {"none", "cancelled"}
  BY <1>1, <1>2, <1>3 DEF Stream!EndStatement, CursorType, Outcomes
<1> QED
  BY <1>1, <1>2, <1>3, <1>4, <1>5, StreamEnds DEF Outcomes

\* A stream polled and closed by several tasks, with fetches that fail and are
\* cancelled, skips no row, succeeds only when all were delivered, and leaves nothing
\* open (TypedStream, _query_stream).
THEOREM StreamSafe == AnySpec => []StreamSettles
<1>1. StreamInv /\ [AnyNext]_allVars => StreamInv'
  <2> SUFFICES ASSUME StreamInv, [AnyNext]_allVars PROVE StreamInv'
    OBVIOUS
  <2>1. CASE Stream!StreamNext
    BY <2>1, StreamPoll, StreamChunk, StreamEnd, StreamFails, StreamClose, StreamClosed
       DEF Stream!StreamNext
  <2>2. CASE UNCHANGED streamVars
    BY <2>2 DEF streamVars, StreamInv, StreamType, BusyInv, PollInv, OpenInv, SettledInv
  <2> QED
    BY <2>1, <2>2 DEF AnyNext, allVars
<1>2. StreamInv => StreamSettles
  BY DEF StreamInv, BusyInv, OpenInv, SettledInv, StreamSettles, Stream!StreamSettles
<1> QED
  BY StreamStart, <1>1, <1>2, PTL DEF AnySpec

-----------------------------------------------------------------------------
(* Telemetry startup *)

BuildType == [pc : {"unused", "constructing", "constructed", "cleanup", "offered", "ended"},
              candidate : {"none", "running", "closed"}, result : BOOLEAN,
              completed : BOOLEAN, abandoned : BOOLEAN]
StarterType == [pc : {"idle", "waiting", "handshake"}, build : Builds \cup {0}]

StartupType ==
  /\ starter \in [Threads -> StarterType]
  /\ build \in [Builds -> BuildType]
  /\ pipeline \subseteq Builds

\* t is in default_telemetry and builds i.
Awaits(t, i) == starter[t].pc # "idle" /\ starter[t].build = i

\* _lock lets one thread start at a time; its build is neither given up nor registered,
\* and no pipeline is in use meanwhile.
StarterInv ==
  /\ \A s, t \in Threads : starter[s].pc # "idle" /\ starter[t].pc # "idle" => s = t
  /\ \A t \in Threads : starter[t].pc # "idle" =>
       /\ starter[t].build \in Builds
       /\ build[starter[t].build].pc # "unused" /\ ~build[starter[t].build].abandoned
       /\ starter[t].build \notin pipeline
       /\ \A i \in pipeline : build[i].candidate = "closed"

\* How far a build is shows in its result and its candidate.
BuildInv ==
  \A i \in Builds :
    /\ build[i].result => build[i].pc \in {"offered", "ended"} /\ ~build[i].abandoned
    /\ build[i].pc = "offered" => build[i].result
    /\ build[i].pc = "cleanup" => build[i].abandoned
    /\ build[i].pc \in {"unused", "constructing"} => build[i].candidate = "none"
    /\ build[i].candidate = "running" /\ ~build[i].result => build[i].pc \in {"constructed", "cleanup"}

\* A pipeline that runs and was handed over is registered or awaited.
UseInv ==
  /\ \A i, j \in pipeline : i = j
  /\ \A i \in pipeline : build[i].result
  /\ \A i \in Builds : build[i].candidate = "running" /\ build[i].result =>
       i \in pipeline \/ \E t \in Threads : Awaits(t, i)
  /\ \A i \in Builds : build[i].pc = "unused" => ~build[i].abandoned
  /\ \A i \in Builds : build[i].pc \in {"constructing", "constructed"} =>
       build[i].abandoned \/ \E t \in Threads : Awaits(t, i)

StartupInv == StartupType /\ StarterInv /\ BuildInv /\ UseInv

LEMMA StartupStart == AnyInit => StartupInv
<1> SUFFICES ASSUME Startup!StartupInit PROVE StartupInv
  BY DEF AnyInit
<1>1. StartupType
  BY DEF Startup!StartupInit, Startup!NotStarted, StartupType, BuildType, StarterType
<1>2. \A t \in Threads : starter[t].pc = "idle"
  BY DEF Startup!StartupInit
<1>3. \A i \in Builds : /\ build[i].pc = "unused" /\ build[i].candidate = "none"
                        /\ ~build[i].result /\ ~build[i].abandoned
  BY DEF Startup!StartupInit, Startup!NotStarted
<1>4. pipeline = {}
  BY DEF Startup!StartupInit
<1> QED
  BY <1>1, <1>2, <1>3, <1>4 DEF StartupInv, StarterInv, BuildInv, UseInv

LEMMA StartupBegins ==
  ASSUME StartupInv, NEW t \in Threads, Startup!Start(t)
  PROVE  StartupInv'
<1>1. /\ \A s \in Threads : starter[s].pc = "idle"
      /\ \A i \in pipeline : build[i].candidate = "closed"
      /\ pipeline' = pipeline
  BY DEF Startup!Start, Startup!LockHeld
<1>2. PICK i \in Builds : /\ build[i].pc = "unused"
                         /\ starter' = [starter EXCEPT ![t] = [pc |-> "waiting", build |-> i]]
                         /\ build' = [build EXCEPT ![i].pc = "constructing"]
  BY DEF Startup!Start
<1> USE DEF StartupInv
<1>3. /\ starter'[t].pc = "waiting" /\ starter'[t].build = i
      /\ \A s \in Threads : s # t => starter'[s] = starter[s]
  BY <1>2 DEF StartupType
<1>4. /\ build'[i].pc = "constructing" /\ build'[i].candidate = build[i].candidate
      /\ build'[i].result = build[i].result /\ build'[i].abandoned = build[i].abandoned
      /\ \A j \in Builds : j # i => build'[j] = build[j]
  BY <1>2 DEF StartupType, BuildType
<1>5. ~build[i].result /\ ~build[i].abandoned /\ build[i].candidate = "none" /\ i \notin pipeline
  BY <1>2 DEF BuildInv, UseInv
<1>6. StartupType'
  BY <1>1, <1>2 DEF StartupType, BuildType, StarterType
<1>7. StarterInv'
  BY <1>1, <1>3, <1>4, <1>5 DEF StarterInv, StartupType
<1>8. BuildInv'
  BY <1>4, <1>5 DEF BuildInv
<1>9. UseInv'
  BY <1>1, <1>3, <1>4, <1>5 DEF UseInv, StartupType, Awaits
<1> QED
  BY <1>6, <1>7, <1>8, <1>9

LEMMA StartupDecides ==
  ASSUME StartupInv, NEW t \in Threads, Startup!Decide(t)
  PROVE  StartupInv'
<1> DEFINE mine == starter[t].build
<1> USE DEF StartupInv
<1>1. starter[t].pc = "handshake" /\ starter' = [starter EXCEPT ![t] = [pc |-> "idle", build |-> 0]]
  BY DEF Startup!Decide
<1>2. /\ mine \in Builds /\ ~build[mine].abandoned /\ mine \notin pipeline
      /\ \A i \in pipeline : build[i].candidate = "closed"
      /\ \A s \in Threads : s # t => starter[s].pc = "idle"
  BY <1>1 DEF StarterInv
<1>3. \A s \in Threads : starter'[s].pc = "idle"
  BY <1>1, <1>2 DEF StartupType
<1>4. \A s \in Threads, i \in Builds : Awaits(s, i) => i = mine
  BY <1>2 DEF Awaits
<1>5. StarterInv'
  BY <1>3 DEF StarterInv
<1> HIDE DEF mine
<1>6. CASE build[mine].result /\ pipeline' = {mine} /\ UNCHANGED build
  <2>1. StartupType' /\ BuildInv'
    BY <1>1, <1>2, <1>6 DEF StartupType, StarterType, BuildInv
  <2>2. UseInv'
    <3>1. /\ \A i, j \in pipeline' : i = j
          /\ \A i \in pipeline' : build'[i].result
          /\ \A i \in Builds : build'[i].pc = "unused" => ~build'[i].abandoned
      BY <1>6 DEF UseInv
    <3>2. ASSUME NEW i \in Builds, build'[i].candidate = "running", build'[i].result
          PROVE  i \in pipeline'
      BY <1>2, <1>4, <1>6, <3>2 DEF UseInv
    <3>3. ASSUME NEW i \in Builds, build'[i].pc \in {"constructing", "constructed"}
          PROVE  build'[i].abandoned
      BY <1>2, <1>4, <1>6, <3>3 DEF UseInv, BuildInv
    <3> QED
      BY <3>1, <3>2, <3>3 DEF UseInv
  <2> QED
    BY <1>5, <2>1, <2>2
<1>7. CASE /\ ~build[mine].result
           /\ build' = [build EXCEPT ![mine].abandoned = TRUE] /\ UNCHANGED pipeline
  <2>1. /\ build'[mine].pc = build[mine].pc /\ build'[mine].candidate = build[mine].candidate
        /\ build'[mine].result = build[mine].result
        /\ \A j \in Builds : j # mine => build'[j] = build[j]
    BY <1>2, <1>7 DEF StartupType, BuildType
  <2>2. StartupType'
    BY <1>1, <1>2, <1>7 DEF StartupType, StarterType, BuildType
  <2>3. BuildInv'
    BY <1>2, <1>7, <2>1 DEF BuildInv
  <2>4. build[mine].pc # "unused"
    BY <1>1 DEF StarterInv, mine
  <2>5. build'[mine].abandoned
    BY <1>2, <1>7 DEF StartupType, BuildType
  <2>6. UseInv'
    <3>1. /\ \A i, j \in pipeline' : i = j
          /\ \A i \in pipeline' : build'[i].result
          /\ \A i \in Builds : build'[i].pc = "unused" => ~build'[i].abandoned
      BY <1>7, <2>1, <2>4 DEF UseInv, StartupType
    <3>2. ASSUME NEW i \in Builds, build'[i].candidate = "running", build'[i].result
          PROVE  i \in pipeline'
      BY <1>4, <1>7, <2>1, <3>2 DEF UseInv
    <3>3. ASSUME NEW i \in Builds, build'[i].pc \in {"constructing", "constructed"}
          PROVE  build'[i].abandoned
      BY <1>4, <2>1, <2>5, <3>3 DEF UseInv
    <3> QED
      BY <3>1, <3>2, <3>3 DEF UseInv
  <2> QED
    BY <1>5, <2>2, <2>3, <2>6
<1> QED
  BY <1>6, <1>7 DEF Startup!Decide, mine

\* The steps of a build: it goes on, and is neither started, given up nor registered.
LEMMA StartupBuilds ==
  ASSUME StartupInv, NEW i \in Builds, NEW r \in BuildType,
         build' = [build EXCEPT ![i] = r], UNCHANGED <<starter, pipeline>>,
         r.abandoned = build[i].abandoned, build[i].result => r.result,
         r.pc # "unused",
         r.result => r.pc \in {"offered", "ended"} /\ ~r.abandoned,
         r.pc = "offered" => r.result,
         r.pc = "cleanup" => r.abandoned,
         r.pc = "constructing" => r.candidate = "none",
         r.candidate = "running" /\ ~r.result => r.pc \in {"constructed", "cleanup"},
         i \in pipeline /\ build[i].candidate = "closed" => r.candidate = "closed",
         r.pc \in {"constructing", "constructed"} => build[i].pc \in {"constructing", "constructed"},
         r.candidate = "running" /\ r.result =>
           i \in pipeline \/ \E t \in Threads : Awaits(t, i)
  PROVE  StartupInv'
<1> USE DEF StartupInv
<1>1. build'[i] = r /\ \A j \in Builds : j # i => build'[j] = build[j]
  BY DEF StartupType
<1>2. StartupType'
  BY DEF StartupType
<1>3. StarterInv'
  BY <1>1 DEF StarterInv, StartupType
<1>4. BuildInv'
  BY <1>1 DEF BuildInv
<1>5. UseInv'
  BY <1>1 DEF UseInv, Awaits, StartupType
<1> QED
  BY <1>2, <1>3, <1>4, <1>5

LEMMA StartupStep ==
  ASSUME StartupInv, Startup!StartupNext
  PROVE  StartupInv'
<1>1. ASSUME NEW t \in Threads, Startup!StopWaiting(t)
      PROVE  StartupInv'
  <2>1. /\ starter[t].pc = "waiting" /\ starter' = [starter EXCEPT ![t].pc = "handshake"]
        /\ UNCHANGED <<build, pipeline>>
    BY <1>1 DEF Startup!StopWaiting
  <2>2. StartupType'
    BY <2>1 DEF StartupInv, StartupType, StarterType
  <2>3. \A s \in Threads : /\ starter'[s].pc = "idle" <=> starter[s].pc = "idle"
                          /\ starter'[s].build = starter[s].build
    BY <2>1 DEF StartupInv, StartupType, StarterType
  <2>4. StarterInv' /\ BuildInv' /\ UseInv'
    BY <2>1, <2>3 DEF StartupInv, StarterInv, BuildInv, UseInv, Awaits
  <2> QED
    BY <2>2, <2>4 DEF StartupInv
<1>2. ASSUME NEW i \in Builds, Startup!Construct(i)
      PROVE  StartupInv'
  <2>1. build[i] \in BuildType /\ build[i].pc = "constructing" /\ UNCHANGED <<starter, pipeline>>
    BY <1>2 DEF Startup!Construct, StartupInv, StartupType
  <2>2. ~build[i].result /\ build[i].candidate = "none"
    BY <2>1 DEF StartupInv, BuildInv
  <2>3. CASE build' = [build EXCEPT ![i].pc = "constructed", ![i].candidate = "running"]
    <3> DEFINE r == [build[i] EXCEPT !.pc = "constructed", !.candidate = "running"]
    <3>1. /\ build' = [build EXCEPT ![i] = r] /\ r \in BuildType
          /\ r.pc = "constructed" /\ r.result = build[i].result /\ r.abandoned = build[i].abandoned
      BY <2>1, <2>3 DEF StartupInv, StartupType, BuildType
    <3>2. i \notin pipeline
      BY <2>2 DEF StartupInv, UseInv
    <3> HIDE DEF r
    <3> QED
      BY <2>1, <2>2, <3>1, <3>2, StartupBuilds
  <2>4. CASE build' = [build EXCEPT ![i].pc = "ended", ![i].completed = TRUE]
    <3> DEFINE r == [build[i] EXCEPT !.pc = "ended", !.completed = TRUE]
    <3>1. /\ build' = [build EXCEPT ![i] = r] /\ r \in BuildType /\ r.candidate = build[i].candidate
          /\ r.pc = "ended" /\ r.result = build[i].result /\ r.abandoned = build[i].abandoned
      BY <2>1, <2>4 DEF StartupInv, StartupType, BuildType
    <3> HIDE DEF r
    <3> QED
      BY <2>1, <2>2, <3>1, StartupBuilds
  <2> QED
    BY <1>2, <2>3, <2>4 DEF Startup!Construct
<1>3. ASSUME NEW i \in Builds, Startup!Offer(i)
      PROVE  StartupInv'
  <2> DEFINE r == [build[i] EXCEPT !.pc = IF build[i].abandoned THEN "cleanup" ELSE "offered",
                                   !.result = ~build[i].abandoned]
  <2>1. build[i] \in BuildType /\ build[i].pc = "constructed" /\ UNCHANGED <<starter, pipeline>>
    BY <1>3 DEF Startup!Offer, StartupInv, StartupType
  <2>2. /\ build' = [build EXCEPT ![i] = r] /\ r \in BuildType /\ r.candidate = build[i].candidate
        /\ r.pc = IF build[i].abandoned THEN "cleanup" ELSE "offered"
        /\ r.result = ~build[i].abandoned /\ r.abandoned = build[i].abandoned
    BY <1>3, <2>1 DEF Startup!Offer, StartupInv, StartupType, BuildType
  <2>3. ~build[i].result /\ (build[i].abandoned \/ \E t \in Threads : Awaits(t, i))
    BY <2>1 DEF StartupInv, BuildInv, UseInv
  <2> HIDE DEF r
  <2> QED
    BY <2>1, <2>2, <2>3, StartupBuilds
<1>4. ASSUME NEW i \in Builds, Startup!Finish(i)
      PROVE  StartupInv'
  <2> DEFINE r == [build[i] EXCEPT !.pc = "ended", !.completed = TRUE,
                                   !.candidate = IF build[i].pc = "cleanup" THEN "closed" ELSE @]
  <2>1. /\ build[i] \in BuildType /\ build[i].pc \in {"offered", "cleanup"}
        /\ UNCHANGED <<starter, pipeline>>
    BY <1>4 DEF Startup!Finish, StartupInv, StartupType
  <2>2. /\ build' = [build EXCEPT ![i] = r] /\ r \in BuildType /\ r.pc = "ended"
        /\ r.candidate = IF build[i].pc = "cleanup" THEN "closed" ELSE build[i].candidate
        /\ r.result = build[i].result /\ r.abandoned = build[i].abandoned
    BY <1>4, <2>1 DEF Startup!Finish, StartupInv, StartupType, BuildType
  <2>3. /\ build[i].pc = "offered" => build[i].result /\ ~build[i].abandoned
        /\ build[i].pc = "cleanup" => ~build[i].result
        /\ build[i].candidate = "running" /\ build[i].result =>
             i \in pipeline \/ \E t \in Threads : Awaits(t, i)
    BY DEF StartupInv, BuildInv, UseInv
  <2> HIDE DEF r
  <2> QED
    BY <2>1, <2>2, <2>3, StartupBuilds
<1>5. ASSUME NEW i \in Builds, Startup!Shutdown(i)
      PROVE  StartupInv'
  <2> DEFINE r == [build[i] EXCEPT !.candidate = "closed"]
  <2>1. build[i] \in BuildType /\ i \in pipeline /\ UNCHANGED <<starter, pipeline>>
    BY <1>5 DEF Startup!Shutdown, StartupInv, StartupType
  <2>2. /\ build' = [build EXCEPT ![i] = r] /\ r \in BuildType /\ r.candidate = "closed"
        /\ r.pc = build[i].pc /\ r.result = build[i].result /\ r.abandoned = build[i].abandoned
    BY <1>5, <2>1 DEF Startup!Shutdown, StartupInv, StartupType, BuildType
  <2>3. build[i].result /\ build[i].pc \in {"offered", "ended"} /\ ~build[i].abandoned
    BY <2>1 DEF StartupInv, BuildInv, UseInv
  <2> HIDE DEF r
  <2> QED
    BY <2>1, <2>2, <2>3, StartupBuilds
<1> QED
  BY <1>1, <1>2, <1>3, <1>4, <1>5, StartupBegins, StartupDecides DEF Startup!StartupNext

\* The instance counts as everybody does.
LEMMA SameCount ==
  ASSUME NEW S
  PROVE  Startup!Cardinality(S) = Cardinality(S)
BY DEF Startup!Cardinality, Cardinality

\* However the handshake and its timeout fall, no telemetry pipeline runs that nobody
\* uses and nobody will shut down (default_telemetry).
THEOREM StartupSafe == AnySpec => []NoStrayPipeline
<1>1. StartupInv /\ [AnyNext]_allVars => StartupInv'
  <2> SUFFICES ASSUME StartupInv, [AnyNext]_allVars PROVE StartupInv'
    OBVIOUS
  <2>1. CASE Startup!StartupNext
    BY <2>1, StartupStep
  <2>2. CASE UNCHANGED startupVars
    BY <2>2 DEF startupVars, StartupInv, StartupType, StarterInv, BuildInv, UseInv, Awaits
  <2> QED
    BY <2>1, <2>2 DEF AnyNext, allVars
<1>2. StartupInv => NoStrayPipeline
  <2> SUFFICES ASSUME StartupInv PROVE Startup!NoStrayPipeline
    BY DEF NoStrayPipeline
  <2> DEFINE used == {i \in Builds : build[i].candidate = "running" /\ build[i].result}
  <2>1. ASSUME NEW i \in used, NEW j \in used
        PROVE  i = j
    BY <2>1 DEF StartupInv, StarterInv, UseInv, Awaits
  <2>2. Cardinality(used) <= 1
    <3>1. CASE used = {}
      BY <3>1, FS_EmptySet
    <3>2. ASSUME NEW i \in used
          PROVE  Cardinality(used) <= 1
      <4>1. used = {i}
        BY <2>1, <3>2
      <4>2. Cardinality({i}) = 1
        BY FS_Singleton
      <4> QED
        BY <4>1, <4>2
    <3> QED
      BY <3>1, <3>2
  <2>3. ASSUME NEW i \in Builds, build[i].candidate = "running"
        PROVE  \/ i \in pipeline
               \/ build[i].pc \in {"constructed", "cleanup"}
               \/ \E t \in Threads : starter[t].build = i
    BY <2>3 DEF StartupInv, BuildInv, UseInv, Awaits
  <2>4. ASSUME NEW i \in Builds, build[i].abandoned
        PROVE  i \notin pipeline /\ ~build[i].result
    BY <2>4 DEF StartupInv, BuildInv, UseInv
  <2> QED
    BY <2>2, <2>3, <2>4, SameCount DEF Startup!NoStrayPipeline
<1> QED
  BY StartupStart, <1>1, <1>2, PTL DEF AnySpec

-----------------------------------------------------------------------------
(* SQL transaction *)

TxWrite == [by : TxCalls, left : Nat]
TxOffer == [event : TxWrite, via : TxCalls]
TxCallType ==
  [kind : {"none", "mutate", "commit", "rollback"},
   pc : {"idle", "refused", "executing", "executed", "committing", "committed", "delivering",
         "rolling_back", "rolled_back", "returned", "committed_error", "raised"},
   context : SUBSET Owners, left : Nat]
JournalType == [owner : SUBSET Owners, active : BOOLEAN, events : Seq(TxWrite)]

TxType ==
  /\ opened \in {"explicit", "automatic"}
  /\ db \in {"open", "committed", "rolled_back"}
  /\ completed \in BOOLEAN
  /\ journal \in JournalType
  /\ txCall \in [TxCalls -> TxCallType]
  /\ changed \subseteq TxWrite
  /\ offered \in Seq(TxOffer)

\* Where a call stands tells what it is.
KindInv ==
  \A u \in TxCalls :
    /\ txCall[u].pc = "idle" <=> txCall[u].kind = "none"
    /\ txCall[u].pc \in {"executing", "executed"} => txCall[u].kind = "mutate" /\ txCall[u].left > 0
    /\ txCall[u].pc \in {"committing", "committed", "delivering", "committed_error"} =>
         txCall[u].kind = "commit"
    /\ txCall[u].pc \in {"rolling_back", "rolled_back"} => txCall[u].kind = "rollback"
    /\ txCall[u].kind = "rollback" /\ txCall[u].pc # "rolling_back" => db # "open"

\* The database answered u's commit; u has closed the journal and offers its events.
Committed(u) ==
  txCall[u].kind = "commit" /\ txCall[u].pc \in {"committed", "delivering", "returned", "committed_error"}
Announcing(u) == Committed(u) /\ txCall[u].pc # "committed"
RolledBack == \E u \in TxCalls : txCall[u].kind = "rollback"

\* The database answers a commit after a rollback too, but then the journal is empty
\* for good.  What is offered is offered by a commit, from a closed journal.
CommitInv ==
  /\ db = "rolled_back" =>
       RolledBack \/ \E u \in TxCalls : txCall[u].kind = "commit" /\ txCall[u].pc = "raised"
  /\ \A u \in TxCalls : Committed(u) => db = "committed" \/ (db = "rolled_back" /\ RolledBack)
  /\ \A u \in TxCalls : Announcing(u) => completed
  /\ completed => ~journal.active
  /\ RolledBack => completed /\ journal.events = <<>>
  /\ offered # <<>> => db = "committed"
  /\ \A i \in 1 .. Len(offered) : Announcing(offered[i].via)

\* The writes that wait in the journal or were offered.
Told ==
  {journal.events[i] : i \in 1 .. Len(journal.events)}
    \cup {offered[i].event : i \in 1 .. Len(offered)}

\* A mutate records its writes, each before it goes on to a lower one.
EventInv ==
  /\ \A w \in changed : txCall[w.by].kind = "mutate"
  /\ \A u \in TxCalls : txCall[u].pc = "executed" => [by |-> u, left |-> txCall[u].left] \in changed
  /\ \A w \in Told :
       w \in changed /\ (txCall[w.by].pc \in {"executing", "executed"} => txCall[w.by].left < w.left)

\* No write is recorded twice, and no commit offers one twice.
OnceInv ==
  /\ \A i, j \in 1 .. Len(journal.events) : journal.events[i] = journal.events[j] => i = j
  /\ \A i, j \in 1 .. Len(offered) : offered[i] = offered[j] => i = j

\* Until the journal is emptied, what u has offered are the events before its place.
OfferInv ==
  \A u \in TxCalls : txCall[u].pc = "delivering" /\ journal.events # <<>> =>
    /\ txCall[u].left \in 1 .. Len(journal.events) + 1
    /\ \A i \in 1 .. txCall[u].left - 1 :
         \E j \in 1 .. Len(offered) : offered[j] = [event |-> journal.events[i], via |-> u]
    /\ \A j \in 1 .. Len(offered) :
         offered[j].via = u => \E i \in 1 .. txCall[u].left - 1 : offered[j].event = journal.events[i]

\* Without a rollback no write of a mutate that goes on is forgotten.
ReturnInv ==
  (\A u \in TxCalls : txCall[u].kind # "rollback") =>
    \A w \in changed :
      txCall[w.by].context # {} /\ txCall[w.by].pc \in {"executing", "executed", "returned"} =>
        w \in Told \/ (txCall[w.by].pc = "executed" /\ w.left = txCall[w.by].left)

\* A commit that is over has emptied the journal.
EmptiedInv ==
  \A u \in TxCalls : Announcing(u) /\ txCall[u].pc # "delivering" => journal.events = <<>>

\* The transaction of one request is committed after its only mutate has returned.
OwnInv ==
  opened = "automatic" =>
    /\ \A u, v \in TxCalls : txCall[u].kind = "mutate" /\ txCall[v].kind = "mutate" => u = v
    /\ \A u, v \in TxCalls : txCall[u].kind = "commit" /\ txCall[v].kind = "commit" => u = v
    /\ \A u \in TxCalls : txCall[u].kind = "commit" =>
         \E v \in TxCalls : txCall[v].kind = "mutate" /\ txCall[v].pc = "returned"

TxInv ==
  TxType /\ KindInv /\ CommitInv /\ EventInv /\ OnceInv /\ OfferInv /\ ReturnInv /\ EmptiedInv /\ OwnInv

\* What is offered is a write, through a call.
LEMMA TxOffers ==
  ASSUME TxInv
  PROVE  \A i \in 1 .. Len(offered) : offered[i].event \in TxWrite /\ offered[i].via \in TxCalls
<1>1. \A i \in 1 .. Len(offered) : offered[i] \in TxOffer
  BY ElementOfSeq DEF TxInv, TxType
<1> QED
  BY <1>1 DEF TxOffer

LEMMA TxStart == AnyInit => TxInv
<1> SUFFICES ASSUME Tx!TxInit PROVE TxInv
  BY DEF AnyInit
<1>1. <<>> \in Seq(TxWrite) /\ <<>> \in Seq(TxOffer) /\ Len(<<>>) = 0
  BY EmptySeq
<1>2. journal \in JournalType
  BY <1>1 DEF Tx!TxInit, JournalType
<1>3. \A u \in TxCalls : txCall[u] \in TxCallType /\ txCall[u].kind = "none" /\ txCall[u].pc = "idle"
  BY DEF Tx!TxInit, TxCallType
<1>4. TxType
  BY <1>1, <1>2, <1>3 DEF Tx!TxInit, TxType
<1>6. changed = {} /\ journal.events = <<>> /\ offered = <<>>
  BY DEF Tx!TxInit
<1>5. KindInv /\ CommitInv /\ OwnInv
  BY <1>1, <1>3, <1>6 DEF Tx!TxInit, KindInv, CommitInv, OwnInv, Committed, Announcing, RolledBack
<1>7. EventInv /\ OnceInv /\ OfferInv /\ ReturnInv /\ EmptiedInv
  BY <1>1, <1>3, <1>6 DEF EventInv, OnceInv, OfferInv, ReturnInv, EmptiedInv, Told, Announcing
<1> QED
  BY <1>4, <1>5, <1>7 DEF TxInv

\* A call begins: a mutate that goes on or any call that is refused, a commit, a rollback.
LEMMA TxStarts ==
  ASSUME TxInv, NEW u \in TxCalls, NEW kind \in {"mutate", "commit", "rollback"},
         NEW pc1 \in {"executing", "committing", "rolling_back", "refused"},
         NEW context \in SUBSET Owners, NEW n \in Nat,
         Tx!Starts(u, kind, pc1, context, n),
         pc1 = "executing" => kind = "mutate" /\ n > 0,
         pc1 = "committing" => kind = "commit",
         pc1 = "rolling_back" => kind = "rollback",
         pc1 = "refused" => kind # "rollback",
         UNCHANGED <<opened, db, changed, offered>>,
         completed => completed', completed' \in BOOLEAN,
         journal' \in JournalType, completed' => ~journal'.active,
         IF kind = "rollback" THEN completed' /\ journal'.events = <<>>
                              ELSE journal'.events = journal.events
  PROVE  TxInv'
<1> USE DEF TxInv
<1>1. txCall[u].pc = "idle" /\ txCall[u].kind = "none" /\ Tx!Due(kind)
  BY DEF Tx!Starts, KindInv
<1>2. /\ txCall'[u] = [kind |-> kind, pc |-> pc1, context |-> context, left |-> n]
      /\ \A v \in TxCalls : v # u => txCall'[v] = txCall[v]
      /\ txCall' \in [TxCalls -> TxCallType]
  BY DEF Tx!Starts, TxType, TxCallType
<1>3. /\ txCall'[u].kind = kind /\ txCall'[u].pc = pc1 /\ txCall'[u].left = n
      /\ txCall'[u].context = context
  BY <1>2
<1>4. TxType'
  BY <1>2 DEF TxType
<1>5. KindInv'
  BY <1>1, <1>2, <1>3 DEF KindInv
<1>6. \A v \in TxCalls : (Committed(v)' <=> Committed(v)) /\ (Announcing(v)' <=> Announcing(v))
  BY <1>1, <1>2, <1>3 DEF Committed, Announcing
<1>7. CommitInv'
  <2>1. RolledBack' <=> RolledBack \/ kind = "rollback"
    BY <1>1, <1>2, <1>3 DEF RolledBack
  <2>2. \A v \in TxCalls : txCall[v].kind = "commit" /\ txCall[v].pc = "raised" => txCall'[v] = txCall[v]
    BY <1>1, <1>2
  <2>3. \A i \in 1 .. Len(offered) : offered[i].via \in TxCalls
    BY TxOffers
  <2> QED
    BY <1>6, <2>1, <2>2, <2>3 DEF CommitInv
<1>8. \A w \in changed : w.by \in TxCalls /\ w.by # u
  BY <1>1 DEF EventInv, TxType, TxWrite
<1>9. Told' \subseteq Told /\ (kind # "rollback" => Told' = Told)
  <2>1. CASE journal'.events = journal.events
    BY <2>1 DEF Told
  <2>2. CASE kind = "rollback" /\ journal'.events = <<>>
    BY <2>2, EmptySeq DEF Told
  <2> QED
    BY <2>1, <2>2
<1>10. EventInv' /\ OnceInv'
  <2>1. OnceInv'
    BY EmptySeq DEF OnceInv
  <2> QED
    BY <1>1, <1>2, <1>3, <1>8, <1>9, <2>1 DEF EventInv
<1>11. OfferInv'
  BY <1>1, <1>2, <1>3 DEF OfferInv
<1>12. ReturnInv' /\ EmptiedInv'
  BY <1>1, <1>2, <1>3, <1>6, <1>8, <1>9 DEF ReturnInv, EmptiedInv
<1>13. OwnInv'
  BY <1>1, <1>2, <1>3 DEF OwnInv, Tx!Due, Tx!Made, Tx!Over
<1> QED
  BY <1>4, <1>5, <1>7, <1>10, <1>11, <1>12, <1>13


\* u comes to stand at pc1 with n left; the other calls stay where they are.
Moved(u, pc1, n) ==
  /\ txCall' \in [TxCalls -> TxCallType]
  /\ \A v \in TxCalls : v # u => txCall'[v] = txCall[v]
  /\ txCall'[u].kind = txCall[u].kind /\ txCall'[u].context = txCall[u].context
  /\ txCall'[u].pc = pc1 /\ txCall'[u].left = n

LEMMA TxAt ==
  ASSUME TxInv, NEW u \in TxCalls, NEW n \in Nat,
         NEW pc1 \in {"executing", "executed", "committed", "delivering", "rolled_back", "returned",
                       "committed_error", "raised"},
         txCall' = [txCall EXCEPT ![u].pc = pc1, ![u].left = n]
  PROVE  Moved(u, pc1, n)
<1> DEFINE moved == [txCall[u] EXCEPT !.pc = pc1, !.left = n]
<1>1. txCall \in [TxCalls -> TxCallType] /\ txCall[u] \in TxCallType
  BY DEF TxInv, TxType
<1>2. /\ moved \in TxCallType
      /\ moved.kind = txCall[u].kind /\ moved.context = txCall[u].context
      /\ moved.pc = pc1 /\ moved.left = n
  BY <1>1 DEF TxCallType
<1>3. txCall' = [txCall EXCEPT ![u] = moved]
  BY <1>1 DEF TxCallType
<1> HIDE DEF moved
<1> QED
  BY <1>1, <1>2, <1>3 DEF Moved

\* What a mutate at its statement, or at its record, does.
Mutates(u, pc1, n, write) ==
  /\ opened' = opened /\ db' = db /\ completed' = completed /\ offered' = offered
  /\ changed' = changed \/ (pc1 \in {"executed", "raised"} /\ changed' = changed \cup {write})
  /\ pc1 = "executing" => n > 0
  /\ pc1 = "executed" => n = txCall[u].left /\ write \in changed'
  /\ n <= txCall[u].left
Recorded(u, pc1) ==
  /\ journal' = journal
  /\ txCall[u].pc = "executing" \/ txCall[u].context = {} \/ pc1 = "raised"
Records(u, n, write) ==
  /\ journal' \in JournalType
  /\ journal'.active = journal.active
  /\ journal'.events = Append(journal.events, write)
  /\ journal.active /\ txCall[u].pc = "executed" /\ n < txCall[u].left

\* A mutate executes its statement or records its write, and goes on, returns or raises.
LEMMA TxMutates ==
  ASSUME TxInv, NEW u \in TxCalls, NEW pc1 \in {"executing", "executed", "returned", "raised"},
         NEW n \in Nat, NEW write,
         write = [by |-> u, left |-> txCall[u].left],
         txCall[u].pc \in {"executing", "executed"},
         Moved(u, pc1, n),
         Mutates(u, pc1, n, write),
         Recorded(u, pc1) \/ Records(u, n, write)
  PROVE  TxInv'
<1> USE DEF TxInv
<1>1. txCall[u].kind = "mutate" /\ txCall[u].left \in Nat /\ txCall[u].left > 0
  BY DEF KindInv, TxType, TxCallType
<1>2. txCall'[u].kind = "mutate"
  BY <1>1 DEF Moved
<1>3. write \in TxWrite /\ write.by = u /\ write.left = txCall[u].left
  BY <1>1 DEF TxWrite
<1>4. TxType'
  BY <1>3 DEF TxType, Moved, Mutates, Recorded, Records
<1>5. KindInv'
  BY <1>1, <1>2 DEF KindInv, Moved, Mutates
<1>6. \A v \in TxCalls : (Committed(v)' <=> Committed(v)) /\ (Announcing(v)' <=> Announcing(v))
  BY <1>1, <1>2 DEF Committed, Announcing, Moved
<1>7. journal'.active = journal.active
  BY DEF Recorded, Records
<1>8. CommitInv'
  <2>1. RolledBack' <=> RolledBack
    BY DEF RolledBack, Moved
  <2>2. RolledBack => completed /\ journal'.events = <<>>
    BY DEF CommitInv, Recorded, Records
  <2>3. \A v \in TxCalls : txCall[v].kind = "commit" /\ txCall[v].pc = "raised" => txCall'[v] = txCall[v]
    BY <1>1 DEF Moved
  <2>4. \A i \in 1 .. Len(offered) : offered[i].via \in TxCalls
    BY TxOffers
  <2> QED
    BY <1>6, <1>7, <2>1, <2>2, <2>3, <2>4 DEF CommitInv, Mutates
<1>9. OwnInv'
  BY <1>1, <1>2 DEF OwnInv, Moved, Mutates
<1>10. \A w \in changed' : w \in TxWrite /\ w.by \in TxCalls /\ (w.by = u /\ w.left = txCall[u].left => w = write)
  BY <1>3, <1>4 DEF TxType, TxWrite
<1>11. \A w \in Told : w \in changed /\ w.left \in Nat
  BY DEF EventInv, TxType, TxWrite
<1>12. changed \subseteq changed' /\ \A w \in changed' : w \in changed \/ w = write
  BY DEF Mutates
<1>13. ASSUME Told' = Told PROVE EventInv'
  <2>1. \A w \in changed' : txCall'[w.by].kind = "mutate"
    BY <1>1, <1>2, <1>3, <1>10, <1>12 DEF EventInv, Moved
  <2>2. \A v \in TxCalls : txCall'[v].pc = "executed" => [by |-> v, left |-> txCall'[v].left] \in changed'
    BY <1>3, <1>12 DEF EventInv, Moved, Mutates
  <2>3. \A w \in Told' :
          w \in changed' /\ (txCall'[w.by].pc \in {"executing", "executed"} => txCall'[w.by].left < w.left)
    BY <1>1, <1>10, <1>11, <1>12, <1>13 DEF EventInv, Moved, Mutates
  <2> QED
    BY <2>1, <2>2, <2>3 DEF EventInv
<1>14. CASE Recorded(u, pc1)
  <2>1. Told' = Told
    BY <1>14 DEF Told, Recorded, Mutates
  <2>2. EventInv'
    BY <1>13, <2>1
  <2>3. OnceInv' /\ EmptiedInv'
    BY <1>6, <1>14 DEF OnceInv, EmptiedInv, Recorded, Mutates, Moved, Announcing, Committed, KindInv
  <2>4. OfferInv'
    BY <1>14 DEF OfferInv, Recorded, Mutates, Moved
  <2>5. ReturnInv'
    BY <1>1, <1>2, <1>3, <1>10, <1>12, <1>14, <2>1 DEF ReturnInv, Recorded, Moved, Mutates
  <2> QED
    BY <1>4, <1>5, <1>8, <1>9, <2>2, <2>3, <2>4, <2>5
<1>15. CASE Records(u, n, write)
  <2>1. \A v \in TxCalls : ~Announcing(v) /\ txCall[v].pc # "delivering"
    <3>1. \A v \in TxCalls : txCall[v].pc = "delivering" => Announcing(v)
      BY DEF KindInv, Announcing, Committed
    <3> QED
      BY <1>15, <3>1 DEF CommitInv, Records
  <2>2. journal.events \in Seq(TxWrite) /\ Len(journal.events) \in Nat
    BY LenProperties DEF TxType, JournalType
  <2>3. /\ Len(journal'.events) = Len(journal.events) + 1
        /\ \A i \in 1 .. Len(journal.events) : journal'.events[i] = journal.events[i]
        /\ journal'.events[Len(journal.events) + 1] = write
    BY <1>3, <1>15, <2>2, AppendProperties DEF Records
  <2>4. write \in Told' /\ Told \subseteq Told' /\ \A w \in Told' : w \in Told \/ w = write
    <3> DEFINE old == journal.events
               new == journal'.events
               m == Len(journal.events)
    <3>1. m \in Nat /\ Len(new) = m + 1 /\ (\A i \in 1 .. m : new[i] = old[i]) /\ new[m + 1] = write
      BY <2>2, <2>3
    <3>2. /\ Told = {old[i] : i \in 1 .. m} \cup {offered[i].event : i \in 1 .. Len(offered)}
          /\ Told' = {new[i] : i \in 1 .. Len(new)} \cup {offered[i].event : i \in 1 .. Len(offered)}
      BY DEF Told, Mutates
    <3> HIDE DEF old, new, m
    <3>3. 1 .. Len(new) = 1 .. m \cup {m + 1}
      BY <3>1
    <3> QED
      BY <3>1, <3>2, <3>3
  <2>5. write \in changed /\ write \notin Told
    BY <1>1, <1>3, <1>15 DEF EventInv, Records
  <2>6. EventInv'
    <3>1. \A w \in changed' : txCall'[w.by].kind = "mutate"
      BY <1>1, <1>2, <1>3, <1>10, <1>12 DEF EventInv, Moved
    <3>2. \A v \in TxCalls : txCall'[v].pc = "executed" => [by |-> v, left |-> txCall'[v].left] \in changed'
      BY <1>3, <1>12 DEF EventInv, Moved, Mutates
    <3>3. \A w \in Told' :
            w \in changed' /\ (txCall'[w.by].pc \in {"executing", "executed"} => txCall'[w.by].left < w.left)
      BY <1>1, <1>3, <1>10, <1>11, <1>12, <1>15, <2>4, <2>5 DEF EventInv, Moved, Mutates, Records
    <3> QED
      BY <3>1, <3>2, <3>3 DEF EventInv
  <2>7. OnceInv'
    <3> DEFINE old == journal.events
               new == journal'.events
               m == Len(journal.events)
    <3>1. m \in Nat /\ Len(new) = m + 1 /\ (\A i \in 1 .. m : new[i] = old[i]) /\ new[m + 1] = write
      BY <2>2, <2>3
    <3>2. \A i \in 1 .. m : old[i] # write
      BY <2>5 DEF Told
    <3>3. \A i, j \in 1 .. m : old[i] = old[j] => i = j
      BY DEF OnceInv
    <3>4. \A i, j \in 1 .. Len(offered') : offered'[i] = offered'[j] => i = j
      BY DEF OnceInv, Mutates
    <3> HIDE DEF old, m
    <3>5. \A i, j \in 1 .. Len(new) : new[i] = new[j] => i = j
      <4> HIDE DEF new
      <4>1. \A i \in 1 .. Len(new) : i \in 1 .. m \/ i = m + 1
        BY <3>1
      <4> QED
        BY <3>1, <3>2, <3>3, <4>1
    <3> QED
      BY <3>4, <3>5 DEF OnceInv
  <2>8. OfferInv' /\ EmptiedInv'
    <3>1. \A v \in TxCalls : txCall'[v].pc # "delivering"
      BY <2>1 DEF Moved
    <3> QED
      BY <1>6, <2>1, <3>1 DEF OfferInv, EmptiedInv
  <2>9. ReturnInv'
    <3> SUFFICES ASSUME \A v \in TxCalls : txCall'[v].kind # "rollback",
                        NEW w \in changed', txCall'[w.by].context # {},
                        txCall'[w.by].pc \in {"executing", "executed", "returned"}
                 PROVE  w \in Told' \/ (txCall'[w.by].pc = "executed" /\ w.left = txCall'[w.by].left)
      BY DEF ReturnInv
    <3>1. \A v \in TxCalls : txCall[v].kind # "rollback"
      BY DEF Moved
    <3>2. w \in changed
      BY <1>12, <2>5
    <3>3. CASE w.by = u
      BY <1>10, <1>15, <2>4, <3>1, <3>2, <3>3 DEF ReturnInv, Moved, Records
    <3>4. CASE w.by # u
      BY <1>10, <2>4, <3>1, <3>2, <3>4 DEF ReturnInv, Moved
    <3> QED
      BY <3>3, <3>4
  <2> QED
    BY <1>4, <1>5, <1>8, <1>9, <2>6, <2>7, <2>8, <2>9
<1> QED
  BY <1>14, <1>15

\* A commit or a rollback moves on; what was told stays told.
LEMMA TxEnds ==
  ASSUME TxInv, NEW u \in TxCalls, NEW n \in Nat,
         NEW pc1 \in {"committed", "delivering", "rolled_back", "returned", "committed_error", "raised"},
         txCall[u].pc \in {"committing", "committed", "delivering", "rolling_back", "rolled_back"},
         Moved(u, pc1, n),
         opened' = opened, changed' = changed, Told' = Told
  PROVE  EventInv' /\ ReturnInv' /\ OwnInv' /\ txCall[u].kind \in {"commit", "rollback"}
<1> USE DEF TxInv
<1>1. txCall[u].kind \in {"commit", "rollback"}
  BY DEF KindInv
<1>2. \A w \in changed : w.by \in TxCalls /\ txCall'[w.by] = txCall[w.by]
  BY <1>1 DEF EventInv, TxType, TxWrite, Moved
<1>3. EventInv' /\ ReturnInv'
  <2>1. \A v \in TxCalls : txCall'[v].kind = txCall[v].kind
    BY DEF Moved
  <2>2. \A v \in TxCalls : txCall'[v].pc = "executed" => txCall'[v] = txCall[v]
    BY DEF Moved
  <2>3. EventInv'
    BY <1>2, <2>2 DEF EventInv
  <2>4. ReturnInv'
    BY <1>2, <2>1 DEF ReturnInv
  <2> QED
    BY <2>3, <2>4
<1>4. OwnInv'
  BY <1>1 DEF OwnInv, Moved
<1> QED
  BY <1>1, <1>3, <1>4

LEMMA TxExecute ==
  ASSUME TxInv, NEW u \in TxCalls, Tx!Execute(u)
  PROVE  TxInv'
<1> DEFINE write == [by |-> u, left |-> txCall[u].left]
           less == txCall[u].left - 1
<1>1. txCall[u].left \in Nat /\ txCall[u].left > 0 /\ txCall \in [TxCalls -> TxCallType] /\ txCall[u].pc = "executing"
  BY DEF TxInv, KindInv, TxType, TxCallType, Tx!Execute
<1>2. less \in Nat /\ less < txCall[u].left /\ (txCall[u].left # 1 => less > 0)
  BY <1>1
<1>3. Recorded(u, "executing") /\ Recorded(u, "executed") /\ Recorded(u, "returned") /\ Recorded(u, "raised")
  BY <1>1 DEF Recorded, Tx!Execute
<1>4. ASSUME NEW pc1 \in {"executed", "raised"}, Tx!At(u, pc1),
             changed' = changed \cup {write} \/ (pc1 = "raised" /\ changed' = changed)
      PROVE  TxInv'
  <2>1. txCall' = [txCall EXCEPT ![u].pc = pc1, ![u].left = txCall[u].left]
    BY <1>1, <1>4 DEF Tx!At, TxCallType
  <2>2. Moved(u, pc1, txCall[u].left)
    BY <1>1, <2>1, TxAt
  <2>3. Mutates(u, pc1, txCall[u].left, write)
    BY <1>1, <1>4 DEF Mutates, Tx!Execute
  <2> HIDE DEF write
  <2> QED
    BY <1>1, <1>3, <2>2, <2>3, TxMutates DEF write
<1>5. ASSUME Tx!Proceed(u), changed' = changed
      PROVE  TxInv'
  <2> DEFINE pc1 == IF txCall[u].left = 1 THEN "returned" ELSE "executing"
  <2>1. pc1 \in {"returned", "executing"} /\ (pc1 = "executing" => txCall[u].left # 1)
    OBVIOUS
  <2>2. txCall' = [txCall EXCEPT ![u].pc = pc1, ![u].left = less]
    BY <1>1, <1>5 DEF Tx!Proceed, TxCallType
  <2> HIDE DEF pc1, less
  <2>3. Moved(u, pc1, less)
    BY <1>2, <2>1, <2>2, TxAt
  <2>4. Mutates(u, pc1, less, write)
    BY <1>1, <1>2, <1>5, <2>1 DEF Mutates, Tx!Execute
  <2>5. Recorded(u, pc1)
    BY <1>3, <2>1
  <2> HIDE DEF write
  <2> QED
    BY <1>1, <1>2, <2>1, <2>3, <2>4, <2>5, TxMutates DEF write
<1> QED
  BY <1>4, <1>5 DEF Tx!Execute

LEMMA TxRecord ==
  ASSUME TxInv, NEW u \in TxCalls, Tx!Record(u)
  PROVE  TxInv'
<1> DEFINE write == [by |-> u, left |-> txCall[u].left]
           less == txCall[u].left - 1
<1>1. txCall[u].left \in Nat /\ txCall[u].left > 0 /\ txCall \in [TxCalls -> TxCallType] /\ txCall[u].pc = "executed"
  BY DEF TxInv, KindInv, TxType, TxCallType, Tx!Record
<1>2. less \in Nat /\ less < txCall[u].left /\ (txCall[u].left # 1 => less > 0)
  BY <1>1
<1>3. write \in TxWrite /\ journal \in JournalType
  BY <1>1 DEF TxWrite, TxInv, TxType
<1>4. ASSUME Tx!At(u, "raised"), journal' = journal
      PROVE  TxInv'
  <2>1. txCall' = [txCall EXCEPT ![u].pc = "raised", ![u].left = txCall[u].left]
    BY <1>1, <1>4 DEF Tx!At, TxCallType
  <2>2. Moved(u, "raised", txCall[u].left)
    BY <1>1, <2>1, TxAt
  <2>3. Mutates(u, "raised", txCall[u].left, write) /\ Recorded(u, "raised")
    BY <1>1, <1>4 DEF Mutates, Recorded, Tx!Record
  <2> HIDE DEF write
  <2> QED
    BY <1>1, <2>2, <2>3, TxMutates DEF write
<1>5. ASSUME Tx!Recordable(u), Tx!Proceed(u),
             journal' = IF txCall[u].context = {} THEN journal
                          ELSE [journal EXCEPT !.events = Append(@, write)]
      PROVE  TxInv'
  <2> DEFINE pc1 == IF txCall[u].left = 1 THEN "returned" ELSE "executing"
  <2>1. pc1 \in {"returned", "executing"} /\ (pc1 = "executing" => txCall[u].left # 1)
    OBVIOUS
  <2>2. txCall' = [txCall EXCEPT ![u].pc = pc1, ![u].left = less]
    BY <1>1, <1>5 DEF Tx!Proceed, TxCallType
  <2> HIDE DEF pc1, less
  <2>3. Moved(u, pc1, less)
    BY <1>2, <2>1, <2>2, TxAt
  <2>4. Mutates(u, pc1, less, write)
    BY <1>1, <1>2, <1>5, <2>1 DEF Mutates, Tx!Record
  <2> HIDE DEF write
  <2>5. Recorded(u, pc1) \/ Records(u, less, write)
    <3>1. CASE txCall[u].context = {}
      BY <1>5, <3>1 DEF Recorded
    <3>2. CASE txCall[u].context # {}
      <4>1. journal' = [journal EXCEPT !.events = Append(journal.events, write)] /\ journal.active
        BY <1>5, <3>2 DEF Tx!Recordable
      <4>2. Append(journal.events, write) \in Seq(TxWrite)
        BY <1>3, AppendProperties DEF JournalType
      <4>3. journal' \in JournalType /\ journal'.active = journal.active
            /\ journal'.events = Append(journal.events, write)
        BY <1>3, <4>1, <4>2 DEF JournalType
      <4> QED
        BY <1>1, <1>2, <4>1, <4>3 DEF Records
    <3> QED
      BY <3>1, <3>2
  <2> QED
    BY <1>1, <1>2, <2>1, <2>3, <2>4, <2>5, TxMutates DEF write
<1> QED
  BY <1>4, <1>5 DEF Tx!Record

\* A commit or a rollback on its way to or from the database, which has been told.
LEMMA TxSettles ==
  ASSUME TxInv, NEW u \in TxCalls, NEW pc0, NEW pc1, txCall[u].pc = pc0,
         \/ pc0 = "committing" /\ pc1 = "committed"
         \/ pc0 = "rolling_back" /\ pc1 = "rolled_back"
         \/ pc0 = "rolled_back" /\ pc1 = "returned"
         \/ pc0 \in {"committing", "committed", "rolling_back", "rolled_back"} /\ pc1 = "raised",
         Tx!At(u, pc1),
         UNCHANGED <<opened, completed, journal, changed, offered>>,
         db' = db \/ db = "open", db' \in {"committed", "rolled_back"},
         db' = "committed" => db = "committed" \/ pc1 = "committed",
         pc1 = "committed" => db' = "committed" \/ (db' = "rolled_back" /\ RolledBack)
  PROVE  TxInv'
<1> USE DEF TxInv
<1>1. txCall[u].left \in Nat /\ txCall \in [TxCalls -> TxCallType]
  BY DEF TxType, TxCallType
<1>2. txCall' = [txCall EXCEPT ![u].pc = pc1, ![u].left = txCall[u].left]
  BY <1>1 DEF Tx!At, TxCallType
<1>3. Moved(u, pc1, txCall[u].left)
  BY <1>1, <1>2, TxAt
<1>4. Told' = Told
  BY DEF Told
<1>5. EventInv' /\ ReturnInv' /\ OwnInv'
  BY <1>1, <1>3, <1>4, TxEnds
<1>6. TxType' /\ KindInv' /\ OnceInv'
  BY <1>1, <1>3 DEF TxType, KindInv, OnceInv, Moved
<1>7. OfferInv'
  BY <1>3 DEF OfferInv, Moved
<1>8. \A v \in TxCalls : /\ Announcing(v)' <=> Announcing(v)
                         /\ Committed(v)' => Committed(v) \/ (v = u /\ pc1 = "committed")
  BY <1>3 DEF Committed, Announcing, Moved, KindInv
<1>9. RolledBack' <=> RolledBack
  BY <1>3 DEF RolledBack, Moved
<1>10. CommitInv'
  <2>1. db' = "rolled_back" =>
          RolledBack' \/ \E v \in TxCalls : txCall'[v].kind = "commit" /\ txCall'[v].pc = "raised"
    <3> SUFFICES ASSUME db' = "rolled_back", ~RolledBack
                 PROVE  \E v \in TxCalls : txCall'[v].kind = "commit" /\ txCall'[v].pc = "raised"
      BY <1>9
    <3>1. txCall[u].kind = "commit"
      BY DEF KindInv, RolledBack
    <3>2. pc0 \in {"committing", "committed"}
      BY <3>1 DEF KindInv
    <3>3. CASE pc1 = "raised"
      BY <1>3, <3>1, <3>3 DEF Moved
    <3>4. CASE pc1 = "committed"
      BY <3>4
    <3> QED
      BY <3>2, <3>3, <3>4
  <2>2. \A v \in TxCalls : Committed(v)' => db' = "committed" \/ (db' = "rolled_back" /\ RolledBack')
    BY <1>8, <1>9 DEF CommitInv
  <2>3. \A i \in 1 .. Len(offered) : Announcing(offered[i].via)'
    <3>1. \A i \in 1 .. Len(offered) : offered[i].via \in TxCalls
      BY TxOffers
    <3> QED
      BY <1>8, <3>1 DEF CommitInv
  <2> QED
    BY <1>8, <1>9, <2>1, <2>2, <2>3 DEF CommitInv
<1>11. EmptiedInv'
  BY <1>3, <1>8 DEF EmptiedInv, Moved, KindInv, Announcing, Committed
<1> QED
  BY <1>5, <1>6, <1>7, <1>10, <1>11

LEMMA TxDbCommit ==
  ASSUME TxInv, NEW u \in TxCalls, Tx!DbCommit(u)
  PROVE  TxInv'
<1>1. db \in {"open", "committed", "rolled_back"} /\ db' = IF db = "open" THEN "committed" ELSE db
  BY DEF TxInv, TxType, Tx!DbCommit
<1>2. db = "rolled_back" => RolledBack
  BY DEF TxInv, CommitInv, Tx!DbCommit, Tx!Closed, Tx!Over, Tx!Made
<1> QED
  BY <1>1, <1>2, TxSettles DEF Tx!DbCommit

LEMMA TxCommitRaises ==
  ASSUME TxInv, NEW u \in TxCalls, Tx!CommitRaises(u)
  PROVE  TxInv'
<1>1. db \in {"open", "committed", "rolled_back"} /\ db' = IF db = "open" THEN "rolled_back" ELSE db
  BY DEF TxInv, TxType, Tx!CommitRaises
<1>2. txCall[u].pc \in {"committing", "committed"} /\ Tx!At(u, "raised")
  BY DEF Tx!CommitRaises
<1> QED
  BY <1>1, <1>2, TxSettles DEF Tx!CommitRaises

LEMMA TxCommitReturns ==
  ASSUME TxInv, NEW u \in TxCalls, Tx!CommitReturns(u)
  PROVE  TxInv'
<1> USE DEF TxInv
<1>1. txCall \in [TxCalls -> TxCallType] /\ txCall[u].pc = "committed" /\ txCall[u].kind = "commit"
  BY DEF TxType, TxCallType, KindInv, Tx!CommitReturns
<1>2. Moved(u, "delivering", 1)
  BY TxAt DEF Tx!CommitReturns
<1>3. journal' \in JournalType /\ journal'.events = journal.events /\ journal'.active = FALSE
  BY DEF TxType, JournalType, Tx!CommitReturns
<1>4. Told' = Told
  BY <1>3 DEF Told, Tx!CommitReturns
<1>5. EventInv' /\ ReturnInv' /\ OwnInv'
  BY <1>1, <1>2, <1>4, TxEnds DEF Tx!CommitReturns
<1>6. TxType' /\ KindInv' /\ OnceInv'
  BY <1>1, <1>2, <1>3 DEF TxType, KindInv, OnceInv, Moved, Tx!CommitReturns
<1>7. \A v \in TxCalls : (Committed(v)' <=> Committed(v)) /\ (Announcing(v) => Announcing(v)')
  BY <1>1, <1>2 DEF Committed, Announcing, Moved
<1>8. RolledBack' <=> RolledBack
  BY <1>2 DEF RolledBack, Moved
<1>9. \A i \in 1 .. Len(offered) : offered[i].via \in TxCalls /\ offered[i].via # u
  BY <1>1, TxOffers DEF CommitInv, Announcing
<1>10. CommitInv'
  <2>1. \A v \in TxCalls : txCall[v].pc = "raised" => txCall'[v] = txCall[v]
    BY <1>1, <1>2 DEF Moved
  <2>2. completed' = TRUE /\ db' = db /\ offered' = offered
    BY DEF Tx!CommitReturns
  <2> QED
    BY <1>3, <1>7, <1>8, <1>9, <2>1, <2>2 DEF CommitInv
<1>11. OfferInv'
  <2>1. Len(journal'.events) \in Nat /\ offered' = offered
    BY <1>3, LenProperties DEF JournalType, Tx!CommitReturns
  <2>2. \A v \in TxCalls : v # u => txCall'[v] = txCall[v]
    BY <1>2 DEF Moved
  <2>3. txCall'[u].left = 1 /\ txCall'[u].left - 1 = 0 /\ 1 .. 0 = {}
    BY <1>2 DEF Moved
  <2> DEFINE Has(e, o, v) ==
               /\ txCall'[v].left \in 1 .. Len(e) + 1
               /\ \A i \in 1 .. txCall'[v].left - 1 :
                    \E j \in 1 .. Len(o) : o[j] = [event |-> e[i], via |-> v]
               /\ \A j \in 1 .. Len(o) : o[j].via = v => \E i \in 1 .. txCall'[v].left - 1 : o[j].event = e[i]
  <2>4. ASSUME NEW v \in TxCalls, txCall'[v].pc = "delivering", journal.events # <<>>
        PROVE  Has(journal.events, offered, v)
    <3>1. CASE v = u
      BY <1>3, <1>9, <2>1, <2>3, <3>1
    <3>2. CASE v # u
      BY <2>2, <2>4, <3>2 DEF OfferInv
    <3> QED
      BY <3>1, <3>2
  <2>5. ASSUME NEW v \in TxCalls, txCall'[v].pc = "delivering", journal'.events # <<>>
        PROVE  Has(journal'.events, offered', v)
    <3> HIDE DEF Has
    <3> QED
      BY <1>3, <2>1, <2>4, <2>5
  <2> QED
    BY <2>5 DEF OfferInv
<1>12. EmptiedInv'
  BY <1>2, <1>3 DEF EmptiedInv, Moved, Announcing, Committed
<1> QED
  BY <1>5, <1>6, <1>10, <1>11, <1>12

LEMMA TxDeliver ==
  ASSUME TxInv, NEW u \in TxCalls, Tx!Deliver(u)
  PROVE  TxInv'
<1> USE DEF TxInv
<1> DEFINE n == txCall[u].left
           more == txCall[u].left + 1
           events == journal.events
           offer == [event |-> journal.events[txCall[u].left], via |-> u]
<1>1. /\ n \in Nat /\ more \in Nat /\ more = n + 1 /\ txCall \in [TxCalls -> TxCallType]
      /\ txCall[u].pc = "delivering" /\ txCall[u].kind = "commit"
      /\ journal \in JournalType /\ journal' = journal
  BY DEF TxType, TxCallType, KindInv, Tx!Deliver
<1>2. txCall' = [txCall EXCEPT ![u].pc = "delivering", ![u].left = more]
  BY <1>1 DEF Tx!Deliver, TxCallType
<1>3. Moved(u, "delivering", more)
  BY <1>1, <1>2, TxAt
<1>4. events \in Seq(TxWrite) /\ n \in 1 .. Len(events) /\ Len(events) \in Nat
  BY <1>1, LenProperties DEF JournalType, Tx!Deliver
<1>5. events # <<>> /\ events[n] \in TxWrite /\ offer \in TxOffer /\ offer.event = events[n] /\ offer.via = u
  BY <1>4, EmptySeq, ElementOfSeq DEF TxOffer
<1>6. /\ Len(offered) \in Nat /\ offered \in Seq(TxOffer)
      /\ \A i \in 1 .. n - 1 : \E j \in 1 .. Len(offered) : offered[j] = [event |-> events[i], via |-> u]
      /\ \A j \in 1 .. Len(offered) :
           offered[j].via = u => \E i \in 1 .. n - 1 : offered[j].event = events[i]
  BY <1>1, <1>5, LenProperties DEF OfferInv, TxType
<1>7. /\ offered' \in Seq(TxOffer) /\ Len(offered') = Len(offered) + 1
      /\ \A i \in 1 .. Len(offered) : offered'[i] = offered[i]
      /\ offered'[Len(offered) + 1] = offer
  BY <1>5, <1>6, AppendProperties DEF Tx!Deliver
<1> DEFINE l == Len(offered)
<1>8. /\ l \in Nat /\ Len(offered') = l + 1 /\ 1 .. Len(offered') = 1 .. l \cup {l + 1}
      /\ offered'[l + 1] = offer /\ \A i \in 1 .. l : offered'[i] = offered[i]
  BY <1>6, <1>7
<1>9. Told' = Told
  <2>1. /\ Told = {events[i] : i \in 1 .. Len(events)} \cup {offered[i].event : i \in 1 .. l}
        /\ Told' = {events[i] : i \in 1 .. Len(events)} \cup {offered'[i].event : i \in 1 .. Len(offered')}
    BY <1>1 DEF Told
  <2> HIDE DEF n, events, offer, l
  <2> QED
    BY <1>4, <1>5, <1>8, <2>1
<1>10. \A i \in 1 .. l : offered[i] # offer
  <2> SUFFICES ASSUME NEW i \in 1 .. l, offered[i].via = u, offered[i].event = events[n]
               PROVE  FALSE
    BY <1>5
  <2>1. PICK k \in 1 .. n - 1 : events[n] = events[k]
    BY <1>6
  <2>2. k \in 1 .. Len(events) /\ k # n
    BY <1>1, <1>4
  <2> QED
    BY <1>4, <2>1, <2>2 DEF OnceInv
<1>11. EventInv' /\ ReturnInv' /\ OwnInv'
  BY <1>1, <1>3, <1>9, TxEnds DEF Tx!Deliver
<1>12. TxType' /\ KindInv'
  BY <1>1, <1>3, <1>7 DEF TxType, KindInv, Moved, Tx!Deliver
<1>13. OnceInv'
  <2>1. \A i, j \in 1 .. l : offered[i] = offered[j] => i = j
    BY DEF OnceInv
  <2>2. \A i, j \in 1 .. Len(offered') : offered'[i] = offered'[j] => i = j
    <3> HIDE DEF l, offer
    <3> QED
      BY <1>8, <1>10, <2>1
  <2> QED
    BY <1>1, <2>2 DEF OnceInv
<1>14. Committed(u) /\ Announcing(u) /\ ~RolledBack
  BY <1>1, <1>5 DEF Committed, Announcing, CommitInv
<1>15. \A v \in TxCalls : (Committed(v)' <=> Committed(v)) /\ (Announcing(v)' <=> Announcing(v))
  BY <1>1, <1>3 DEF Committed, Announcing, Moved
<1>16. CommitInv'
  <2>1. db' = "committed" /\ completed' = completed
    BY <1>14 DEF CommitInv, Tx!Deliver
  <2>2. RolledBack' <=> RolledBack
    BY <1>3 DEF RolledBack, Moved
  <2>3. \A i \in 1 .. l : offered[i].via \in TxCalls
    BY TxOffers
  <2>4. \A i \in 1 .. Len(offered') : Announcing(offered[i].via)'
    <3> DEFINE Begun(v) == txCall'[v].kind = "commit"
                           /\ txCall'[v].pc \in {"delivering", "returned", "committed_error"}
    <3>1. \A v \in TxCalls : Announcing(v)' <=> Begun(v)
      BY DEF Announcing, Committed
    <3>2. Begun(u) /\ \A i \in 1 .. l : Begun(offered[i].via)
      BY <1>14, <1>15, <2>3, <3>1 DEF CommitInv
    <3>3. \A i \in 1 .. Len(offered') : offered'[i].via \in TxCalls /\ Begun(offered'[i].via)
      <4> HIDE DEF l, offer, Begun
      <4>1. \A i \in 1 .. l : offered'[i].via = offered[i].via
        BY <1>8
      <4>2. offered'[l + 1].via = u
        BY <1>5, <1>8
      <4> QED
        BY <1>8, <2>3, <3>2, <4>1, <4>2
    <3> HIDE DEF l, offer
    <3> QED
      BY <3>3 DEF Announcing, Committed
  <2> QED
    BY <1>1, <1>14, <1>15, <2>1, <2>2, <2>4 DEF CommitInv
<1>17. EmptiedInv'
  BY <1>1, <1>3, <1>15 DEF EmptiedInv, Moved
<1>18. OfferInv'
  <2> SUFFICES ASSUME NEW v \in TxCalls, txCall'[v].pc = "delivering"
               PROVE  /\ txCall'[v].left \in 1 .. Len(events) + 1
                      /\ \A i \in 1 .. txCall'[v].left - 1 :
                           \E j \in 1 .. Len(offered') : offered'[j] = [event |-> events[i], via |-> v]
                      /\ \A j \in 1 .. Len(offered') :
                           offered'[j].via = v => \E i \in 1 .. txCall'[v].left - 1 : offered'[j].event = events[i]
    BY <1>1 DEF OfferInv
  <2>1. CASE v = u
    <3>1. txCall'[v].left = n + 1 /\ txCall'[v].left - 1 = n /\ 1 .. n = 1 .. n - 1 \cup {n}
      BY <1>1, <1>3, <1>4, <2>1 DEF Moved
    <3>2. offer = [event |-> events[n], via |-> v]
      BY <2>1
    <3> HIDE DEF l, offer, events, n
    <3>3. \A i \in 1 .. n : \E j \in 1 .. Len(offered') : offered'[j] = [event |-> events[i], via |-> v]
      <4> TAKE i \in 1 .. n
      <4>1. CASE i \in 1 .. n - 1
        <5>1. PICK j \in 1 .. Len(offered) : offered[j] = [event |-> events[i], via |-> u]
          BY <1>6, <4>1
        <5>2. j \in 1 .. Len(offered') /\ offered'[j] = offered[j]
          BY <1>6, <1>7
        <5> QED
          BY <2>1, <5>1, <5>2
      <4>2. CASE i = n
        BY <1>8, <3>2, <4>2
      <4> QED
        BY <3>1, <4>1, <4>2
    <3>4. \A j \in 1 .. Len(offered') :
            offered'[j].via = v => \E i \in 1 .. n : offered'[j].event = events[i]
      <4> TAKE j \in 1 .. Len(offered')
      <4>1. CASE j \in 1 .. Len(offered)
        <5>1. offered'[j] = offered[j]
          BY <1>7, <4>1
        <5> QED
          BY <1>6, <2>1, <3>1, <4>1, <5>1
      <4>2. CASE j = Len(offered) + 1
        <5>1. offered'[j].event = events[n]
          BY <1>5, <1>7, <4>2
        <5> QED
          BY <3>1, <5>1
      <4> QED
        BY <1>6, <1>7, <4>1, <4>2
    <3>5. n + 1 \in 1 .. Len(events) + 1
      BY <1>4
    <3> QED
      BY <3>1, <3>3, <3>4, <3>5
  <2>2. CASE v # u
    <3>1. txCall'[v] = txCall[v] /\ txCall[v].pc = "delivering"
      BY <1>3, <2>2 DEF Moved
    <3>2. /\ txCall[v].left \in 1 .. Len(events) + 1
          /\ \A i \in 1 .. txCall[v].left - 1 :
               \E j \in 1 .. Len(offered) : offered[j] = [event |-> events[i], via |-> v]
          /\ \A j \in 1 .. Len(offered) :
               offered[j].via = v => \E i \in 1 .. txCall[v].left - 1 : offered[j].event = events[i]
      BY <1>5, <3>1 DEF OfferInv
    <3> HIDE DEF l, offer, events, n
    <3>3. \A j \in 1 .. Len(offered) : j \in 1 .. Len(offered') /\ offered'[j] = offered[j]
      BY <1>6, <1>7
    <3>4. \A j \in 1 .. Len(offered') : offered'[j].via = v => j \in 1 .. Len(offered)
      BY <1>5, <1>6, <1>7, <2>2
    <3>5. ASSUME NEW i \in 1 .. txCall[v].left - 1
          PROVE  \E j \in 1 .. Len(offered') : offered'[j] = [event |-> events[i], via |-> v]
      <4>1. PICK j \in 1 .. Len(offered) : offered[j] = [event |-> events[i], via |-> v]
        BY <3>2
      <4> QED
        BY <3>3, <4>1
    <3>6. ASSUME NEW j \in 1 .. Len(offered'), offered'[j].via = v
          PROVE  \E i \in 1 .. txCall[v].left - 1 : offered'[j].event = events[i]
      BY <3>2, <3>3, <3>4, <3>6
    <3> QED
      BY <3>1, <3>2, <3>5, <3>6
  <2> QED
    BY <2>1, <2>2
<1> QED
  BY <1>11, <1>12, <1>13, <1>16, <1>17, <1>18

LEMMA TxDelivered ==
  ASSUME TxInv, NEW u \in TxCalls, Tx!Delivered(u)
  PROVE  TxInv'
<1> USE DEF TxInv
<1> DEFINE pc1 == IF u \in sinkRaised THEN "committed_error" ELSE "returned"
<1>1. /\ txCall[u].left \in Nat /\ txCall \in [TxCalls -> TxCallType] /\ pc1 \in {"committed_error", "returned"}
      /\ txCall[u].pc = "delivering" /\ txCall[u].kind = "commit"
  BY DEF TxType, TxCallType, KindInv, Tx!Delivered
<1>2. txCall' = [txCall EXCEPT ![u].pc = pc1, ![u].left = txCall[u].left]
  BY <1>1 DEF Tx!Delivered, Tx!At, TxCallType
<1> HIDE DEF pc1
<1>3. Moved(u, pc1, txCall[u].left)
  BY <1>1, <1>2, TxAt
<1>4. <<>> \in Seq(TxWrite) /\ Len(<<>>) = 0
  BY EmptySeq
<1>5. journal' \in JournalType /\ journal'.events = <<>> /\ journal'.active = journal.active
  BY <1>4 DEF TxType, JournalType, Tx!Delivered
<1>6. \A i \in 1 .. Len(journal.events) : \E j \in 1 .. Len(offered) : offered[j].event = journal.events[i]
  <2>1. CASE journal.events = <<>>
    BY <1>4, <2>1
  <2>2. CASE journal.events # <<>>
    <3>1. /\ txCall[u].left \in 1 .. Len(journal.events) + 1
          /\ \A i \in 1 .. txCall[u].left - 1 :
               \E j \in 1 .. Len(offered) : offered[j] = [event |-> journal.events[i], via |-> u]
      BY <1>1, <2>2 DEF OfferInv
    <3>2. journal.events \in Seq(TxWrite) /\ Len(journal.events) \in Nat
      BY LenProperties DEF TxType, JournalType
    <3>3. txCall[u].left \notin 1 .. Len(journal.events)
      BY <3>2, LenProperties DEF Tx!Delivered
    <3>4. txCall[u].left - 1 = Len(journal.events)
      BY <3>1, <3>2, <3>3
    <3>5. ASSUME NEW i \in 1 .. Len(journal.events)
          PROVE  \E j \in 1 .. Len(offered) : offered[j].event = journal.events[i]
      <4>1. PICK j \in 1 .. Len(offered) : offered[j] = [event |-> journal.events[i], via |-> u]
        BY <3>1, <3>4
      <4> QED
        BY <4>1
    <3> QED
      BY <3>5
  <2> QED
    BY <2>1, <2>2
<1>7. Told' = Told
  <2>1. Told = {offered[i].event : i \in 1 .. Len(offered)}
    BY <1>6 DEF Told
  <2>2. Told' = {offered[i].event : i \in 1 .. Len(offered)}
    BY <1>4, <1>5 DEF Told, Tx!Delivered
  <2> QED
    BY <2>1, <2>2
<1>8. EventInv' /\ ReturnInv' /\ OwnInv'
  BY <1>1, <1>3, <1>7, TxEnds DEF Tx!Delivered
<1>9. TxType' /\ KindInv'
  BY <1>1, <1>3, <1>5 DEF TxType, KindInv, Moved, Tx!Delivered
<1>10. OnceInv'
  <2>1. 1 .. Len(journal'.events) = {}
    BY <1>4, <1>5
  <2> QED
    BY <2>1 DEF OnceInv, Tx!Delivered
<1>11. \A v \in TxCalls : (Committed(v)' <=> Committed(v)) /\ (Announcing(v)' <=> Announcing(v))
  BY <1>1, <1>3 DEF Committed, Announcing, Moved
<1>12. CommitInv'
  <2>1. RolledBack' <=> RolledBack
    BY <1>3 DEF RolledBack, Moved
  <2>2. \A v \in TxCalls : txCall[v].pc = "raised" => txCall'[v] = txCall[v]
    BY <1>1, <1>3 DEF Moved
  <2>3. \A i \in 1 .. Len(offered) : offered[i].via \in TxCalls
    BY TxOffers
  <2> QED
    BY <1>5, <1>11, <2>1, <2>2, <2>3 DEF CommitInv, Tx!Delivered
<1>13. OfferInv' /\ EmptiedInv'
  BY <1>5 DEF OfferInv, EmptiedInv
<1> QED
  BY <1>8, <1>9, <1>10, <1>12, <1>13

LEMMA TxDbRollback ==
  ASSUME TxInv, NEW u \in TxCalls, Tx!DbRollback(u)
  PROVE  TxInv'
<1>1. db \in {"open", "committed", "rolled_back"} /\ db' = IF db = "open" THEN "rolled_back" ELSE db
  BY DEF TxInv, TxType, Tx!DbRollback
<1> QED
  BY <1>1, TxSettles DEF Tx!DbRollback

LEMMA TxRollbackEnds ==
  ASSUME TxInv, NEW u \in TxCalls, Tx!RollbackEnds(u)
  PROVE  TxInv'
<1>1. db \in {"open", "committed", "rolled_back"} /\ db' = IF db = "open" THEN "rolled_back" ELSE db
  BY DEF TxInv, TxType, Tx!RollbackEnds
<1>2. \/ txCall[u].pc = "rolled_back" /\ Tx!At(u, "returned")
      \/ txCall[u].pc \in {"rolling_back", "rolled_back"} /\ Tx!At(u, "raised")
  BY DEF Tx!RollbackEnds
<1> QED
  BY <1>1, <1>2, TxSettles DEF Tx!RollbackEnds

LEMMA TxMutate ==
  ASSUME TxInv, NEW u \in TxCalls, NEW context \in SUBSET Owners, NEW n \in Nat, n > 0,
         Tx!Mutate(u, context, n)
  PROVE  TxInv'
<1>1. journal' \in JournalType /\ journal'.events = journal.events
  BY DEF TxInv, TxType, JournalType, Tx!Mutate
<1>2. completed = FALSE /\ completed' = FALSE
  BY DEF TxInv, TxType, Tx!Mutate
<1>3. Tx!Starts(u, "mutate", "executing", context, n) /\ UNCHANGED <<opened, db, changed, offered>>
  BY DEF Tx!Mutate
<1> QED
  BY <1>1, <1>2, <1>3, TxStarts

LEMMA TxRefuse ==
  ASSUME TxInv, NEW u \in TxCalls, NEW kind \in {"mutate", "commit"}, NEW context \in SUBSET Owners,
         Tx!Refuse(u, kind, context)
  PROVE  TxInv'
<1>1. journal' = journal /\ completed' = completed
  BY DEF Tx!Refuse
<1>2. journal \in JournalType /\ completed \in BOOLEAN /\ (completed => ~journal.active)
  BY DEF TxInv, TxType, CommitInv
<1>3. Tx!Starts(u, kind, "refused", context, 0) /\ UNCHANGED <<opened, db, changed, offered>>
  BY DEF Tx!Refuse
<1> QED
  BY <1>1, <1>2, <1>3, TxStarts

LEMMA TxCommit ==
  ASSUME TxInv, NEW u \in TxCalls, Tx!Commit(u)
  PROVE  TxInv'
<1>1. journal' = journal /\ completed' = completed
  BY DEF Tx!Commit
<1>2. journal \in JournalType /\ completed \in BOOLEAN /\ (completed => ~journal.active)
  BY DEF TxInv, TxType, CommitInv
<1>3. Tx!Starts(u, "commit", "committing", {}, 0) /\ UNCHANGED <<opened, db, changed, offered>>
  BY DEF Tx!Commit
<1> QED
  BY <1>1, <1>2, <1>3, TxStarts

LEMMA TxRollback ==
  ASSUME TxInv, NEW u \in TxCalls, Tx!Rollback(u)
  PROVE  TxInv'
<1>1. journal' \in JournalType /\ journal'.events = <<>> /\ journal'.active = FALSE /\ completed' = TRUE
  <2>1. <<>> \in Seq(TxWrite)
    BY EmptySeq
  <2> QED
    BY <2>1 DEF TxInv, TxType, JournalType, Tx!Rollback
<1>2. Tx!Starts(u, "rollback", "rolling_back", {}, 0) /\ UNCHANGED <<opened, db, changed, offered>>
  BY DEF Tx!Rollback
<1> QED
  BY <1>1, <1>2, TxStarts

\* One step per action of a SQL transaction.
LEMMA TxStep ==
  ASSUME TxInv, Tx!TxNext
  PROVE  TxInv'
<1> PICK u \in TxCalls :
      \/ \E context \in {{}} \cup {{v} : v \in Owners} :
           \/ \E n \in 1 .. MaxItems : Tx!Mutate(u, context, n)
           \/ Tx!Refuse(u, "mutate", context)
      \/ Tx!Refuse(u, "commit", {})
      \/ Tx!Execute(u) \/ Tx!Record(u)
      \/ Tx!Commit(u) \/ Tx!DbCommit(u) \/ Tx!CommitRaises(u) \/ Tx!CommitReturns(u)
      \/ Tx!Deliver(u) \/ Tx!Delivered(u)
      \/ Tx!Rollback(u) \/ Tx!DbRollback(u) \/ Tx!RollbackEnds(u)
  BY DEF Tx!TxNext
<1>1. ASSUME NEW context \in {{}} \cup {{v} : v \in Owners}
      PROVE  context \in SUBSET Owners
  OBVIOUS
<1>2. ASSUME NEW context \in SUBSET Owners, NEW n \in 1 .. MaxItems, Tx!Mutate(u, context, n)
      PROVE  TxInv'
  <2>1. n \in Nat /\ n > 0
    BY ItemsAssumption DEF ItemsAssumption
  <2> QED
    BY <1>2, <2>1, TxMutate
<1>3. ASSUME NEW context \in SUBSET Owners, Tx!Refuse(u, "mutate", context)
      PROVE  TxInv'
  BY <1>3, TxRefuse
<1>4. CASE Tx!Refuse(u, "commit", {})
  BY <1>4, TxRefuse
<1>5. CASE Tx!Execute(u)
  BY <1>5, TxExecute
<1>6. CASE Tx!Record(u)
  BY <1>6, TxRecord
<1>7. CASE Tx!Commit(u)
  BY <1>7, TxCommit
<1>8. CASE Tx!DbCommit(u)
  BY <1>8, TxDbCommit
<1>9. CASE Tx!CommitRaises(u)
  BY <1>9, TxCommitRaises
<1>10. CASE Tx!CommitReturns(u)
  BY <1>10, TxCommitReturns
<1>11. CASE Tx!Deliver(u)
  BY <1>11, TxDeliver
<1>12. CASE Tx!Delivered(u)
  BY <1>12, TxDelivered
<1>13. CASE Tx!Rollback(u)
  BY <1>13, TxRollback
<1>14. CASE Tx!DbRollback(u)
  BY <1>14, TxDbRollback
<1>15. CASE Tx!RollbackEnds(u)
  BY <1>15, TxRollbackEnds
<1> QED
  BY <1>1, <1>2, <1>3, <1>4, <1>5, <1>6, <1>7, <1>8, <1>9, <1>10, <1>11, <1>12, <1>13, <1>14, <1>15

LEMMA SameSize ==
  ASSUME NEW S
  PROVE  Tx!Cardinality(S) = Cardinality(S)
BY DEF Tx!Cardinality, Cardinality

\* The audits of a SQL transaction are those of its committed rows, each offered once by
\* a commit, and by one commit unless several overlapped, whatever tasks call on it, in
\* any order or at once, and whichever statement, commit or sink raises or is cancelled (SqlDataServiceTransaction, _mutate, _CommittedAuditJournal).
THEOREM JournalSafe == AnySpec => []JournalTruthful
<1>1. TxInv /\ [AnyNext]_allVars => TxInv'
  <2> SUFFICES ASSUME TxInv, [AnyNext]_allVars PROVE TxInv'
    OBVIOUS
  <2>1. CASE Tx!TxNext
    BY <2>1, TxStep
  <2>2. CASE UNCHANGED txVars
    BY <2>2 DEF txVars, TxInv, TxType, KindInv, CommitInv, EventInv, OnceInv, OfferInv, ReturnInv,
                EmptiedInv, OwnInv, Told, Announcing, Committed, RolledBack
  <2> QED
    BY <2>1, <2>2 DEF AnyNext, allVars
<1>2. TxInv => JournalTruthful
  <2> SUFFICES ASSUME TxInv PROVE Tx!OnlyCommitted /\ Tx!AllReturned /\ Tx!OwnTransactionEnds
    BY DEF JournalTruthful, Tx!JournalTruthful
  <2> USE DEF TxInv
  <2>1. offered \in Seq(TxOffer) /\ Len(offered) \in Nat /\ DOMAIN offered = 1 .. Len(offered)
    BY LenProperties DEF TxType
  <2> DEFINE offers == Tx!ToSet(offered)
  <2>2. /\ offers = {offered[i] : i \in 1 .. Len(offered)}
        /\ Tx!Announced = {offered[i].event : i \in 1 .. Len(offered)}
    BY <2>1 DEF Tx!Announced, Tx!ToSet
  <2>3. Tx!OnlyCommitted
    <3>1. offered # <<>> => db = "committed"
      BY DEF CommitInv
    <3>2. Tx!Announced \subseteq changed
      BY <2>2 DEF EventInv, Told
    <3>3. \A offer \in offers : offer.via \in Tx!Announcers
      <4>1. \A i \in 1 .. Len(offered) : offered[i].via \in TxCalls /\ Announcing(offered[i].via)
        BY TxOffers DEF CommitInv
      <4>2. \A u \in TxCalls : Announcing(u) => u \in Tx!Announcers
        BY DEF Announcing, Committed, Tx!Announcers, Tx!Over, Tx!Made
      <4> QED
        BY <2>2, <4>1, <4>2
    <3> HIDE DEF offers
    <3>4. offered \in Surjection(1 .. Len(offered), offers)
      BY <2>1, <2>2 DEF Surjection
    <3>5. offered \in Injection(1 .. Len(offered), offers)
      <4>1. offered \in [1 .. Len(offered) -> offers]
        BY <3>4 DEF Surjection
      <4>2. \A i, j \in 1 .. Len(offered) : offered[i] = offered[j] => i = j
        BY DEF OnceInv
      <4> QED
        BY <4>1, <4>2 DEF Injection, IsInjective
    <3>6. IsFiniteSet(1 .. Len(offered)) /\ Cardinality(1 .. Len(offered)) = Len(offered)
      BY <2>1, FS_Interval
    <3>7. Cardinality(offers) = Len(offered)
      BY <3>4, <3>5, <3>6, FS_Surjection
    <3>8. Tx!Cardinality(offers) = Len(offered)
      BY <3>7, SameSize
    <3> QED
      BY <3>1, <3>2, <3>3, <3>8 DEF Tx!OnlyCommitted, offers
  <2>4. Tx!AllReturned
    <3> SUFFICES ASSUME NEW u \in TxCalls, txCall[u].kind = "commit", txCall[u].pc \in {"returned", "committed_error"},
                        \A v \in TxCalls : txCall[v].kind # "rollback"
                 PROVE  /\ db = "committed"
                        /\ \A w \in changed :
                             txCall[w.by].pc = "returned" /\ txCall[w.by].context # {} => w \in Tx!Announced
      BY DEF Tx!AllReturned, Tx!Over, Tx!Made
    <3>1. Committed(u) /\ Announcing(u)
      BY DEF Committed, Announcing
    <3>2. db = "committed" /\ journal.events = <<>>
      BY <3>1 DEF CommitInv, EmptiedInv, RolledBack
    <3>3. Told = Tx!Announced
      <4>1. 1 .. Len(journal.events) = {}
        BY <3>2, EmptySeq
      <4> QED
        BY <2>2, <4>1 DEF Told
    <3> QED
      BY <3>2, <3>3 DEF ReturnInv
  <2>5. Tx!OwnTransactionEnds
    <3>1. ASSUME opened = "automatic", offered # <<>>, NEW v \in TxCalls, txCall[v].pc = "raised",
                 txCall[v].kind \in {"mutate", "commit"}
          PROVE  FALSE
      <4>1. PICK u \in TxCalls : Announcing(u)
        <5>1. 1 \in 1 .. Len(offered)
          BY <2>1, <3>1, EmptySeq
        <5> QED
          BY <5>1, TxOffers DEF CommitInv
      <4>2. txCall[u].kind = "commit" /\ txCall[u].pc # "raised"
        BY <4>1 DEF Announcing, Committed
      <4> QED
        BY <3>1, <4>2 DEF OwnInv
    <3>2. Tx!Over("rollback", {"returned", "raised"}) # {} => db # "open"
      BY DEF Tx!Over, Tx!Made, KindInv
    <3> QED
      BY <3>1, <3>2 DEF Tx!OwnTransactionEnds, Tx!Failed, Tx!Over, Tx!Made
  <2> QED
    BY <2>3, <2>4, <2>5
<1> QED
  BY TxStart, <1>1, <1>2, PTL DEF AnySpec

-----------------------------------------------------------------------------
(* Mutation policy: every write under a registry is one of a reviewed plan, *)
(* no entry of the plan is used twice, and a plan that is committed          *)
(* undisturbed is committed whole                                            *)

Bags == [Ops -> 0 .. MaxPlan]

CallType ==
  /\ pc \in [Calls -> {"idle", "running", "done", "failed", "refused"}]
  /\ todo \in [Calls -> Seq(Ops)]
  /\ \A c \in Calls : todo[c] \in Suffixes /\ (todo[c] # <<>> <=> pc[c] = "running")
PlanType ==
  /\ registry \in {"absent", "silent", "customer"}
  /\ phase \in {"work", "committing", "committed", "rolledback"}
  /\ preflight \in Bags /\ remaining \in Bags /\ plan \in Bags
  /\ reviewed \in BOOLEAN /\ sealed \in BOOLEAN
  /\ written \in [Ops -> Nat]

\* What a registry has been asked for: nothing runs before the review, and what is
\* written, let through or left over is no more than the plan.
Used(o) == written[o] + Coming(o) + remaining[o]
BeforeReview == registry # "absent" /\ ~reviewed => \A o \in Ops : Used(o) = 0
PlanInv == registry # "absent" => \A o \in Ops : Used(o) <= plan[o]

\* While no request raised, the plan is all there.
WholeInv ==
  registry # "absent" /\ reviewed /\ (\A c \in Calls : pc[c] \in {"idle", "running", "done"}) =>
    \A o \in Ops : Used(o) = plan[o]

\* Nothing is left of a plan that work returned with.
SealedInv == sealed => reviewed /\ (phase \in {"committing", "committed"} => \A o \in Ops : remaining[o] = 0)

IInv == CallType /\ PlanType /\ BeforeReview /\ PlanInv /\ WholeInv /\ SealedInv

-----------------------------------------------------------------------------
(* Mutation policy: counting *)

Places(s, o) == {i \in DOMAIN s : s[i] = o}

LEMMA Counts ==
  ASSUME NEW s \in Seq(Ops), NEW o
  PROVE  /\ IsFiniteSet(Places(s, o)) /\ Count(s, o) = Cardinality(Places(s, o)) /\ Count(s, o) \in Nat
<1>1. Len(s) \in Nat /\ DOMAIN s = 1 .. Len(s)
  BY LenProperties
<1>2. IsFiniteSet(1 .. Len(s))
  BY <1>1, FS_Interval
<1>3. Places(s, o) \subseteq 1 .. Len(s)
  BY <1>1 DEF Places
<1>4. IsFiniteSet(Places(s, o)) /\ Cardinality(Places(s, o)) \in Nat
  BY <1>2, <1>3, FS_Subset, FS_CardinalityType
<1> QED
  BY <1>4 DEF Count, Places

LEMMA CountsNone ==
  ASSUME NEW o
  PROVE  Count(<<>>, o) = 0
<1>1. Len(<<>>) = 0 /\ <<>> \in Seq(Ops)
  BY EmptySeq
<1>2. DOMAIN <<>> = {}
  BY <1>1, LenProperties
<1>3. Places(<<>>, o) = {}
  BY <1>2 DEF Places
<1> QED
  BY <1>1, <1>3, Counts, FS_EmptySet

LEMMA CountsTail ==
  ASSUME NEW s \in Seq(Ops), s # <<>>, NEW o
  PROVE  Count(s, o) = Count(Tail(s), o) + IF Head(s) = o THEN 1 ELSE 0
<1> DEFINE n == Len(s)
           t == Tail(s)
<1>1. n \in Nat /\ n # 0 /\ DOMAIN s = 1 .. n
  BY LenProperties, EmptySeq
<1>2. /\ t \in Seq(Ops) /\ DOMAIN t = 1 .. n - 1
      /\ \A i \in 1 .. n - 1 : t[i] = s[i + 1]
  BY <1>1, HeadTailProperties, LenProperties
<1>3. Head(s) = s[1]
  OBVIOUS
<1> DEFINE here == Places(s, o) \ {1}
           there == Places(t, o)
           f == [i \in there |-> i + 1]
<1>4. here = {i \in 2 .. n : s[i] = o} /\ there = {i \in 1 .. n - 1 : s[i + 1] = o}
  <2>1. here = {i \in 1 .. n : s[i] = o} \ {1}
    BY <1>1 DEF Places
  <2>2. \A i : i \in 1 .. n /\ i # 1 <=> i \in 2 .. n
    BY <1>1
  <2>3. here = {i \in 2 .. n : s[i] = o}
    BY <2>1, <2>2
  <2>4. there = {i \in 1 .. n - 1 : s[i + 1] = o}
    BY <1>2 DEF Places
  <2> QED
    BY <2>3, <2>4
<1> HIDE DEF n, t
<1>5. f \in Bijection(there, here)
  <2> HIDE DEF here, there
  <2>1. \A i \in there : i \in Nat /\ i + 1 \in here
    BY <1>1, <1>4
  <2>2. \A j \in here : j - 1 \in there /\ (j - 1) + 1 = j
    BY <1>1, <1>4
  <2>3. f \in [there -> here] /\ \A i, j \in there : f[i] = f[j] => i = j
    BY <2>1
  <2>4. \A j \in here : \E i \in there : f[i] = j
    BY <2>2
  <2> QED
    BY <2>3, <2>4 DEF Bijection, Injection, Surjection, IsInjective
<1>6. IsFiniteSet(there) /\ Cardinality(there) = Count(t, o) /\ Count(t, o) \in Nat
  BY <1>2, Counts
<1>7. IsFiniteSet(here) /\ Cardinality(here) = Cardinality(there)
  <2> HIDE DEF here, there
  <2>1. ExistsBijection(there, here)
    BY <1>5 DEF ExistsBijection
  <2> QED
    BY <1>6, <2>1, FS_Bijection
<1>8. Cardinality(here) = IF s[1] = o THEN Count(s, o) - 1 ELSE Count(s, o)
  <2>1. 1 \in Places(s, o) <=> s[1] = o
    BY <1>1 DEF Places
  <2>2. IsFiniteSet(Places(s, o)) /\ Cardinality(Places(s, o)) = Count(s, o) /\ Count(s, o) \in Nat
    BY Counts
  <2> QED
    BY <2>1, <2>2, FS_RemoveElement
<1>9. Count(s, o) \in Nat
  BY Counts
<1> QED
  BY <1>3, <1>6, <1>7, <1>8, <1>9 DEF t

LEMMA Apart ==
  ASSUME NEW S, NEW T, IsFiniteSet(S), IsFiniteSet(T), S \cap T = {}
  PROVE  Cardinality(S \cup T) = Cardinality(S) + Cardinality(T)
<1>1. Cardinality(S \cup T) = Cardinality(S) + Cardinality(T) - Cardinality(S \cap T)
  BY FS_Union
<1>2. Cardinality(S \cap T) = 0 /\ Cardinality(S) \in Nat /\ Cardinality(T) \in Nat
  BY FS_EmptySet, FS_CardinalityType
<1> QED
  BY <1>1, <1>2

LEMMA AllFinite ==
  ASSUME CallType, NEW K \in SUBSET Calls
  PROVE  IsFiniteSet(UNION {{d} \X DOMAIN todo[d] : d \in K})
<1> DEFINE parts == {{d} \X DOMAIN todo[d] : d \in K}
           f == [d \in K |-> {d} \X DOMAIN todo[d]]
<1>1. \A d \in K : IsFiniteSet({d} \X DOMAIN todo[d])
  <2> TAKE d \in K
  <2>1. todo[d] \in Seq(Ops) /\ DOMAIN todo[d] = 1 .. Len(todo[d]) /\ Len(todo[d]) \in Nat
    BY LenProperties DEF CallType
  <2>2. IsFiniteSet(1 .. Len(todo[d]))
    BY <2>1, FS_Interval
  <2>3. IsFiniteSet({d})
    BY FS_Singleton
  <2> QED
    BY <2>1, <2>2, <2>3, FS_Product
<1>2. IsFiniteSet(K)
  BY CallsAssumption, FS_Subset DEF CallsAssumption
<1>3. f \in Surjection(K, parts)
  BY DEF Surjection
<1>4. \A T \in parts : IsFiniteSet(T)
  BY <1>1
<1> HIDE DEF f, parts
<1>5. IsFiniteSet(parts)
  BY <1>2, <1>3, FS_Surjection
<1>6. IsFiniteSet(UNION parts)
  BY <1>4, <1>5, FS_UNION
<1> QED
  BY <1>6 DEF parts

\* The places of an operation among all calls are those in one call and those in the others.
LEMMA OneCall ==
  ASSUME CallType, CallType', NEW c \in Calls, \A d \in Calls : d # c => todo'[d] = todo[d], NEW o
  PROVE  /\ Coming(o) \in Nat /\ Coming(o)' \in Nat
         /\ Coming(o)' = Coming(o) + Count(todo'[c], o) - Count(todo[c], o)
<1> DEFINE all == {p \in UNION {{d} \X DOMAIN todo[d] : d \in Calls} : todo[p[1]][p[2]] = o}
           after == {p \in UNION {{d} \X DOMAIN todo'[d] : d \in Calls} : todo'[p[1]][p[2]] = o}
           others == {p \in UNION {{d} \X DOMAIN todo[d] : d \in Calls \ {c}} : todo[p[1]][p[2]] = o}
           own == {c} \X Places(todo[c], o)
           next == {c} \X Places(todo'[c], o)
<1>1. all = others \cup own /\ others \cap own = {}
  BY DEF Places
<1>2. after = others \cup next /\ others \cap next = {}
  <2>1. \A d \in Calls \ {c} : todo'[d] = todo[d]
    OBVIOUS
  <2>2. others = {p \in UNION {{d} \X DOMAIN todo'[d] : d \in Calls \ {c}} : todo'[p[1]][p[2]] = o}
    BY <2>1
  <2>3. next = {p \in {c} \X DOMAIN todo'[c] : todo'[p[1]][p[2]] = o}
    BY DEF Places
  <2> HIDE DEF others, next
  <2> QED
    BY <2>2, <2>3
<1>3. \A d \in Calls : todo[d] \in Seq(Ops) /\ todo'[d] \in Seq(Ops)
  BY DEF CallType
<1>4. /\ IsFiniteSet(own) /\ Cardinality(own) = Count(todo[c], o) /\ Count(todo[c], o) \in Nat
      /\ IsFiniteSet(next) /\ Cardinality(next) = Count(todo'[c], o) /\ Count(todo'[c], o) \in Nat
  <2>1. /\ IsFiniteSet(Places(todo[c], o)) /\ Cardinality(Places(todo[c], o)) = Count(todo[c], o)
        /\ Count(todo[c], o) \in Nat
    BY <1>3, Counts
  <2>2. /\ IsFiniteSet(Places(todo'[c], o)) /\ Cardinality(Places(todo'[c], o)) = Count(todo'[c], o)
        /\ Count(todo'[c], o) \in Nat
    BY <1>3, Counts
  <2>3. IsFiniteSet({c}) /\ Cardinality({c}) = 1
    BY FS_Singleton
  <2>4. /\ IsFiniteSet(own) /\ Cardinality(own) = 1 * Count(todo[c], o)
        /\ IsFiniteSet(next) /\ Cardinality(next) = 1 * Count(todo'[c], o)
    BY <2>1, <2>2, <2>3, FS_Product
  <2>5. \A n \in Nat : 1 * n = n
    OBVIOUS
  <2> QED
    BY <2>1, <2>2, <2>4, <2>5
<1>5. IsFiniteSet(others) /\ Cardinality(others) \in Nat
  <2>1. IsFiniteSet(UNION {{d} \X DOMAIN todo[d] : d \in Calls \ {c}})
    BY AllFinite
  <2> QED
    BY <2>1, FS_Subset, FS_CardinalityType
<1>6. Coming(o) = Cardinality(all) /\ Coming(o)' = Cardinality(after)
  BY DEF Coming
<1> HIDE DEF others, own, next, all, after
<1>7. Cardinality(all) = Cardinality(others) + Cardinality(own)
  BY <1>1, <1>4, <1>5, Apart
<1>8. Cardinality(after) = Cardinality(others) + Cardinality(next)
  BY <1>2, <1>4, <1>5, Apart
<1> QED
  BY <1>4, <1>5, <1>6, <1>7, <1>8

-----------------------------------------------------------------------------
(* Mutation policy: the calls *)

Amounts == \A o \in Ops : written[o] \in Nat /\ Coming(o) \in Nat /\ remaining[o] \in Nat /\ plan[o] \in Nat
                            /\ preflight[o] \in Nat

LEMMA NothingToDo ==
  ASSUME CallType, NEW o
  PROVE  Coming(o) \in Nat /\ ((\A c \in Calls : pc[c] # "running") => Coming(o) = 0)
<1> DEFINE all == {p \in UNION {{d} \X DOMAIN todo[d] : d \in Calls} : todo[p[1]][p[2]] = o}
<1>1. Coming(o) = Cardinality(all)
  BY DEF Coming
<1>2. Cardinality(all) \in Nat
  <2>1. IsFiniteSet(UNION {{d} \X DOMAIN todo[d] : d \in Calls})
    BY AllFinite
  <2> QED
    BY <2>1, FS_Subset, FS_CardinalityType
<1>3. ASSUME \A d \in Calls : pc[d] # "running"
      PROVE  Coming(o) = 0
  <2>1. \A d \in Calls : todo[d] = <<>>
    BY <1>3 DEF CallType
  <2>2. DOMAIN <<>> = {}
    <3>1. Len(<<>>) = 0 /\ <<>> \in Seq(Ops)
      BY EmptySeq
    <3> QED
      BY <3>1, LenProperties
  <2>3. all = {}
    BY <2>1, <2>2
  <2> QED
    BY <1>1, <2>3, FS_EmptySet
<1> QED
  BY <1>1, <1>2, <1>3

LEMMA AmountsKnown == CallType /\ PlanType => Amounts
BY NothingToDo, RequestsAssumption DEF PlanType, Amounts, Bags, RequestsAssumption

\* One call moves on, with s left to write.
Moves(c, to, s) == pc' = [pc EXCEPT ![c] = to] /\ todo' = [todo EXCEPT ![c] = s]

LEMMA CallMoves ==
  ASSUME CallType, NEW c \in Calls, NEW to \in {"idle", "running", "done", "failed", "refused"},
         NEW s \in Seq(Ops), s \in Suffixes, s # <<>> <=> to = "running", Moves(c, to, s)
  PROVE  /\ CallType' /\ pc'[c] = to /\ \A d \in Calls : d # c => pc'[d] = pc[d]
         /\ \A o \in Ops : Coming(o)' = Coming(o) + Count(s, o) - Count(todo[c], o)
<1>1. pc'[c] = to /\ todo'[c] = s /\ \A d \in Calls : d # c => pc'[d] = pc[d] /\ todo'[d] = todo[d]
  BY DEF Moves, CallType
<1>2. CallType'
  BY <1>1 DEF CallType, Moves
<1>3. \A o \in Ops : Coming(o)' = Coming(o) + Count(s, o) - Count(todo[c], o)
  BY <1>1, <1>2, OneCall
<1> QED
  BY <1>1, <1>2, <1>3

\* A suffix stays one when its first operation is written, and a request is one of its own.
LEMMA SuffixKept ==
  /\ \A r \in Requests : r \in Suffixes /\ r \in Seq(Ops) /\ r # <<>>
  /\ <<>> \in Suffixes /\ <<>> \in Seq(Ops)
  /\ \A s \in Suffixes : s # <<>> => Tail(s) \in Suffixes
<1>1. \A r \in Requests : r \in Seq(Ops) /\ r # <<>> /\ Len(r) \in Nat /\ Len(r) # 0
  BY RequestsAssumption, LenProperties, EmptySeq DEF RequestsAssumption
<1>2. \A r \in Requests : r \in Suffixes
  <2> TAKE r \in Requests
  <2>1. 1 \in 1 .. Len(r) /\ SubSeq(r, 1, Len(r)) = r
    BY <1>1, SubSeqFull
  <2> QED
    BY <2>1 DEF Suffixes
<1>3. ASSUME NEW s \in Suffixes, s # <<>>
      PROVE  Tail(s) \in Suffixes
  <2>1. PICK r \in Requests : \E n \in 1 .. Len(r) : s = SubSeq(r, n, Len(r))
    BY <1>3 DEF Suffixes
  <2> PICK n \in 1 .. Len(r) : s = SubSeq(r, n, Len(r))
    BY <2>1
  <2>2. Len(r) \in n .. Len(r)
    BY <1>1, <2>1
  <2>3. Tail(s) = SubSeq(r, n + 1, Len(r))
    BY <1>1, <2>1, <2>2, HeadTailOfSubSeq
  <2>4. CASE n = Len(r)
    <3>1. Len(r) < n + 1 /\ n + 1 \in Int /\ Len(r) \in Int
      BY <1>1, <2>4
    <3>2. Tail(s) = <<>>
      BY <2>3, <3>1, SubSeqEmpty
    <3> QED
      BY <3>2 DEF Suffixes
  <2>5. CASE n # Len(r)
    <3>1. n + 1 \in 1 .. Len(r)
      BY <1>1, <2>1, <2>5
    <3> QED
      BY <2>3, <3>1 DEF Suffixes
  <2> QED
    BY <2>4, <2>5
<1> QED
  BY <1>1, <1>2, <1>3, EmptySeq DEF Suffixes

-----------------------------------------------------------------------------
(* Mutation policy: the plan *)

\* As many operations are taken off a bag as it has, up to the first it does not have.
LEMMA TakenWell ==
  ASSUME NEW r \in Seq(Ops), NEW bag \in Bags
  PROVE  Taken(r, bag) \in 0 .. Len(r) /\ Covers(r, Taken(r, bag), bag)
<1> DEFINE z == Len(r)
           good(n) == Covers(r, n, bag) /\ (n = z \/ ~Covers(r, n + 1, bag))
<1>1. z \in Nat
  BY LenProperties
<1>2. Covers(r, 0, bag)
  <2>1. SubSeq(r, 1, 0) = <<>>
    BY SubSeqEmpty
  <2>2. \A o \in Ops : bag[o] >= 0
    BY RequestsAssumption DEF Bags, RequestsAssumption
  <2> QED
    BY <2>1, <2>2, CountsNone DEF Covers
<1>3. \E n \in 0 .. z : good(n)
  <2>1. CASE Covers(r, z, bag)
    BY <1>1, <2>1
  <2>2. CASE ~Covers(r, z, bag)
    <3> DEFINE bad == {n \in 0 .. z : ~Covers(r, n, bag)}
    <3>1. bad \subseteq Nat /\ bad # {}
      BY <1>1, <2>2
    <3>2. PICK m \in bad : \A k \in bad : ~(<<k, m>> \in OpToRel(<, Nat))
      <4> HIDE DEF bad
      <4> QED
        BY <3>1, NatLessThanWellFounded, WFMin
    <3>3. \A k \in bad : ~(k < m)
      BY <3>1, <3>2 DEF OpToRel
    <3>4. m # 0 /\ m \in 0 .. z /\ ~Covers(r, m, bag)
      BY <1>2
    <3>5. m - 1 \in 0 .. z /\ m - 1 < m /\ (m - 1) + 1 = m
      BY <1>1, <3>4
    <3>6. Covers(r, m - 1, bag)
      BY <3>3, <3>5
    <3> QED
      BY <3>4, <3>5, <3>6
  <2> QED
    BY <2>1, <2>2
<1>4. Taken(r, bag) = CHOOSE n \in 0 .. z : good(n)
  BY DEF Taken
<1> HIDE DEF z
<1>5. Taken(r, bag) \in 0 .. z /\ good(Taken(r, bag))
  BY <1>3, <1>4
<1> QED
  BY <1>5 DEF z

\* A request takes what it writes off the bag, or is refused; nothing is owed to it.
LEMMA Consumed ==
  ASSUME CallType, NEW c \in Calls, pc[c] = "idle", NEW r \in Requests, NEW bag \in Bags, Consume(c, r, bag)
  PROVE  /\ CallType' /\ remaining' \in Bags /\ \A o \in Ops : remaining'[o] <= bag[o]
         /\ \A d \in Calls : d # c => pc'[d] = pc[d]
         /\ \/ pc'[c] = "running" /\ \A o \in Ops : Coming(o)' + remaining'[o] = Coming(o) + bag[o]
            \/ pc'[c] = "refused" /\ \A o \in Ops : Coming(o)' = Coming(o)
<1> DEFINE n == Taken(r, bag)
           part == SubSeq(r, 1, n)
<1>1. r \in Seq(Ops) /\ r # <<>> /\ r \in Suffixes /\ <<>> \in Suffixes /\ <<>> \in Seq(Ops)
  BY SuffixKept
<1>2. Len(r) \in Nat /\ n \in 0 .. Len(r) /\ \A o \in Ops : Count(part, o) <= bag[o]
  BY <1>1, TakenWell, LenProperties DEF Covers
<1>3. /\ remaining' = [o \in Ops |-> bag[o] - Count(part, o)]
      /\ IF n = Len(r) THEN Admit(c, r) ELSE Refuse(c)
  BY DEF Consume
<1> HIDE DEF n
<1>4. part \in Seq(Ops)
  <2>1. /\ n \in Int /\ 1 \in Int /\ \A i \in 1 .. n : r[i] \in Ops
    <3>1. \A i \in 1 .. Len(r) : r[i] \in Ops
      BY <1>1, LenProperties
    <3> QED
      BY <1>2, <3>1
  <2> QED
    BY <2>1, SubSeqProperties
<1>5. n = Len(r) => part = r
  BY <1>1, SubSeqFull
<1> HIDE DEF part
<1>6. \A o \in Ops : bag[o] \in 0 .. MaxPlan /\ Count(part, o) \in Nat /\ Count(r, o) \in Nat /\ MaxPlan \in Nat
  BY <1>1, <1>4, Counts, RequestsAssumption DEF Bags, RequestsAssumption
<1>7. remaining' \in Bags /\ \A o \in Ops : remaining'[o] = bag[o] - Count(part, o)
  <2>1. \A o \in Ops : bag[o] - Count(part, o) \in 0 .. MaxPlan
    BY <1>2, <1>6
  <2> QED
    BY <1>3, <2>1 DEF Bags
<1>8. todo[c] = <<>> /\ \A o \in Ops : Count(todo[c], o) = 0 /\ Coming(o) \in Nat
  BY CountsNone, NothingToDo DEF CallType
<1>9. CASE n = Len(r)
  <2>1. Moves(c, "running", r)
    BY <1>3, <1>9 DEF Admit, Moves
  <2>2. /\ CallType' /\ pc'[c] = "running" /\ \A d \in Calls : d # c => pc'[d] = pc[d]
        /\ \A o \in Ops : Coming(o)' = Coming(o) + Count(r, o) - Count(todo[c], o)
    BY <1>1, <2>1, CallMoves
  <2>3. \A o \in Ops : Coming(o)' + remaining'[o] = Coming(o) + bag[o]
    <3> TAKE o \in Ops
    <3>1. Coming(o)' = Coming(o) + Count(r, o) - 0 /\ remaining'[o] = bag[o] - Count(r, o)
      BY <1>5, <1>7, <1>8, <1>9, <2>2
    <3> QED
      BY <1>6, <1>8, <3>1
  <2> QED
    BY <1>6, <1>7, <2>2, <2>3
<1>10. CASE n # Len(r)
  <2>1. Moves(c, "refused", <<>>)
    BY <1>3, <1>8, <1>10 DEF Refuse, Moves, CallType
  <2>2. /\ CallType' /\ pc'[c] = "refused" /\ \A d \in Calls : d # c => pc'[d] = pc[d]
        /\ \A o \in Ops : Coming(o)' = Coming(o) + Count(<<>>, o) - Count(todo[c], o)
    BY <1>1, <2>1, CallMoves
  <2>3. \A o \in Ops : Coming(o)' = Coming(o)
    BY <1>8, <2>2
  <2> QED
    BY <1>6, <1>7, <2>2, <2>3
<1> QED
  BY <1>9, <1>10


-----------------------------------------------------------------------------
(* Mutation policy: the invariant *)

LEMMA Start == Init => IInv
<1> SUFFICES ASSUME Init
             PROVE  IInv
  OBVIOUS
<1>1. 0 \in 0 .. MaxPlan
  BY RequestsAssumption DEF RequestsAssumption
<1>2. CallType
  BY SuffixKept DEF Init, CallType
<1>3. PlanType
  BY <1>1 DEF Init, PlanType, Bags, None
<1>4. \A o \in Ops : Coming(o) = 0
  BY <1>2, NothingToDo DEF Init
<1>5. \A o \in Ops : Used(o) = 0 /\ plan[o] = 0
  BY <1>4 DEF Init, Used, None
<1> QED
  BY <1>2, <1>3, <1>5 DEF Init, IInv, BeforeReview, PlanInv, WholeInv, SealedInv

ComingType == \A o \in Ops : Coming(o) \in Nat

LEMMA ComingKnown == CallType' => ComingType'
<1>1. CallType => ComingType
  BY NothingToDo DEF ComingType
<1> QED
  BY <1>1, PTL

Quiet == \A c \in Calls : pc[c] \in {"idle", "running", "done"}

\* A step that uses no more of the plan than was used, and less only where a request
\* failed or was refused, keeps what is said of the plan.
LEMMA UsesNoMore ==
  ASSUME IInv, CallType', PlanType', UNCHANGED <<registry, reviewed, plan>>,
         \A o \in Ops : Used(o)' <= Used(o),
         Quiet' => Quiet /\ \A o \in Ops : Used(o)' = Used(o)
  PROVE  BeforeReview' /\ PlanInv' /\ WholeInv'
<1>1. \A o \in Ops : Used(o) \in Nat /\ Used(o)' \in Nat /\ plan[o] \in Nat
  <2>1. Amounts
    BY AmountsKnown DEF IInv
  <2>2. Amounts'
    <3>1. \A o \in Ops : Coming(o)' \in Nat
      BY ComingKnown DEF ComingType
    <3> QED
      BY <3>1, RequestsAssumption DEF PlanType, Amounts, Bags, RequestsAssumption
  <2> QED
    BY <2>1, <2>2 DEF Used, Amounts
<1>2. BeforeReview'
  BY <1>1 DEF BeforeReview, IInv
<1>3. PlanInv'
  BY <1>1 DEF PlanInv, IInv
<1>4. WholeInv'
  BY DEF WholeInv, IInv, Quiet
<1> QED
  BY <1>2, <1>3, <1>4


\* A step of one call that takes part in no plan: no call is let through.
LEMMA CallEnds ==
  ASSUME IInv, NEW c \in Calls, NEW to \in {"failed", "refused"}, Moves(c, to, <<>>),
         UNCHANGED <<registry, phase, policy, sealed>>, written' \in [Ops -> Nat],
         \A o \in Ops : written'[o] <= written[o] + Count(todo[c], o)
  PROVE  IInv'
<1>1. /\ CallType' /\ pc'[c] = to
      /\ \A o \in Ops : Coming(o)' = Coming(o) + Count(<<>>, o) - Count(todo[c], o)
  BY SuffixKept, CallMoves DEF IInv
<1>2. PlanType'
  BY DEF IInv, PlanType, policy
<1>3. Amounts /\ \A o \in Ops : written'[o] \in Nat /\ Count(todo[c], o) \in Nat /\ Count(<<>>, o) = 0
  BY AmountsKnown, CountsNone, Counts DEF IInv, CallType
<1>4. \A o \in Ops : Used(o)' <= Used(o)
  <2> TAKE o \in Ops
  <2>1. /\ Coming(o) \in Nat /\ written[o] \in Nat /\ remaining[o] \in Nat /\ written'[o] \in Nat
        /\ Count(todo[c], o) \in Nat /\ Coming(o)' = Coming(o) + 0 - Count(todo[c], o)
        /\ written'[o] <= written[o] + Count(todo[c], o)
        /\ remaining'[o] = remaining[o]
    BY <1>1, <1>3 DEF Amounts, policy
  <2>2. /\ Used(o) = written[o] + Coming(o) + remaining[o]
        /\ Used(o)' = written'[o] + Coming(o)' + remaining'[o]
    BY DEF Used
  <2> HIDE DEF Used
  <2> QED
    BY <2>1, <2>2
<1>5. ~Quiet'
  BY <1>1 DEF Quiet
<1>6. BeforeReview' /\ PlanInv' /\ WholeInv'
  BY <1>1, <1>2, <1>4, <1>5, UsesNoMore DEF policy
<1>7. SealedInv'
  BY DEF IInv, SealedInv, policy
<1> QED
  BY <1>1, <1>2, <1>6, <1>7 DEF IInv

LEMMA RefuseKeeps ==
  ASSUME IInv, NEW c \in Calls, pc[c] = "idle", Refuse(c),
         UNCHANGED <<registry, phase, policy, written, sealed>>
  PROVE  IInv'
<1>1. todo[c] = <<>>
  BY DEF IInv, CallType
<1>2. Moves(c, "refused", <<>>)
  BY <1>1 DEF Refuse, Moves, IInv, CallType
<1>3. written' \in [Ops -> Nat] /\ \A o \in Ops : written'[o] <= written[o] + Count(todo[c], o)
  BY <1>1, CountsNone DEF IInv, PlanType
<1> QED
  BY <1>2, <1>3, CallEnds

LEMMA FailKeeps ==
  ASSUME IInv, NEW c \in Calls, Fail(c)
  PROVE  IInv'
<1>1. Moves(c, "failed", <<>>)
  BY DEF Fail, Moves
<1>2. todo[c] \in Seq(Ops)
  BY DEF IInv, CallType
<1>3. \A o \in Ops : Count(todo[c], o) \in Nat
  BY <1>2, Counts
<1>4. written' \in [Ops -> Nat] /\ \A o \in Ops : written'[o] <= written[o] + Count(todo[c], o)
  BY <1>3 DEF IInv, PlanType, Fail
<1> QED
  BY <1>1, <1>4, CallEnds DEF Fail

LEMMA WriteKeeps ==
  ASSUME IInv, NEW c \in Calls, Write(c)
  PROVE  IInv'
<1> DEFINE s == todo[c]
           h == Head(s)
<1>1. s \in Seq(Ops) /\ s \in Suffixes /\ s # <<>> /\ pc[c] = "running"
  BY DEF IInv, CallType, Write
<1>2. h \in Ops /\ Tail(s) \in Seq(Ops) /\ Tail(s) \in Suffixes /\ Len(Tail(s)) = Len(s) - 1 /\ Len(s) \in Nat
  BY <1>1, HeadTailProperties, SuffixKept, LenProperties
<1>3. \A o \in Ops : written[o] \in Nat /\ written'[o] = written[o] + IF h = o THEN 1 ELSE 0
  BY DEF Write, IInv, PlanType
<1>4. written' \in [Ops -> Nat] /\ UNCHANGED <<registry, phase, policy, sealed>>
  <2>1. written' = [written EXCEPT ![h] = @ + 1] /\ written \in [Ops -> Nat]
    BY DEF Write, IInv, PlanType
  <2> HIDE DEF h
  <2>2. written' \in [Ops -> Nat]
    BY <1>2, <2>1
  <2> QED
    BY <2>2 DEF Write
<1>5. \A o \in Ops : /\ Count(s, o) = Count(Tail(s), o) + IF h = o THEN 1 ELSE 0
                     /\ Count(s, o) \in Nat /\ Count(Tail(s), o) \in Nat
  BY <1>1, <1>2, CountsTail, Counts
<1>6. CASE Moves(c, "failed", <<>>)
  <2>1. \A o \in Ops : written'[o] <= written[o] + Count(s, o)
    BY <1>3, <1>5
  <2> QED
    BY <1>4, <1>6, <2>1, CallEnds
<1>7. CASE /\ todo' = [todo EXCEPT ![c] = Tail(@)]
           /\ pc' = [pc EXCEPT ![c] = IF Len(todo[c]) = 1 THEN "done" ELSE "running"]
  <2> DEFINE to == IF Len(s) = 1 THEN "done" ELSE "running"
  <2>1. Moves(c, to, Tail(s))
    BY <1>7 DEF Moves, IInv, CallType
  <2>2. Tail(s) # <<>> <=> to = "running"
    <3>1. Len(s) # 0 /\ (Tail(s) = <<>> <=> Len(Tail(s)) = 0)
      BY <1>1, <1>2, EmptySeq
    <3> QED
      BY <1>2, <3>1
  <2>3. to \in {"done", "running"}
    OBVIOUS
  <2> HIDE DEF s, h, to
  <2>4. /\ CallType' /\ pc'[c] = to /\ \A d \in Calls : d # c => pc'[d] = pc[d]
        /\ \A o \in Ops : Coming(o)' = Coming(o) + Count(Tail(s), o) - Count(todo[c], o)
    BY <1>1, <1>2, <2>1, <2>2, <2>3, CallMoves DEF IInv
  <2>5. PlanType'
    BY <1>4 DEF IInv, PlanType, policy
  <2>6. \A o \in Ops : Used(o)' = Used(o)
    <3> TAKE o \in Ops
    <3>1. Coming(o) \in Nat /\ written[o] \in Nat /\ remaining[o] \in Nat
      BY AmountsKnown DEF IInv, Amounts
    <3>2. /\ Coming(o)' = Coming(o) + Count(Tail(s), o) - Count(s, o)
          /\ Count(s, o) = Count(Tail(s), o) + IF h = o THEN 1 ELSE 0
          /\ Count(Tail(s), o) \in Nat
          /\ written'[o] = written[o] + IF h = o THEN 1 ELSE 0
          /\ remaining'[o] = remaining[o]
      BY <1>3, <1>4, <1>5, <2>4 DEF s, policy
    <3>3. /\ Used(o) = written[o] + Coming(o) + remaining[o]
          /\ Used(o)' = written'[o] + Coming(o)' + remaining'[o]
      BY DEF Used
    <3> QED
      BY <3>1, <3>2, <3>3
  <2>7. \A o \in Ops : Used(o)' <= Used(o)
    <3> TAKE o \in Ops
    <3>1. Used(o) \in Nat
      BY AmountsKnown DEF IInv, Amounts, Used
    <3> QED
      BY <2>6, <3>1
  <2>8. Quiet' => Quiet
    BY <1>1, <2>4 DEF Quiet
  <2>9. BeforeReview' /\ PlanInv' /\ WholeInv'
    BY <1>4, <2>4, <2>5, <2>6, <2>7, <2>8, UsesNoMore DEF policy
  <2>10. SealedInv'
    BY <1>4 DEF IInv, SealedInv, policy
  <2> QED
    BY <2>4, <2>5, <2>9, <2>10 DEF IInv
<1> QED
  BY <1>6, <1>7 DEF Write, Moves


LEMMA AnnounceKeeps ==
  ASSUME IInv, NEW o \in Ops, RecordPreflight(o)
  PROVE  IInv'
<1>1. preflight' \in Bags
  <2>1. preflight[o] \in 0 .. MaxPlan /\ preflight[o] < MaxPlan /\ MaxPlan \in Nat
    BY RequestsAssumption DEF RecordPreflight, IInv, PlanType, Bags, RequestsAssumption
  <2>2. preflight[o] + 1 \in 0 .. MaxPlan
    BY <2>1
  <2> QED
    BY <2>2 DEF RecordPreflight, IInv, PlanType, Bags
<1>2. CallType' /\ PlanType'
  BY <1>1 DEF RecordPreflight, IInv, CallType, PlanType
<1>3. \A x \in Ops : Used(x)' = Used(x)
  BY DEF RecordPreflight, Used, Coming
<1> QED
  BY <1>2, <1>3 DEF RecordPreflight, IInv, BeforeReview, PlanInv, WholeInv, SealedInv

\* No call changes and no amount: only the save ends.
LEMMA SaveEnds ==
  ASSUME IInv, Finish \/ Commit \/ Rollback \/ UNCHANGED vars
  PROVE  IInv'
<1>1. UNCHANGED <<registry, policy, pc, todo, written>>
  BY DEF Finish, Commit, Rollback, vars
<1>2. CallType'
  BY <1>1 DEF IInv, CallType
<1>3. PlanType'
  BY <1>1 DEF IInv, PlanType, policy, Finish, Commit, Rollback, vars
<1>4. \A o \in Ops : Used(o)' = Used(o)
  BY <1>1 DEF Used, Coming, policy
<1>5. BeforeReview' /\ PlanInv' /\ WholeInv'
  BY <1>1, <1>4 DEF IInv, BeforeReview, PlanInv, WholeInv, policy
<1>6. SealedInv'
  <2>1. CASE Finish
    <3>1. remaining = None => \A o \in Ops : remaining[o] = 0
      BY DEF None
    <3> QED
      BY <2>1, <3>1, <1>1 DEF Finish, SealedInv, policy
  <2>2. CASE Commit \/ Rollback \/ UNCHANGED vars
    BY <2>2 DEF IInv, SealedInv, Commit, Rollback, vars, policy
  <2> QED
    BY <2>1, <2>2
<1> QED
  BY <1>2, <1>3, <1>5, <1>6 DEF IInv

LEMMA AloneKeeps ==
  ASSUME IInv, NEW c \in Calls, NEW r \in Requests, pc[c] = "idle", EnterAlone(c, r),
         UNCHANGED <<registry, phase, written, sealed>>
  PROVE  IInv'
<1>1. CASE registry # "absent"
  BY <1>1, RefuseKeeps DEF EnterAlone
<1>2. CASE registry = "absent"
  <2>1. Moves(c, "running", r) /\ r \in Seq(Ops) /\ r \in Suffixes /\ r # <<>>
    BY <1>2, SuffixKept DEF EnterAlone, Admit, Moves
  <2>2. CallType'
    BY <2>1, CallMoves DEF IInv
  <2>3. PlanType'
    BY DEF IInv, PlanType, EnterAlone, policy
  <2>4. SealedInv'
    BY DEF IInv, SealedInv, EnterAlone, policy
  <2> QED
    BY <1>2, <2>2, <2>3, <2>4 DEF IInv, BeforeReview, PlanInv, WholeInv
<1> QED
  BY <1>1, <1>2

\* The review takes the whole plan on, and its first request its share of it.
LEMMA FirstKeeps ==
  ASSUME IInv, NEW c \in Calls, NEW r \in Requests, pc[c] = "idle", EnterFirst(c, r),
         UNCHANGED <<registry, phase, written, sealed>>
  PROVE  IInv'
<1>1. CASE Refuse(c) /\ UNCHANGED <<reviewed, plan, remaining>>
  BY <1>1, RefuseKeeps DEF EnterFirst, policy
<1>2. CASE reviewed' = TRUE /\ plan' = preflight /\ Consume(c, r, preflight)
  <2>1. preflight' = preflight /\ ~reviewed /\ preflight \in Bags
    BY DEF EnterFirst, IInv, PlanType
  <2>2. /\ CallType' /\ remaining' \in Bags /\ \A o \in Ops : remaining'[o] <= preflight[o]
        /\ \/ pc'[c] = "running" /\ \A o \in Ops : Coming(o)' + remaining'[o] = Coming(o) + preflight[o]
           \/ pc'[c] = "refused" /\ \A o \in Ops : Coming(o)' = Coming(o)
    BY <1>2, <2>1, Consumed DEF IInv
  <2>3. PlanType'
    BY <1>2, <2>1, <2>2 DEF IInv, PlanType
  <2>4. Amounts
    BY AmountsKnown DEF IInv
  <2>5. ASSUME registry # "absent", NEW o \in Ops
        PROVE  /\ Used(o)' <= plan'[o]
               /\ pc'[c] = "running" => Used(o)' = plan'[o]
    <3>1. Used(o) = 0
      BY <2>1, <2>5 DEF IInv, BeforeReview
    <3>2. /\ written[o] \in Nat /\ Coming(o) \in Nat /\ remaining[o] \in Nat /\ preflight[o] \in Nat
          /\ written'[o] = written[o] /\ plan'[o] = preflight[o]
          /\ remaining'[o] \in 0 .. MaxPlan /\ remaining'[o] <= preflight[o]
      BY <1>2, <2>2, <2>4 DEF Amounts, Bags
    <3>3. /\ Used(o) = written[o] + Coming(o) + remaining[o]
          /\ Used(o)' = written'[o] + Coming(o)' + remaining'[o]
      BY DEF Used
    <3>4. written[o] = 0 /\ Coming(o) = 0
      BY <3>1, <3>2, <3>3
    <3>5. MaxPlan \in Nat
      BY RequestsAssumption DEF RequestsAssumption
    <3>6. CASE pc'[c] = "running" /\ Coming(o)' + remaining'[o] = Coming(o) + preflight[o]
      <4> HIDE DEF Used
      <4>1. Coming(o)' = preflight[o] - remaining'[o]
        BY <2>2, <3>2, <3>4, <3>5, <3>6, ComingKnown DEF ComingType
      <4> QED
        BY <3>2, <3>3, <3>4, <3>5, <4>1
    <3>7. CASE pc'[c] = "refused" /\ Coming(o)' = Coming(o)
      BY <3>2, <3>3, <3>4, <3>5, <3>7
    <3> QED
      BY <2>2, <3>6, <3>7
  <2>6. BeforeReview' /\ PlanInv'
    BY <1>2, <2>5 DEF BeforeReview, PlanInv
  <2>7. WholeInv'
    BY <2>2, <2>5 DEF WholeInv
  <2>8. SealedInv'
    BY <2>1 DEF IInv, SealedInv
  <2> QED
    BY <2>2, <2>3, <2>6, <2>7, <2>8 DEF IInv
<1> QED
  BY <1>1, <1>2 DEF EnterFirst

LEMMA ReviewedKeeps ==
  ASSUME IInv, NEW c \in Calls, NEW r \in Requests, pc[c] = "idle", EnterReviewed(c, r),
         UNCHANGED <<registry, phase, written, sealed>>
  PROVE  IInv'
<1>1. Consume(c, r, remaining) /\ UNCHANGED <<preflight, reviewed, plan>> /\ remaining \in Bags
  BY DEF EnterReviewed, IInv, PlanType
<1>2. /\ CallType' /\ remaining' \in Bags /\ \A o \in Ops : remaining'[o] <= remaining[o]
      /\ \A d \in Calls : d # c => pc'[d] = pc[d]
      /\ \/ pc'[c] = "running" /\ \A o \in Ops : Coming(o)' + remaining'[o] = Coming(o) + remaining[o]
         \/ pc'[c] = "refused" /\ \A o \in Ops : Coming(o)' = Coming(o)
  BY <1>1, Consumed DEF IInv
<1>3. PlanType'
  BY <1>1, <1>2 DEF IInv, PlanType
<1>4. MaxPlan \in Nat /\ Amounts
  BY RequestsAssumption, AmountsKnown DEF IInv, RequestsAssumption
<1>5. ASSUME NEW o \in Ops
      PROVE  /\ Used(o)' <= Used(o)
             /\ pc'[c] = "running" => Used(o)' = Used(o)
  <2>1. /\ written[o] \in Nat /\ Coming(o) \in Nat /\ Coming(o)' \in Nat /\ remaining[o] \in Nat
        /\ written'[o] = written[o]
        /\ remaining'[o] \in 0 .. MaxPlan /\ remaining'[o] <= remaining[o]
    BY <1>2, <1>4, ComingKnown DEF Amounts, Bags, ComingType
  <2>2. /\ Used(o) = written[o] + Coming(o) + remaining[o]
        /\ Used(o)' = written'[o] + Coming(o)' + remaining'[o]
    BY DEF Used
  <2>3. CASE pc'[c] = "running" /\ Coming(o)' + remaining'[o] = Coming(o) + remaining[o]
    BY <1>4, <2>1, <2>2, <2>3
  <2>4. CASE pc'[c] = "refused" /\ Coming(o)' = Coming(o)
    BY <1>4, <2>1, <2>2, <2>4
  <2> QED
    BY <1>2, <2>3, <2>4
<1>6. Quiet' => Quiet /\ \A o \in Ops : Used(o)' = Used(o)
  BY <1>2, <1>5 DEF Quiet
<1>7. BeforeReview' /\ PlanInv' /\ WholeInv'
  BY <1>1, <1>2, <1>3, <1>5, <1>6, UsesNoMore
<1>8. SealedInv'
  <2>1. \A o \in Ops : remaining[o] = 0 => remaining'[o] = 0
    BY <1>2, <1>4 DEF Bags
  <2> QED
    BY <1>1, <2>1 DEF IInv, SealedInv
<1> QED
  BY <1>2, <1>3, <1>7, <1>8 DEF IInv

LEMMA Step == IInv /\ [Next]_vars => IInv'
<1> SUFFICES ASSUME IInv, [Next]_vars
             PROVE  IInv'
  OBVIOUS
<1>1. ASSUME NEW c \in Calls, NEW r \in Requests, EnterMutation(c, r)
      PROVE  IInv'
  BY <1>1, AloneKeeps, FirstKeeps, ReviewedKeeps DEF EnterMutation
<1>2. ASSUME NEW c \in Calls, Reject(c)
      PROVE  IInv'
  BY <1>2, RefuseKeeps DEF Reject
<1> QED
  BY <1>1, <1>2, AnnounceKeeps, WriteKeeps, FailKeeps, SaveEnds DEF Next

LEMMA Invariant == Spec => []IInv
BY Start, Step, PTL DEF Spec

\* What holds of the policy holds of it side by side with the other components.
LEMMA PolicyInPlay == AnySpec => Spec
<1>1. AnyInit => Init
  BY DEF AnyInit
<1>2. [AnyNext]_allVars => [Next]_vars
  BY DEF AnyNext, allVars
<1> QED
  BY <1>1, <1>2, PTL DEF AnySpec, Spec

-----------------------------------------------------------------------------
(* Mutation policy: the theorems *)

\* With a customer's registry, whatever requests, batches, denials and failures
\* interleave, every statement written is one of the plan a review allowed, and no
\* entry of the plan is used twice (enter_mutation, _consume_planned).
THEOREM WritesSafe == Spec => []WritesReviewed
<1>1. IInv => WritesReviewed
  <2> SUFFICES ASSUME IInv
               PROVE  WritesReviewed
    OBVIOUS
  <2>1. TypeOK
    BY DEF IInv, CallType, PlanType, Bags, TypeOK
  <2> QED
    BY <2>1 DEF IInv, PlanInv, Used, WritesReviewed
<1> QED
  BY <1>1, Invariant, PTL

\* A plan that had been reviewed when work returned and of which no request raised or
\* is left running is committed whole: what was written is the plan, operation by
\* operation (ensure_graph_complete, and requests that arrive while commit is awaited).
THEOREM PlanSafe == Spec => []WholePlanCommitted
<1>1. IInv => WholePlanCommitted
  <2> SUFFICES ASSUME IInv, phase = "committed", sealed, registry # "absent",
                      \A c \in Calls : pc[c] \in {"idle", "done"}
               PROVE  written = plan
    BY DEF WholePlanCommitted
  <2>1. \A o \in Ops : Coming(o) = 0
    BY NothingToDo DEF IInv
  <2>2. \A o \in Ops : Used(o) = plan[o] /\ remaining[o] = 0
    BY DEF IInv, SealedInv, WholeInv
  <2>3. \A o \in Ops : written[o] \in Nat
    BY DEF IInv, PlanType
  <2>4. \A o \in Ops : written[o] = plan[o]
    BY <2>1, <2>2, <2>3 DEF Used
  <2> QED
    BY <2>4 DEF IInv, PlanType, Bags
<1> QED
  BY <1>1, Invariant, PTL
=============================================================================
