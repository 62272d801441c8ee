----------------------- MODULE TelemetryExportProofs -----------------------
(***************************************************************************)
(* Theorems about TelemetryExport and their proofs: every record offered   *)
(* is accounted for, every loss reported, nothing retired is sent, and a   *)
(* flush or shutdown that says it is done left nothing behind.             *)
(***************************************************************************)
EXTENDS TelemetryExport, FiniteSetTheorems, SequenceTheorems, TLAPS

\* Records that have a place in the order, whatever became of them since.
Placed == {r \in Records : state[r] \in {"queued", "exporting", "complete", "retired"}}

Stations == {"idle", "waiting", "gave_up", "closing", "entered", "settling", "drained", "late",
             "late_done", "aborting", "done"}

\* Who holds the lifecycle lock.
Inside == {"closing", "entered", "settling", "drained", "late", "aborting"}

RecordType ==
  /\ state \in [Records -> {"new", "refused", "queued", "exporting", "complete", "retired"}]
  /\ sequence \in [Records -> Nat] /\ sent \in [Records -> 0 .. 1]
  /\ deque \in Seq(Records) /\ batch \subseteq Records /\ acked \subseteq Records
  /\ exporter \in {"idle", "taken", "admitted", "sending"} /\ wire \in {"none", "active", "late"}
CountType ==
  /\ count \in [Counters -> Nat] /\ lost \in [Reasons -> Nat] /\ count["offered"] <= MaxOffers
LifecycleType ==
  /\ pc \in [Lifecycles -> Stations] /\ prefix \in [Lifecycles -> Nat]
  /\ holder \in Lifecycles \cup {Nobody}
  /\ closed \in BOOLEAN /\ aborted \in BOOLEAN /\ shut \in BOOLEAN

\* Every record offered is counted once, and every record admitted settled once or pending.
CountInv ==
  /\ count["offered"] = count["admitted"] + count["overflow"] + count["post_shutdown"]
                        + count["handoff_failed"]
  /\ count["admitted"] = count["completed"] + count["retired"] + Cardinality(Pending)
  /\ count["admitted"] = Cardinality(Placed) /\ Cardinality(Pending) <= Capacity

\* The records admitted, and only they, have a place in the order.
OrderInv == \A r \in Records : (sequence[r] # 0 <=> r \in Placed) /\ sequence[r] <= count["admitted"]

\* What the SDK has not exported yet was not sent, and what it exports is on its way.
DequeInv ==
  /\ IsInjective(deque) /\ Cardinality(batch) <= BatchSize
  /\ \A r \in ToSet(deque) : state[r] \in {"queued", "retired"} /\ r \notin batch
BatchInv ==
  /\ exporter = "idle" => batch = {}
  /\ exporter = "taken" => \A r \in batch : state[r] \in {"queued", "retired"}
  /\ exporter = "admitted" => \A r \in batch : state[r] = "exporting" /\ sent[r] = 0
  /\ exporter = "sending" => \A r \in batch : state[r] = "exporting"
SentInv ==
  /\ \A r \in Records : sent[r] # 0 => state[r] \in {"exporting", "complete"}
  /\ \A r \in acked : state[r] = "complete"

\* One flush or shutdown at a time; a shutdown closes the queue before it aborts it,
\* and after the abort nothing is queued any more.
LockInv ==
  /\ \A l \in Lifecycles : holder = l <=> pc[l] \in Inside
  /\ holder \in Flushers => ~shut
  /\ shut /\ holder = Nobody => aborted
StageInv ==
  /\ \A l \in Flushers : pc[l] \notin {"closing", "aborting"}
  /\ \A l \in Closers : pc[l] # "late" /\ (pc[l] \in {"entered", "settling", "drained", "aborting"} => closed)
                         /\ (pc[l] = "done" => aborted)
  /\ aborted => closed /\ Queued = {}
PrefixInv ==
  \A l \in Lifecycles : prefix[l] <= count["admitted"] /\ (pc[l] \in {"idle", "waiting"} => prefix[l] = 0)

IInv ==
  /\ RecordType /\ CountType /\ LifecycleType
  /\ CountInv /\ LossesReported /\ OrderInv
  /\ DequeInv /\ BatchInv /\ SentInv
  /\ LockInv /\ StageInv /\ PrefixInv /\ FlushHonest

-----------------------------------------------------------------------------
(* Counting *)

\* One record more is offered, and counted under one heading.
CountedOnce(heading) ==
  /\ count' \in [Counters -> Nat]
  /\ count'["offered"] = count["offered"] + 1
  /\ \A k \in Counters \ {"offered"} : count'[k] = count[k] + IF k = heading THEN 1 ELSE 0

LEMMA AddsOne ==
  ASSUME NEW heading \in {"admitted", "overflow", "post_shutdown", "handoff_failed"},
         count \in [Counters -> Nat], Add({heading, "offered"}, 1)
  PROVE  CountedOnce(heading)
BY DEF CountedOnce, Add, Counters

\* A number of records more is counted under one heading.
CountedMore(heading, n) ==
  /\ count' \in [Counters -> Nat]
  /\ \A k \in Counters : count'[k] = count[k] + IF k = heading THEN n ELSE 0

LEMMA AddsMore ==
  ASSUME NEW heading \in Counters, NEW n \in Nat, count \in [Counters -> Nat], Add({heading}, n)
  PROVE  CountedMore(heading, n)
BY DEF CountedMore, Add, Counters

LEMMA RecordsFinite == \A S \in SUBSET Records : IsFiniteSet(S) /\ Cardinality(S) \in Nat
BY RecordsAssumption, FS_Subset, FS_CardinalityType DEF RecordsAssumption

\* The records that are pending and the ones that have a place make up one another.
LEMMA OneMore ==
  ASSUME NEW S \in SUBSET Records, NEW r \in Records, r \notin S
  PROVE  Cardinality(S \cup {r}) = Cardinality(S) + 1
BY RecordsFinite, FS_AddElement

LEMMA SomeLess ==
  ASSUME NEW S \in SUBSET Records, NEW T \in SUBSET S
  PROVE  Cardinality(S) = Cardinality(S \ T) + Cardinality(T)
<1>1. S \cap T = T
  OBVIOUS
<1>2. Cardinality(S \ T) = Cardinality(S) - Cardinality(T)
  BY <1>1, RecordsFinite, FS_Difference
<1>3. Cardinality(S) \in Nat /\ Cardinality(T) \in Nat
  BY RecordsFinite
<1> QED
  BY <1>2, <1>3

LEMMA Together ==
  ASSUME NEW S \in SUBSET Records, NEW T \in SUBSET Records, S \cap T = {}
  PROVE  Cardinality(S \cup T) = Cardinality(S) + Cardinality(T)
<1>1. (S \cup T) \ T = S
  OBVIOUS
<1> QED
  BY <1>1, SomeLess

-----------------------------------------------------------------------------
(* Batches *)

LEMMA Appended ==
  ASSUME NEW s \in Seq(Records), IsInjective(s), NEW r \in Records, r \notin ToSet(s)
  PROVE  /\ Append(s, r) \in Seq(Records) /\ IsInjective(Append(s, r))
         /\ ToSet(Append(s, r)) = ToSet(s) \cup {r}
<1> DEFINE n == Len(s)
           t == Append(s, r)
<1>1. /\ n \in Nat /\ DOMAIN s = 1 .. n /\ t \in Seq(Records)
      /\ Len(t) = n + 1 /\ DOMAIN t = 1 .. n + 1
      /\ (\A i \in 1 .. n : t[i] = s[i]) /\ t[n + 1] = r
  BY AppendProperties, LenProperties
<1>2. ToSet(s) = {s[i] : i \in 1 .. n} /\ ToSet(t) = {t[i] : i \in 1 .. n + 1}
  BY <1>1 DEF ToSet
<1>3. (\A i, j \in 1 .. n : s[i] = s[j] => i = j) /\ (\A i \in 1 .. n : s[i] # r)
  BY <1>1, <1>2 DEF IsInjective
<1> HIDE DEF n, t
<1>4. (\A i \in 1 .. n + 1 : i \in 1 .. n \/ i = n + 1) /\ 1 .. n + 1 = 1 .. n \cup {n + 1}
  BY <1>1
<1>5. IsInjective(t)
  <2>1. \A i, j \in 1 .. n + 1 : t[i] = t[j] => i = j
    BY <1>1, <1>3, <1>4
  <2> QED
    BY <1>1, <2>1 DEF IsInjective
<1>6. ToSet(t) = ToSet(s) \cup {r}
  BY <1>1, <1>2, <1>4
<1> QED
  BY <1>1, <1>5, <1>6 DEF t

\* A part of a sequence of distinct records has distinct records, at most as many as its places.
LEMMA Part ==
  ASSUME NEW s \in Seq(Records), IsInjective(s), NEW m \in Nat, NEW n \in Nat, m >= 1, n <= Len(s), m <= n + 1
  PROVE  /\ SubSeq(s, m, n) \in Seq(Records) /\ IsInjective(SubSeq(s, m, n))
         /\ ToSet(SubSeq(s, m, n)) = {s[i] : i \in m .. n}
         /\ Cardinality(ToSet(SubSeq(s, m, n))) <= n + 1 - m
<1> DEFINE t == SubSeq(s, m, n)
           k == n + 1 - m
           z == Len(s)
<1>1. z \in Nat /\ DOMAIN s = 1 .. z /\ \A i \in 1 .. z : s[i] \in Records
  BY LenProperties
<1>2. \A i, j \in 1 .. z : s[i] = s[j] => i = j
  BY <1>1 DEF IsInjective
<1>3. /\ k \in Nat /\ m \in Int /\ n \in Int /\ (m <= n => n - m + 1 = k) /\ (~(m <= n) => k = 0)
      /\ (\A i \in 1 .. k : i \in 1 .. n - m + 1) /\ \A i \in m .. n : i \in 1 .. z
  BY <1>1
<1>4. \A i \in m .. n : s[i] \in Records
  BY <1>1, <1>3
<1>5. t \in Seq(Records) /\ Len(t) = k /\ \A i \in 1 .. k : t[i] = s[m + i - 1]
  <2>1. /\ SubSeq(s, m, n) \in Seq(Records)
        /\ Len(SubSeq(s, m, n)) = IF m <= n THEN n - m + 1 ELSE 0
        /\ \A i \in 1 .. n - m + 1 : SubSeq(s, m, n)[i] = s[m + i - 1]
    BY <1>3, <1>4, SubSeqProperties
  <2> HIDE DEF k
  <2> QED
    BY <1>3, <2>1
<1> HIDE DEF t, z
<1>6. DOMAIN t = 1 .. k
  BY <1>5, LenProperties
<1>7. \A i \in 1 .. k : m + i - 1 \in m .. n
  BY <1>3
<1>8. IsInjective(t)
  <2> SUFFICES ASSUME NEW i \in 1 .. k, NEW j \in 1 .. k, t[i] = t[j]
               PROVE  i = j
    BY <1>6 DEF IsInjective
  <2>1. m + i - 1 = m + j - 1
    BY <1>2, <1>3, <1>5, <1>7
  <2> QED
    BY <2>1, <1>3
<1>9. ToSet(t) = {s[i] : i \in m .. n}
  <2>1. ToSet(t) = {t[i] : i \in 1 .. k}
    BY <1>6 DEF ToSet
  <2>2. \A i \in m .. n : i - m + 1 \in 1 .. k /\ m + (i - m + 1) - 1 = i
    BY <1>3
  <2>3. \A i \in m .. n : s[i] \in ToSet(t)
    <3> TAKE i \in m .. n
    <3>1. t[i - m + 1] = s[i]
      BY <1>5, <2>2
    <3> QED
      BY <2>1, <2>2, <3>1
  <2>4. \A i \in 1 .. k : t[i] \in {s[j] : j \in m .. n}
    BY <1>5, <1>7
  <2> QED
    BY <2>1, <2>3, <2>4
<1>10. Cardinality(ToSet(t)) <= k
  <2>1. t \in Surjection(1 .. k, ToSet(t))
    BY <1>5, <1>6 DEF Surjection, ToSet
  <2>2. IsFiniteSet(1 .. k) /\ Cardinality(1 .. k) = k
    BY <1>3, FS_Interval
  <2> QED
    BY <2>1, <2>2, FS_Surjection
<1> QED
  BY <1>5, <1>8, <1>9, <1>10 DEF t

-----------------------------------------------------------------------------
(* The first state *)

LEMMA StartOfExport == Init => IInv
<1> SUFFICES ASSUME Init PROVE IInv
  OBVIOUS
<1>1. /\ \A r \in Records : state[r] = "new" /\ sequence[r] = 0 /\ sent[r] = 0
      /\ deque = <<>> /\ batch = {} /\ acked = {} /\ exporter = "idle" /\ wire = "none"
      /\ holder = Nobody /\ closed = FALSE /\ aborted = FALSE /\ shut = FALSE
      /\ \A l \in Lifecycles : pc[l] = "idle" /\ prefix[l] = 0
  BY DEF Init
<1>2. RecordType
  BY <1>1, EmptySeq DEF Init, RecordType
<1>3. \A k \in Counters : count[k] = 0
  BY DEF Init
<1>4. CountType
  <2>1. "offered" \in Counters
    BY DEF Counters
  <2> QED
    BY <1>3, <2>1, SizesAssumption DEF SizesAssumption, CountType, Init
<1>5. LifecycleType
  BY DEF Init, LifecycleType, Stations
<1>6. Pending = {} /\ Placed = {} /\ Queued = {}
  BY <1>1 DEF Pending, Placed, Queued
<1>7. CountInv /\ LossesReported
  <2>1. Cardinality({}) = 0
    BY FS_EmptySet
  <2>2. Capacity \in Nat /\ \A k \in Reasons : lost[k] = 0
    BY SizesAssumption DEF SizesAssumption, Init
  <2> QED
    BY <1>1, <1>3, <1>6, <2>1, <2>2 DEF CountInv, LossesReported, Counters, Reasons
<1>8. OrderInv
  BY <1>1, <1>3, <1>6 DEF OrderInv, Counters
<1>9. DequeInv
  <2>1. <<>> \in Seq(Records) /\ Len(<<>>) = 0 /\ DOMAIN <<>> = {}
    BY EmptySeq, LenProperties
  <2>2. IsInjective(<<>>) /\ ToSet(<<>>) = {}
    BY <2>1 DEF IsInjective, ToSet
  <2>3. Cardinality({}) = 0 /\ BatchSize \in Nat
    BY FS_EmptySet, SizesAssumption DEF SizesAssumption
  <2> QED
    BY <1>1, <2>2, <2>3 DEF DequeInv
<1>10. BatchInv /\ SentInv
  BY <1>1 DEF BatchInv, SentInv
<1>11. LockInv /\ StageInv
  BY <1>1, <1>6, LifecycleAssumption DEF LifecycleAssumption, LockInv, StageInv, Inside, Lifecycles
<1>12. PrefixInv /\ FlushHonest
  BY <1>1, <1>3 DEF PrefixInv, FlushHonest, Counters
<1> QED
  BY <1>2, <1>4, <1>5, <1>7, <1>8, <1>9, <1>10, <1>11, <1>12 DEF IInv

-----------------------------------------------------------------------------
(* What the steps of one side leave alone on the other *)

\* What is settled stays settled, and an attempt ends with its records complete.
Onward ==
  \A r \in Records :
    /\ state[r] \in {"complete", "retired"} => state'[r] = state[r]
    /\ state[r] = "exporting" => state'[r] \in {"exporting", "complete"}

\* Records take their place behind those that have one.
Behind ==
  /\ count' \in [Counters -> Nat] /\ count'["admitted"] >= count["admitted"]
  /\ \A r \in Records : sequence'[r] = sequence[r] \/ sequence'[r] > count["admitted"]

LEMMA LifecyclesStay ==
  ASSUME IInv, UNCHANGED <<lifecycle, closed, aborted>>, Onward, Behind, RecordType', aborted => Queued' = {}
  PROVE  LifecycleType' /\ LockInv' /\ StageInv' /\ PrefixInv' /\ FlushHonest'
<1> USE DEF IInv
<1>1. pc' = pc /\ holder' = holder /\ shut' = shut /\ prefix' = prefix /\ closed' = closed /\ aborted' = aborted
  BY DEF lifecycle
<1>2. LifecycleType' /\ LockInv' /\ StageInv'
  BY <1>1 DEF LifecycleType, LockInv, StageInv
<1>3. count["admitted"] \in Nat /\ count'["admitted"] \in Nat /\ \A l \in Lifecycles : prefix[l] \in Nat
  BY DEF CountType, Counters, Behind, LifecycleType
<1>4. PrefixInv'
  BY <1>1, <1>3 DEF PrefixInv, Behind
<1>5. FlushHonest'
  <2> SUFFICES ASSUME NEW l \in Lifecycles, pc[l] = "drained" \/ (pc[l] = "done" /\ l \in Flushers),
                      NEW r \in Records, sequence'[r] \in 1 .. prefix[l]
               PROVE  state'[r] \in {"complete", "retired"} \/ (aborted /\ state'[r] = "exporting")
    BY <1>1 DEF FlushHonest
  <2>1. sequence'[r] = sequence[r]
    BY <1>3 DEF Behind, PrefixInv
  <2>2. state[r] \in {"complete", "retired"} \/ (aborted /\ state[r] = "exporting")
    BY <2>1 DEF FlushHonest
  <2>3. CASE state[r] \in {"complete", "retired"}
    BY <2>3 DEF Onward
  <2>4. CASE aborted /\ state[r] = "exporting"
    <3>1. state'[r] \in {"exporting", "complete"}
      BY <2>4 DEF Onward
    <3> QED
      BY <2>4, <3>1
  <2> QED
    BY <2>2, <2>3, <2>4
<1> QED
  BY <1>2, <1>4, <1>5

\* The queue and the export, which flush and shutdown only read.
RecordsInv == RecordType /\ CountType /\ CountInv /\ LossesReported /\ OrderInv /\ DequeInv /\ BatchInv /\ SentInv

LEMMA RecordsStay ==
  ASSUME IInv, UNCHANGED <<state, sequence, count, lost, export>>
  PROVE  RecordsInv' /\ Queued' = Queued
<1>1. /\ state' = state /\ sequence' = sequence /\ count' = count /\ lost' = lost /\ deque' = deque
      /\ batch' = batch /\ exporter' = exporter /\ wire' = wire /\ sent' = sent /\ acked' = acked
  BY DEF export
<1>2. RecordType' /\ CountType' /\ OrderInv' /\ DequeInv' /\ BatchInv' /\ SentInv' /\ LossesReported'
  BY <1>1 DEF IInv, RecordType, CountType, OrderInv, DequeInv, BatchInv, SentInv, LossesReported, Placed
<1>3. CountInv'
  BY <1>1 DEF IInv, CountInv, Pending, Placed
<1> QED
  BY <1>1, <1>2, <1>3 DEF RecordsInv, Queued

-----------------------------------------------------------------------------
(* Handing records over *)

Headings == {<<"post_shutdown", "shutdown">>, <<"overflow", "queue_overflow">>, <<"handoff_failed", "handoff_failure">>}

LEMMA RefusalCounted ==
  ASSUME CountType, CountInv, LossesReported, NEW k, NEW reason, <<k, reason>> \in Headings,
         count["offered"] < MaxOffers, Add({k, "offered"}, 1), Lose(1, reason),
         acked' = acked, Pending' = Pending, Placed' = Placed
  PROVE  CountType' /\ CountInv' /\ LossesReported' /\ count'["admitted"] = count["admitted"]
<1>1. k \in {"admitted", "overflow", "post_shutdown", "handoff_failed"} /\ reason \in Reasons
      /\ k # "admitted" /\ k \in Counters
  BY DEF Headings, Reasons, Counters
<1>2. CountedOnce(k)
  BY <1>1, AddsOne DEF CountType
<1>3. lost' = [lost EXCEPT ![reason] = @ + 1] /\ lost' \in [Reasons -> Nat]
  BY <1>1 DEF Lose, CountType
<1>4. CountType'
  BY <1>2, <1>3, SizesAssumption DEF CountType, CountedOnce, SizesAssumption, Counters
<1>5. count \in [Counters -> Nat] /\ lost \in [Reasons -> Nat]
  BY DEF CountType
<1>6. /\ count'["offered"] = count["offered"] + 1
      /\ count'["admitted"] = count["admitted"]
      /\ count'["completed"] = count["completed"]
      /\ count'["retired"] = count["retired"]
      /\ count'["overflow"] = count["overflow"] + IF k = "overflow" THEN 1 ELSE 0
      /\ count'["post_shutdown"] = count["post_shutdown"] + IF k = "post_shutdown" THEN 1 ELSE 0
      /\ count'["handoff_failed"] = count["handoff_failed"] + IF k = "handoff_failed" THEN 1 ELSE 0
  BY <1>1, <1>2, <1>5 DEF CountedOnce, Counters
<1>7. CountInv'
  <2>1. count'["offered"] = count'["admitted"] + count'["overflow"] + count'["post_shutdown"] + count'["handoff_failed"]
    BY <1>1, <1>5, <1>6 DEF CountInv, Counters
  <2> QED
    BY <1>6, <2>1 DEF CountInv
<1>8. LossesReported'
  BY <1>1, <1>3, <1>5, <1>6 DEF LossesReported, Headings, Reasons, Counters
<1> QED
  BY <1>4, <1>6, <1>7, <1>8

LEMMA RefusedKeeps ==
  ASSUME IInv, NEW r \in Records, count["offered"] < MaxOffers,
         NEW k, NEW reason, <<k, reason>> \in Headings, Refused(r, k, reason),
         UNCHANGED <<closed, aborted, batch, exporter, wire, sent, acked, lifecycle>>
  PROVE  IInv'
<1> USE DEF IInv
<1>1. /\ state' = [state EXCEPT ![r] = IF @ = "new" THEN "refused" ELSE @]
      /\ sequence' = sequence /\ deque' = deque /\ batch' = batch /\ acked' = acked /\ sent' = sent
      /\ exporter' = exporter /\ wire' = wire
  BY DEF Refused
<1>2. \A s \in Records : state'[s] = state[s] \/ (s = r /\ state[s] = "new" /\ state'[s] = "refused")
  BY <1>1 DEF RecordType
<1>3. RecordType'
  BY <1>1 DEF RecordType
<1>4. Pending' = Pending /\ Placed' = Placed /\ Queued' = Queued
  BY <1>2 DEF Pending, Placed, Queued
<1>5. CountType' /\ CountInv' /\ LossesReported' /\ count'["admitted"] = count["admitted"]
  BY <1>1, <1>4, RefusalCounted DEF Refused
<1>6. OrderInv'
  BY <1>1, <1>4, <1>5 DEF OrderInv
<1>7. DequeInv'
  <2>1. ToSet(deque) \subseteq Records
    BY LenProperties DEF ToSet, RecordType
  <2> QED
    BY <1>1, <1>2, <2>1 DEF DequeInv
<1>8. BatchInv' /\ SentInv'
  BY <1>1, <1>2 DEF BatchInv, SentInv, RecordType
<1>9. Onward /\ Behind
  BY <1>1, <1>2, <1>5 DEF Onward, Behind, CountType, Counters
<1>10. LifecycleType' /\ LockInv' /\ StageInv' /\ PrefixInv' /\ FlushHonest'
  <2>1. aborted => Queued' = {}
    BY <1>4 DEF StageInv
  <2> QED
    BY <1>3, <1>9, <2>1, LifecyclesStay
<1> QED
  BY <1>3, <1>5, <1>6, <1>7, <1>8, <1>10

LEMMA RejectLateKeeps ==
  ASSUME IInv, RejectLate
  PROVE  IInv'
<1> USE DEF IInv
<1>1. /\ state' = state /\ sequence' = sequence /\ deque' = deque /\ batch' = batch /\ acked' = acked
      /\ sent' = sent /\ exporter' = exporter /\ wire' = wire
  BY DEF RejectLate, export
<1>2. RecordType' /\ Pending' = Pending /\ Placed' = Placed /\ Queued' = Queued
  BY <1>1 DEF RecordType, Pending, Placed, Queued
<1>3. CountType' /\ CountInv' /\ LossesReported' /\ count'["admitted"] = count["admitted"]
  <2>1. <<"post_shutdown", "shutdown">> \in Headings
    BY DEF Headings
  <2>2. count["offered"] < MaxOffers /\ Add({"post_shutdown", "offered"}, 1) /\ Lose(1, "shutdown")
    BY DEF RejectLate
  <2> QED
    BY <1>1, <1>2, <2>1, <2>2, RefusalCounted
<1>4. OrderInv' /\ DequeInv' /\ BatchInv' /\ SentInv'
  BY <1>1, <1>2, <1>3 DEF OrderInv, DequeInv, BatchInv, SentInv
<1>5. Onward /\ Behind /\ UNCHANGED <<lifecycle, closed, aborted>>
  BY <1>1, <1>3 DEF Onward, Behind, CountType, Counters, RejectLate
<1>6. aborted => Queued' = {}
  BY <1>2 DEF StageInv
<1> QED
  BY <1>2, <1>3, <1>4, <1>5, <1>6, LifecyclesStay

LEMMA AdmittedKeeps ==
  ASSUME IInv, NEW r \in Records, count["offered"] < MaxOffers, state[r] = "new", ~closed,
         Cardinality(Pending) < Capacity, Admitted(r),
         UNCHANGED <<closed, aborted, batch, exporter, wire, sent, acked, lifecycle>>
  PROVE  IInv'
<1> USE DEF IInv
<1> DEFINE n == count["admitted"]
<1>1. /\ state' = [state EXCEPT ![r] = "queued"] /\ sequence' = [sequence EXCEPT ![r] = n + 1]
      /\ deque' = Append(deque, r) /\ batch' = batch /\ acked' = acked /\ sent' = sent /\ lost' = lost
      /\ exporter' = exporter /\ wire' = wire
  BY DEF Admitted
<1>2. count \in [Counters -> Nat] /\ lost \in [Reasons -> Nat] /\ n \in Nat
  BY DEF CountType, Counters
<1>3. CountedOnce("admitted")
  BY <1>2, AddsOne DEF Admitted
<1>4. /\ count'["offered"] = count["offered"] + 1 /\ count'["admitted"] = n + 1
      /\ \A k \in Counters : k \notin {"offered", "admitted"} => count'[k] = count[k]
  BY <1>2, <1>3 DEF CountedOnce, Counters
<1>5. /\ state'[r] = "queued" /\ \A s \in Records : s # r => state'[s] = state[s]
      /\ sequence'[r] = n + 1 /\ \A s \in Records : s # r => sequence'[s] = sequence[s]
  BY <1>1 DEF RecordType
<1>6. r \notin ToSet(deque) /\ r \notin batch /\ r \notin acked /\ sent[r] = 0
  <2>1. r \notin ToSet(deque) /\ r \notin acked /\ sent[r] = 0
    BY DEF DequeInv, SentInv
  <2>2. exporter \in {"idle", "taken", "admitted", "sending"}
    BY DEF RecordType
  <2> QED
    BY <2>1, <2>2 DEF BatchInv
<1>7. /\ deque' \in Seq(Records) /\ IsInjective(deque') /\ ToSet(deque)' = ToSet(deque) \cup {r}
  <2>1. deque \in Seq(Records) /\ IsInjective(deque)
    BY DEF RecordType, DequeInv
  <2> QED
    BY <1>1, <1>6, <2>1, Appended DEF ToSet
<1>8. RecordType'
  <2>1. sequence' \in [Records -> Nat]
    BY <1>1, <1>2 DEF RecordType
  <2> QED
    BY <1>1, <1>7, <2>1 DEF RecordType
<1>9. CountType'
  BY <1>1, <1>2, <1>3, <1>4, SizesAssumption DEF CountType, CountedOnce, SizesAssumption, Counters
<1>10. Pending' = Pending \cup {r} /\ Placed' = Placed \cup {r} /\ r \notin Pending /\ r \notin Placed
  BY <1>5 DEF Pending, Placed
<1>11. CountInv'
  <2>1. Cardinality(Pending') = Cardinality(Pending) + 1 /\ Cardinality(Placed') = Cardinality(Placed) + 1
    BY <1>10, OneMore DEF Pending, Placed
  <2>2. Cardinality(Pending) \in Nat /\ Cardinality(Placed) \in Nat /\ Capacity \in Nat
    BY RecordsFinite, SizesAssumption DEF Pending, Placed, SizesAssumption
  <2>3. Cardinality(Pending)' = Cardinality(Pending') /\ Cardinality(Placed)' = Cardinality(Placed')
    OBVIOUS
  <2> QED
    BY <1>2, <1>4, <2>1, <2>2, <2>3 DEF CountInv, Counters
<1>12. LossesReported'
  BY <1>1, <1>4 DEF LossesReported, Counters
<1>13. OrderInv'
  <2>1. \A s \in Records : (sequence[s] # 0 <=> s \in Placed) /\ sequence[s] <= n /\ sequence[s] \in Nat
    BY DEF OrderInv, RecordType
  <2>2. \A s \in Records : (sequence'[s] # 0 <=> s \in Placed') /\ sequence'[s] <= n + 1
    BY <1>2, <1>5, <1>10, <2>1
  <2> QED
    BY <1>4, <2>2 DEF OrderInv
<1>14. DequeInv'
  BY <1>1, <1>5, <1>6, <1>7, LenProperties DEF DequeInv, ToSet, RecordType
<1>15. BatchInv' /\ SentInv'
  <2>1. \A s \in batch : s \in Records /\ s # r
    BY <1>6 DEF RecordType
  <2>2. BatchInv'
    BY <1>1, <1>5, <2>1 DEF BatchInv
  <2>3. \A s \in acked : s \in Records /\ s # r
    BY <1>6 DEF RecordType
  <2>4. SentInv'
    BY <1>1, <1>5, <1>6, <2>3 DEF SentInv
  <2> QED
    BY <2>2, <2>4
<1>16. Onward /\ Behind
  <2>1. Onward
    BY <1>5 DEF Onward
  <2>2. Behind
    BY <1>2, <1>3, <1>4, <1>5 DEF Behind, CountedOnce
  <2> QED
    BY <2>1, <2>2
<1>17. LifecycleType' /\ LockInv' /\ StageInv' /\ PrefixInv' /\ FlushHonest'
  <2>1. ~aborted
    BY DEF StageInv
  <2> QED
    BY <1>8, <1>16, <2>1, LifecyclesStay
<1> QED
  BY <1>8, <1>9, <1>11, <1>12, <1>13, <1>14, <1>15, <1>17

LEMMA HandoffKeeps ==
  ASSUME IInv, NEW r \in Records, Handoff(r)
  PROVE  IInv'
<1>1. /\ count["offered"] < MaxOffers /\ state[r] \in {"new", "queued", "exporting"}
      /\ UNCHANGED <<closed, aborted, batch, exporter, wire, sent, acked, lifecycle>>
  BY DEF Handoff
<1>2. \/ \E k, reason : <<k, reason>> \in Headings /\ Refused(r, k, reason)
      \/ ~closed /\ Cardinality(Pending) < Capacity /\ r \notin Pending /\ Admitted(r)
  <2>1. Cardinality(Pending) \in Nat /\ Capacity \in Nat
    BY RecordsFinite, SizesAssumption DEF Pending, SizesAssumption
  <2> HIDE DEF Pending
  <2>2. ~(Cardinality(Pending) >= Capacity) => Cardinality(Pending) < Capacity
    BY <2>1
  <2>3. /\ <<"post_shutdown", "shutdown">> \in Headings /\ <<"overflow", "queue_overflow">> \in Headings
        /\ <<"handoff_failed", "handoff_failure">> \in Headings
    BY DEF Headings
  <2> QED
    BY <2>2, <2>3 DEF Handoff
<1>3. CASE \E k, reason : <<k, reason>> \in Headings /\ Refused(r, k, reason)
  BY <1>1, <1>3, RefusedKeeps
<1>4. CASE ~closed /\ Cardinality(Pending) < Capacity /\ r \notin Pending /\ Admitted(r)
  <2>1. state[r] = "new"
    BY <1>1, <1>4 DEF Pending
  <2> QED
    BY <1>1, <1>4, <2>1, AdmittedKeeps
<1> QED
  BY <1>2, <1>3, <1>4

-----------------------------------------------------------------------------
(* Exporting *)

LEMMA NothingSettled ==
  ASSUME IInv, UNCHANGED <<state, sequence, count, lost, closed, aborted, acked, lifecycle>>, RecordType',
         DequeInv', BatchInv', SentInv'
  PROVE  IInv'
<1> USE DEF IInv
<1>1. /\ state' = state /\ sequence' = sequence /\ count' = count /\ lost' = lost /\ acked' = acked
      /\ Pending' = Pending /\ Placed' = Placed /\ Queued' = Queued
  BY DEF Pending, Placed, Queued
<1>2. CountType' /\ CountInv' /\ LossesReported' /\ OrderInv'
  BY <1>1 DEF CountType, CountInv, LossesReported, OrderInv
<1>3. Onward /\ Behind
  BY <1>1 DEF Onward, Behind, CountType, Counters
<1>4. aborted => Queued' = {}
  BY <1>1 DEF StageInv
<1> QED
  BY <1>2, <1>3, <1>4, LifecyclesStay

LEMMA TakeBatchKeeps ==
  ASSUME IInv, TakeBatch
  PROVE  IInv'
<1> USE DEF IInv
<1> DEFINE z == Len(deque)
           n == IF z < BatchSize THEN z ELSE BatchSize
<1>1. /\ exporter = "idle" /\ deque # <<>> /\ exporter' = "taken"
      /\ batch' = ToSet(SubSeq(deque, 1, n)) /\ deque' = SubSeq(deque, n + 1, z)
      /\ UNCHANGED <<state, sequence, count, lost, closed, aborted, acked, lifecycle>>
      /\ wire' = wire /\ sent' = sent
  BY DEF TakeBatch, queue
<1>2. deque \in Seq(Records) /\ IsInjective(deque) /\ z \in Nat /\ BatchSize \in Nat \ {0}
  BY SizesAssumption, LenProperties DEF SizesAssumption, RecordType, DequeInv
<1> HIDE DEF z
<1>3. n \in Nat /\ n <= z /\ n <= BatchSize
  BY <1>2
<1> HIDE DEF n
<1>4. /\ ToSet(SubSeq(deque, 1, n)) = {deque[i] : i \in 1 .. n}
      /\ Cardinality(ToSet(SubSeq(deque, 1, n))) <= n + 1 - 1
  BY <1>2, <1>3, Part DEF z
<1>5. /\ deque' \in Seq(Records) /\ IsInjective(deque') /\ ToSet(deque') = {deque[i] : i \in n + 1 .. z}
  <2>1. n + 1 \in Nat /\ n + 1 >= 1 /\ z <= z /\ n + 1 <= z + 1
    BY <1>2, <1>3
  <2> QED
    BY <1>1, <1>2, <2>1, Part DEF z
<1>6. Cardinality(batch') <= BatchSize
  <2>1. Cardinality(batch') \in Nat
    <3>1. IsFiniteSet(1 .. n)
      BY <1>3, FS_Interval
    <3>2. batch' \subseteq Records
      <4>1. \A i \in 1 .. n : deque[i] \in Records
        BY <1>2, <1>3, LenProperties DEF z
      <4> QED
        BY <1>1, <1>4, <4>1
    <3> QED
      BY <3>2, RecordsFinite
  <2>2. Cardinality(batch') <= n + 1 - 1
    BY <1>1, <1>4
  <2> QED
    BY <1>2, <1>3, <2>1, <2>2
<1>7. DOMAIN deque = 1 .. z /\ ToSet(deque) = {deque[i] : i \in 1 .. z} /\ ToSet(deque) \subseteq Records
  BY <1>2, LenProperties DEF z, ToSet
<1>8. batch' \subseteq ToSet(deque) /\ ToSet(deque') \subseteq ToSet(deque)
  <2>1. \A i \in 1 .. n : i \in 1 .. z
    BY <1>2, <1>3
  <2>2. \A i \in n + 1 .. z : i \in 1 .. z
    BY <1>2, <1>3
  <2> QED
    BY <1>1, <1>4, <1>5, <1>7, <2>1, <2>2
<1>9. batch' \cap ToSet(deque') = {}
  <2> SUFFICES ASSUME NEW i \in 1 .. n, NEW j \in n + 1 .. z, deque[i] = deque[j] PROVE FALSE
    BY <1>1, <1>4, <1>5
  <2>1. i \in 1 .. z /\ j \in 1 .. z /\ i # j
    BY <1>2, <1>3
  <2> QED
    BY <1>2, <1>7, <2>1 DEF IsInjective
<1>10. RecordType'
  BY <1>1, <1>5, <1>7, <1>8 DEF RecordType
<1>11. DequeInv'
  <2>1. ToSet(deque)' = ToSet(deque')
    BY DEF ToSet
  <2> QED
    BY <1>1, <1>5, <1>6, <1>8, <1>9, <2>1 DEF DequeInv
<1>12. BatchInv' /\ SentInv'
  BY <1>1, <1>8 DEF BatchInv, SentInv, DequeInv
<1> QED
  BY <1>1, <1>10, <1>11, <1>12, NothingSettled

\* An export that did not begin, or an attempt given up, leaves an idle exporter.
LEMMA BeginExportKeeps ==
  ASSUME IInv, BeginExport
  PROVE  IInv'
<1> USE DEF IInv
<1>1. /\ exporter = "taken" /\ sequence' = sequence /\ count' = count /\ lost' = lost /\ closed' = closed
      /\ aborted' = aborted /\ deque' = deque /\ wire' = wire /\ sent' = sent /\ acked' = acked
      /\ UNCHANGED lifecycle
  BY DEF BeginExport
<1>2. CASE ~aborted /\ batch \subseteq Queued /\ batch' = batch /\ exporter' = "admitted"
           /\ state' = [r \in Records |-> IF r \in batch THEN "exporting" ELSE state[r]]
  <2>1. \A r \in Records : state'[r] = IF r \in batch THEN "exporting" ELSE state[r]
    BY <1>2
  <2>2. \A r \in batch : r \in Records /\ state[r] = "queued" /\ sent[r] = 0
    BY <1>2 DEF Queued, SentInv
  <2>3. RecordType'
    BY <1>1, <1>2 DEF RecordType
  <2>4. Pending' = Pending /\ Placed' = Placed
    BY <2>1, <2>2 DEF Pending, Placed
  <2>5. CountType' /\ CountInv' /\ LossesReported' /\ OrderInv'
    BY <1>1, <2>4 DEF CountType, CountInv, LossesReported, OrderInv
  <2>6. DequeInv'
    <3>1. ToSet(deque) \subseteq Records
      BY LenProperties DEF ToSet, RecordType
    <3> QED
      BY <1>1, <1>2, <2>1, <3>1 DEF DequeInv
  <2>7. BatchInv' /\ SentInv'
    <3>1. \A r \in acked : r \in Records /\ r \notin batch
      BY <2>2 DEF SentInv, RecordType
    <3> QED
      BY <1>1, <1>2, <2>1, <2>2, <3>1 DEF BatchInv, SentInv
  <2>8. Onward /\ Behind
    BY <1>1, <2>1, <2>2 DEF Onward, Behind, CountType, Counters
  <2> QED
    BY <1>1, <1>2, <2>3, <2>5, <2>6, <2>7, <2>8, LifecyclesStay
<1>3. CASE exporter' = "idle" /\ batch' = {} /\ state' = state
  <2>1. RecordType'
    BY <1>1, <1>3 DEF RecordType
  <2>2. DequeInv'
    <3>1. Cardinality({}) = 0 /\ BatchSize \in Nat
      BY FS_EmptySet, SizesAssumption DEF SizesAssumption
    <3> QED
      BY <1>1, <1>3, <3>1 DEF DequeInv
  <2>3. BatchInv' /\ SentInv'
    BY <1>1, <1>3 DEF BatchInv, SentInv
  <2> QED
    BY <1>1, <1>3, <2>1, <2>2, <2>3, NothingSettled
<1> QED
  BY <1>2, <1>3 DEF BeginExport

\* An export that returns settles its batch: acknowledged, or reported lost.
LEMMA Settles ==
  ASSUME IInv, exporter \in {"admitted", "sending"}, NEW failed \in BOOLEAN, Complete(failed),
         wire' \in {"none", "active", "late"}, sent' = sent, acked' = IF failed THEN acked ELSE acked \cup batch
  PROVE  IInv'
<1> USE DEF IInv
<1> DEFINE n == Cardinality(batch)
<1>1. batch \subseteq Records /\ n \in Nat /\ \A r \in batch : state[r] = "exporting"
  BY RecordsFinite DEF RecordType, BatchInv
<1>2. batch \cap Pending = batch
  BY <1>1 DEF Pending
<1>3. /\ state' = [r \in Records |-> IF r \in batch THEN "complete" ELSE state[r]]
      /\ Add({"completed"}, n)
      /\ IF failed THEN Lose(n, "export_failure") ELSE UNCHANGED lost
      /\ batch' = {} /\ exporter' = "idle"
      /\ UNCHANGED <<sequence, closed, aborted, deque, lifecycle>>
  BY <1>2 DEF Complete
<1> HIDE DEF n
<1>4. count \in [Counters -> Nat] /\ lost \in [Reasons -> Nat]
  BY DEF CountType
<1>5. CountedMore("completed", n)
  BY <1>1, <1>3, <1>4, AddsMore DEF Counters
<1>6. /\ count'["completed"] = count["completed"] + n
      /\ \A k \in Counters : k # "completed" => count'[k] = count[k]
  BY <1>4, <1>5 DEF CountedMore, Counters
<1>7. /\ lost' \in [Reasons -> Nat]
      /\ lost'["export_failure"] = lost["export_failure"] + IF failed THEN n ELSE 0
      /\ \A k \in Reasons : k # "export_failure" => lost'[k] = lost[k]
  BY <1>1, <1>3, <1>4 DEF Lose, Reasons
<1>8. \A r \in Records : state'[r] = IF r \in batch THEN "complete" ELSE state[r]
  BY <1>3
<1>9. RecordType'
  BY <1>1, <1>3 DEF RecordType
<1>10. CountType'
  BY <1>5, <1>6, <1>7 DEF CountType, CountedMore, Counters
<1>11. Pending' = Pending \ batch /\ Placed' = Placed /\ batch \subseteq Pending /\ Queued' = Queued
  BY <1>1, <1>8 DEF Pending, Placed, Queued
<1>12. CountInv'
  <2>1. Cardinality(Pending) = Cardinality(Pending') + n
    BY <1>11, SomeLess DEF n, Pending
  <2>2. Cardinality(Pending) \in Nat /\ Cardinality(Pending') \in Nat /\ Capacity \in Nat
    <3>1. Pending \subseteq Records /\ Pending' \subseteq Records
      BY <1>11 DEF Pending
    <3> QED
      BY <3>1, RecordsFinite, SizesAssumption DEF SizesAssumption
  <2>3. Cardinality(Pending)' = Cardinality(Pending') /\ Cardinality(Placed)' = Cardinality(Placed)
    BY <1>11
  <2> QED
    BY <1>1, <1>4, <1>6, <2>1, <2>2, <2>3 DEF CountInv, Counters
<1>13. LossesReported'
  <2>1. Cardinality(acked)' = Cardinality(acked) + IF failed THEN 0 ELSE n
    <3>1. acked \cap batch = {} /\ acked \subseteq Records
      BY <1>1 DEF SentInv, RecordType
    <3>2. Cardinality(acked \cup batch) = Cardinality(acked) + n
      BY <1>1, <3>1, Together DEF n
    <3>3. Cardinality(acked) \in Nat
      BY <3>1, RecordsFinite
    <3> QED
      BY <3>2, <3>3
  <2>2. Cardinality(acked) \in Nat
    BY RecordsFinite DEF RecordType
  <2> QED
    BY <1>1, <1>4, <1>6, <1>7, <2>1, <2>2 DEF LossesReported, Counters, Reasons
<1>14. OrderInv'
  BY <1>3, <1>6, <1>11 DEF OrderInv, Counters
<1>15. DequeInv'
  <2>1. ToSet(deque) \subseteq Records
    BY LenProperties DEF ToSet, RecordType
  <2>2. Cardinality({}) = 0 /\ BatchSize \in Nat
    BY FS_EmptySet, SizesAssumption DEF SizesAssumption
  <2> QED
    BY <1>3, <1>8, <2>1, <2>2 DEF DequeInv
<1>16. BatchInv'
  BY <1>3 DEF BatchInv
<1>17. SentInv'
  BY <1>1, <1>8 DEF SentInv, RecordType
<1>18. Onward /\ Behind
  BY <1>1, <1>3, <1>5, <1>6, <1>8 DEF Onward, Behind, CountedMore, Counters
<1>19. aborted => Queued' = {}
  BY <1>11 DEF StageInv
<1> QED
  BY <1>3, <1>9, <1>10, <1>12, <1>13, <1>14, <1>15, <1>16, <1>17, <1>18, <1>19, LifecyclesStay

LEMMA SendKeeps ==
  ASSUME IInv, Send
  PROVE  IInv'
<1> USE DEF IInv
<1>1. CASE wire' = "active" /\ exporter' = "sending" /\ exporter = "admitted"
           /\ sent' = [r \in Records |-> sent[r] + IF r \in batch THEN 1 ELSE 0]
           /\ UNCHANGED <<queue, deque, batch, acked, lifecycle>>
  <2>1. UNCHANGED <<state, sequence, count, lost, closed, aborted, acked, lifecycle>> /\ deque' = deque /\ batch' = batch
    BY <1>1 DEF queue
  <2>2. \A r \in batch : r \in Records /\ sent[r] = 0 /\ state[r] = "exporting"
    BY <1>1 DEF BatchInv, RecordType
  <2>3. /\ \A r \in Records : sent[r] \in 0 .. 1 /\ sent'[r] = IF r \in batch THEN 1 ELSE sent[r]
        /\ sent' \in [Records -> 0 .. 1]
    <3>1. \A r \in Records : sent[r] \in 0 .. 1
      BY DEF RecordType
    <3>2. \A r \in Records : sent[r] + (IF r \in batch THEN 1 ELSE 0) = IF r \in batch THEN 1 ELSE sent[r]
      BY <2>2, <3>1
    <3>3. sent' = [r \in Records |-> IF r \in batch THEN 1 ELSE sent[r]]
      BY <1>1, <3>2
    <3> QED
      BY <3>1, <3>3
  <2>4. RecordType'
    BY <1>1, <2>1, <2>3 DEF RecordType
  <2>5. DequeInv'
    BY <2>1 DEF DequeInv
  <2>6. BatchInv' /\ SentInv'
    BY <1>1, <2>1, <2>2, <2>3 DEF BatchInv, SentInv
  <2> QED
    BY <2>1, <2>4, <2>5, <2>6, NothingSettled
<1>2. CASE exporter = "admitted" /\ Complete(TRUE) /\ UNCHANGED <<wire, sent, acked>>
  <2>1. wire' \in {"none", "active", "late"}
    BY <1>2 DEF RecordType
  <2> QED
    BY <1>2, <2>1, Settles
<1> QED
  BY <1>1, <1>2 DEF Send

LEMMA AttemptKeeps ==
  ASSUME IInv, AttemptEnds \/ AttemptTimesOut \/ LateAttemptEnds
  PROVE  IInv'
<1> USE DEF IInv
<1>1. CASE AttemptEnds
  <2>1. PICK ok \in BOOLEAN : Complete(~ok) /\ acked' = IF ok THEN acked \cup batch ELSE acked
    BY <1>1 DEF AttemptEnds
  <2>2. exporter = "sending" /\ wire' = "none" /\ sent' = sent
    BY <1>1 DEF AttemptEnds
  <2>3. acked' = IF ~ok THEN acked ELSE acked \cup batch
    BY <2>1
  <2> QED
    BY <2>1, <2>2, <2>3, Settles
<1>2. CASE AttemptTimesOut
  BY <1>2, Settles DEF AttemptTimesOut
<1>3. CASE LateAttemptEnds
  <2>1. UNCHANGED <<state, sequence, count, lost, closed, aborted, acked, lifecycle>> /\ deque' = deque /\ batch' = batch
        /\ exporter' = exporter /\ sent' = sent /\ wire' = "none"
    BY <1>3 DEF LateAttemptEnds, queue
  <2>2. RecordType' /\ DequeInv' /\ BatchInv' /\ SentInv'
    BY <2>1 DEF RecordType, DequeInv, BatchInv, SentInv
  <2> QED
    BY <2>1, <2>2, NothingSettled
<1> QED
  BY <1>1, <1>2, <1>3

-----------------------------------------------------------------------------
(* Flush and shutdown *)

\* A flush or shutdown comes from one station to another, and the others stay.
Comes(l, to) == pc' = [pc EXCEPT ![l] = to]

\* Steps that only read the queue.
LEMMA ReadsOnly ==
  ASSUME IInv, UNCHANGED <<state, sequence, count, lost, export>>, LifecycleType', LockInv', PrefixInv',
         FlushHonest', (StageInv /\ Queued' = Queued) => StageInv'
  PROVE  IInv'
BY RecordsStay DEF IInv, RecordsInv

LEMMA BeginKeeps ==
  ASSUME IInv, NEW l \in Lifecycles, Begin(l) \/ GiveUp(l)
  PROVE  IInv'
<1> USE DEF IInv
<1>1. PICK to \in {"waiting", "gave_up"} : Comes(l, to)
  BY DEF Begin, GiveUp, Comes
<1>2. /\ UNCHANGED <<state, sequence, count, lost, export>> /\ UNCHANGED <<closed, aborted, holder, shut, prefix>>
      /\ pc[l] \in {"idle", "waiting"}
  BY DEF Begin, GiveUp, queue
<1>3. pc'[l] = to /\ \A m \in Lifecycles : m # l => pc'[m] = pc[m]
  BY <1>1 DEF Comes, LifecycleType
<1>4. LifecycleType'
  BY <1>1, <1>2 DEF LifecycleType, Comes, Stations
<1>5. LockInv'
  <2>1. \A m \in Lifecycles : pc'[m] \in Inside <=> pc[m] \in Inside
    BY <1>2, <1>3 DEF Inside
  <2> QED
    BY <1>2, <2>1 DEF LockInv
<1>6. StageInv /\ Queued' = Queued => StageInv'
  BY <1>2, <1>3 DEF StageInv, Lifecycles
<1>7. PrefixInv'
  BY <1>2, <1>3 DEF PrefixInv
<1>8. FlushHonest'
  BY <1>2, <1>3 DEF FlushHonest
<1> QED
  BY <1>2, <1>4, <1>5, <1>6, <1>7, <1>8, ReadsOnly

LEMMA EnterKeeps ==
  ASSUME IInv, NEW l \in Lifecycles, Enter(l)
  PROVE  IInv'
<1> USE DEF IInv
<1>1. /\ pc[l] = "waiting" /\ holder = Nobody
      /\ UNCHANGED <<state, sequence, count, lost, export>> /\ UNCHANGED <<closed, aborted, prefix>>
  BY DEF Enter, queue
<1>2. prefix[l] = 0 /\ Nobody \notin Lifecycles /\ \A m \in Lifecycles : pc[m] \notin Inside
  BY <1>1, LifecycleAssumption DEF LifecycleAssumption, Lifecycles, PrefixInv, LockInv
<1>3. CASE shut /\ Comes(l, "done") /\ UNCHANGED <<holder, shut>>
  <2>1. pc'[l] = "done" /\ \A m \in Lifecycles : m # l => pc'[m] = pc[m]
    BY <1>3 DEF Comes, LifecycleType
  <2>2. LifecycleType'
    BY <1>1, <1>3 DEF LifecycleType, Comes, Stations
  <2>3. LockInv'
    BY <1>1, <1>2, <1>3, <2>1 DEF LockInv, Inside
  <2>4. aborted
    BY <1>1, <1>3 DEF LockInv
  <2>5. StageInv /\ Queued' = Queued => StageInv'
    BY <1>1, <2>1, <2>4 DEF StageInv, Lifecycles
  <2>6. PrefixInv'
    BY <1>1, <2>1 DEF PrefixInv
  <2>7. FlushHonest'
    <3>1. 1 .. prefix[l] = {}
      BY <1>2
    <3> QED
      BY <1>1, <2>1, <3>1 DEF FlushHonest
  <2> QED
    BY <1>1, <2>2, <2>3, <2>5, <2>6, <2>7, ReadsOnly
<1>4. CASE ~shut /\ Comes(l, IF l \in Closers THEN "closing" ELSE "entered") /\ holder' = l /\ shut' = (l \in Closers)
  <2>1. /\ pc'[l] = IF l \in Closers THEN "closing" ELSE "entered"
        /\ \A m \in Lifecycles : m # l => pc'[m] = pc[m]
    BY <1>4 DEF Comes, LifecycleType
  <2>2. LifecycleType'
    BY <1>1, <1>4 DEF LifecycleType, Comes, Stations
  <2>3. LockInv'
    <3>1. \A m \in Lifecycles : holder' = m <=> pc'[m] \in Inside
      BY <1>2, <1>4, <2>1 DEF Inside
    <3>2. holder' \in Flushers => ~shut'
      BY <1>4, LifecycleAssumption DEF LifecycleAssumption
    <3> QED
      BY <1>2, <1>4, <3>1, <3>2 DEF LockInv
  <2>4. StageInv /\ Queued' = Queued => StageInv'
    BY <1>1, <2>1, LifecycleAssumption DEF LifecycleAssumption, StageInv, Lifecycles
  <2>5. PrefixInv'
    BY <1>1, <2>1 DEF PrefixInv
  <2>6. FlushHonest'
    BY <1>1, <2>1 DEF FlushHonest
  <2> QED
    BY <1>1, <2>2, <2>3, <2>4, <2>5, <2>6, ReadsOnly
<1> QED
  BY <1>3, <1>4 DEF Enter, Comes

LEMMA CloseQueueKeeps ==
  ASSUME IInv, NEW l \in Lifecycles, CloseQueue(l)
  PROVE  IInv'
<1> USE DEF IInv
<1>1. /\ pc[l] = "closing" /\ Comes(l, "entered") /\ closed' = TRUE
      /\ UNCHANGED <<state, sequence, count, lost, export>> /\ UNCHANGED <<aborted, holder, shut, prefix>>
  BY DEF CloseQueue, Comes
<1>2. pc'[l] = "entered" /\ \A m \in Lifecycles : m # l => pc'[m] = pc[m]
  BY <1>1 DEF Comes, LifecycleType
<1>3. LifecycleType' /\ LockInv'
  BY <1>1, <1>2 DEF LifecycleType, Comes, Stations, LockInv, Inside
<1>4. StageInv /\ Queued' = Queued => StageInv'
  BY <1>1, <1>2 DEF StageInv, Lifecycles
<1>5. PrefixInv' /\ FlushHonest'
  BY <1>1, <1>2 DEF PrefixInv, FlushHonest
<1> QED
  BY <1>1, <1>3, <1>4, <1>5, ReadsOnly

LEMMA TakePrefixKeeps ==
  ASSUME IInv, NEW l \in Lifecycles, TakePrefix(l)
  PROVE  IInv'
<1> USE DEF IInv
<1>1. /\ pc[l] = "entered" /\ Comes(l, "settling") /\ prefix' = [prefix EXCEPT ![l] = count["admitted"]]
      /\ UNCHANGED <<state, sequence, count, lost, export>> /\ UNCHANGED <<closed, aborted, holder, shut>>
  BY DEF TakePrefix, Comes, queue
<1>2. /\ pc'[l] = "settling" /\ \A m \in Lifecycles : m # l => pc'[m] = pc[m]
      /\ prefix'[l] = count["admitted"] /\ \A m \in Lifecycles : m # l => prefix'[m] = prefix[m]
  BY <1>1 DEF Comes, LifecycleType
<1>3. count["admitted"] \in Nat
  BY DEF CountType, Counters
<1>4. LifecycleType' /\ LockInv'
  BY <1>1, <1>2, <1>3 DEF LifecycleType, Comes, Stations, LockInv, Inside
<1>5. StageInv /\ Queued' = Queued => StageInv'
  BY <1>1, <1>2 DEF StageInv, Lifecycles
<1>6. PrefixInv' /\ FlushHonest'
  BY <1>1, <1>2, <1>3 DEF PrefixInv, FlushHonest
<1> QED
  BY <1>1, <1>4, <1>5, <1>6, ReadsOnly

\* The wait is over when nothing pending has a place up to the prefix.
LEMMA DrainedKeeps ==
  ASSUME IInv, NEW l \in Lifecycles, Drained(l)
  PROVE  IInv'
<1> USE DEF IInv
<1>1. /\ pc[l] = "settling" /\ ~Unsettled(l) /\ Comes(l, "drained")
      /\ UNCHANGED <<state, sequence, count, lost, export>> /\ UNCHANGED <<closed, aborted, holder, shut, prefix>>
  BY DEF Drained, Comes, queue
<1>2. pc'[l] = "drained" /\ \A m \in Lifecycles : m # l => pc'[m] = pc[m]
  BY <1>1 DEF Comes, LifecycleType
<1>3. LifecycleType' /\ LockInv'
  BY <1>1, <1>2 DEF LifecycleType, Comes, Stations, LockInv, Inside
<1>4. StageInv /\ Queued' = Queued => StageInv'
  BY <1>1, <1>2 DEF StageInv, Lifecycles
<1>5. PrefixInv'
  BY <1>1, <1>2 DEF PrefixInv
<1>6. ASSUME NEW r \in Records, sequence[r] \in 1 .. prefix[l]
      PROVE  state[r] \in {"complete", "retired"}
  <2>1. sequence[r] # 0 /\ sequence[r] <= prefix[l]
    BY <1>6 DEF LifecycleType
  <2>2. r \in Placed /\ r \notin Pending
    BY <1>1, <2>1 DEF OrderInv, Unsettled
  <2> QED
    BY <2>2 DEF Placed, Pending
<1>7. FlushHonest'
  BY <1>1, <1>2, <1>6 DEF FlushHonest
<1> QED
  BY <1>1, <1>3, <1>4, <1>5, <1>7, ReadsOnly

LEMMA TimesOutKeeps ==
  ASSUME IInv, NEW l \in Lifecycles, TimesOut(l)
  PROVE  IInv'
<1> USE DEF IInv
<1>1. /\ pc[l] = "settling" /\ Comes(l, IF l \in Closers THEN "aborting" ELSE "late")
      /\ UNCHANGED <<state, sequence, count, lost, export>> /\ UNCHANGED <<closed, aborted, holder, shut, prefix>>
  BY DEF TimesOut, Comes, queue
<1>2. /\ pc'[l] = IF l \in Closers THEN "aborting" ELSE "late"
      /\ \A m \in Lifecycles : m # l => pc'[m] = pc[m]
  BY <1>1 DEF Comes, LifecycleType
<1>3. LifecycleType' /\ LockInv'
  BY <1>1, <1>2 DEF LifecycleType, Comes, Stations, LockInv, Inside
<1>4. StageInv /\ Queued' = Queued => StageInv'
  BY <1>1, <1>2, LifecycleAssumption DEF LifecycleAssumption, StageInv, Lifecycles
<1>5. PrefixInv' /\ FlushHonest'
  BY <1>1, <1>2 DEF PrefixInv, FlushHonest
<1> QED
  BY <1>1, <1>3, <1>4, <1>5, ReadsOnly

\* After an abort nothing is queued, each queued record is counted and reported, and what
\* was taken for an export stays with it.
LEMMA Aborts ==
  ASSUME IInv, AbortQueued, UNCHANGED <<sequence, export>>
  PROVE  /\ RecordsInv' /\ aborted' = TRUE /\ Queued' = {} /\ count'["admitted"] = count["admitted"]
         /\ \A r \in Records : state[r] \in {"exporting", "complete", "retired"} => state'[r] = state[r]
<1> USE DEF IInv
<1>1. CASE aborted /\ UNCHANGED <<state, count, lost, aborted>>
  BY <1>1, RecordsStay DEF StageInv, LifecycleType
<1>2. CASE ~aborted /\ aborted' = TRUE /\ state' = [r \in Records |-> IF r \in Queued THEN "retired" ELSE state[r]]
           /\ Add({"retired"}, Cardinality(Queued)) /\ Lose(Cardinality(Queued), "shutdown")
  <2> DEFINE n == Cardinality(Queued)
  <2>1. n \in Nat
    BY RecordsFinite DEF Queued
  <2>2. Add({"retired"}, n) /\ Lose(n, "shutdown")
    BY <1>2
  <2> HIDE DEF n
  <2>3. /\ sequence' = sequence /\ deque' = deque /\ batch' = batch /\ exporter' = exporter /\ wire' = wire
        /\ sent' = sent /\ acked' = acked
    BY DEF export
  <2>4. count \in [Counters -> Nat] /\ lost \in [Reasons -> Nat]
    BY DEF CountType
  <2>5. CountedMore("retired", n)
    BY <2>1, <2>2, <2>4, AddsMore DEF Counters
  <2>6. count'["retired"] = count["retired"] + n /\ \A k \in Counters : k # "retired" => count'[k] = count[k]
    BY <2>4, <2>5 DEF CountedMore, Counters
  <2>7. /\ lost' \in [Reasons -> Nat] /\ lost'["shutdown"] = lost["shutdown"] + n
        /\ \A k \in Reasons : k # "shutdown" => lost'[k] = lost[k]
    BY <2>1, <2>2, <2>4 DEF Lose, Reasons
  <2>8. \A r \in Records : state'[r] = IF state[r] = "queued" THEN "retired" ELSE state[r]
    BY <1>2 DEF Queued
  <2>9. RecordType' /\ CountType'
    BY <1>2, <2>3, <2>5, <2>6, <2>7 DEF RecordType, CountType, CountedMore, Counters
  <2>10. Pending' = Pending \ Queued /\ Placed' = Placed /\ Queued \subseteq Pending /\ Queued' = {}
    BY <2>8 DEF Pending, Placed, Queued
  <2>11. CountInv'
    <3>1. Cardinality(Pending) = Cardinality(Pending') + n
      BY <2>10, SomeLess DEF n, Pending
    <3>2. Cardinality(Pending) \in Nat /\ Cardinality(Pending') \in Nat /\ Capacity \in Nat
      <4>1. Pending \subseteq Records /\ Pending' \subseteq Records
        BY <2>10 DEF Pending
      <4> QED
        BY <4>1, RecordsFinite, SizesAssumption DEF SizesAssumption
    <3>3. Cardinality(Pending)' = Cardinality(Pending') /\ Cardinality(Placed)' = Cardinality(Placed)
      BY <2>10
    <3> QED
      BY <2>1, <2>4, <2>6, <3>1, <3>2, <3>3 DEF CountInv, Counters
  <2>12. LossesReported'
    BY <2>1, <2>3, <2>4, <2>6, <2>7 DEF LossesReported, Counters, Reasons
  <2>13. OrderInv'
    BY <2>3, <2>6, <2>10 DEF OrderInv, Counters
  <2>14. DequeInv'
    <3>1. ToSet(deque) \subseteq Records
      BY LenProperties DEF ToSet, RecordType
    <3> QED
      BY <2>3, <2>8, <3>1 DEF DequeInv
  <2>15. BatchInv' /\ SentInv'
    BY <2>3, <2>8 DEF BatchInv, SentInv, RecordType
  <2> QED
    BY <1>2, <2>6, <2>8, <2>9, <2>10, <2>11, <2>12, <2>13, <2>14, <2>15 DEF RecordsInv, Counters
<1> QED
  BY <1>1, <1>2 DEF AbortQueued

\* A shutdown that waited long enough goes on as if the wait had succeeded: nothing is queued,
\* and what is left is in an attempt of an aborted queue.
LEMMA AbortKeeps ==
  ASSUME IInv, NEW l \in Lifecycles, Abort(l)
  PROVE  IInv'
<1> USE DEF IInv
<1>1. /\ pc[l] = "aborting" /\ AbortQueued /\ Comes(l, "drained")
      /\ UNCHANGED <<sequence, closed, export, holder, shut, prefix>>
  BY DEF Abort, Comes
<1>2. /\ RecordsInv' /\ aborted' = TRUE /\ Queued' = {} /\ count'["admitted"] = count["admitted"]
      /\ \A r \in Records : state[r] \in {"exporting", "complete", "retired"} => state'[r] = state[r]
  BY <1>1, Aborts
<1>3. pc'[l] = "drained" /\ \A m \in Lifecycles : m # l => pc'[m] = pc[m]
  BY <1>1 DEF Comes, LifecycleType
<1>4. LifecycleType' /\ LockInv'
  BY <1>1, <1>2, <1>3 DEF LifecycleType, Comes, Stations, LockInv, Inside
<1>5. l \in Closers /\ closed
  BY <1>1 DEF StageInv, Lifecycles
<1>6. StageInv'
  BY <1>1, <1>2, <1>3, <1>5, LifecycleAssumption DEF LifecycleAssumption, StageInv, Lifecycles
<1>7. PrefixInv'
  BY <1>1, <1>2, <1>3 DEF PrefixInv
<1>8. FlushHonest'
  <2>1. ASSUME NEW r \in Records, sequence'[r] # 0
        PROVE  state'[r] \in {"exporting", "complete", "retired"}
    <3>1. r \in Placed' /\ r \notin Queued'
      BY <1>2, <2>1 DEF RecordsInv, OrderInv
    <3> QED
      BY <3>1 DEF Placed, Queued
  <2>2. \A m \in Lifecycles, r \in Records : sequence'[r] \in 1 .. prefix'[m] => sequence'[r] # 0
    BY <1>4 DEF LifecycleType
  <2> QED
    BY <1>2, <2>1, <2>2 DEF FlushHonest
<1> QED
  BY <1>2, <1>4, <1>6, <1>7, <1>8 DEF RecordsInv

LEMMA LeaveKeeps ==
  ASSUME IInv, NEW l \in Lifecycles, Leave(l)
  PROVE  IInv'
<1> USE DEF IInv
<1>1. /\ pc[l] \in {"drained", "late"} /\ Comes(l, IF pc[l] = "late" THEN "late_done" ELSE "done")
      /\ holder' = Nobody /\ UNCHANGED <<sequence, closed, export, shut, prefix>>
  BY DEF Leave, Comes
<1>2. /\ pc'[l] = IF pc[l] = "late" THEN "late_done" ELSE "done"
      /\ \A m \in Lifecycles : m # l => pc'[m] = pc[m]
  BY <1>1 DEF Comes, LifecycleType
<1>3. holder = l /\ Nobody \notin Lifecycles /\ \A m \in Lifecycles : m # l => pc[m] \notin Inside
  BY <1>1, LifecycleAssumption DEF LifecycleAssumption, Lifecycles, LockInv, Inside
<1>4. CASE l \in Closers /\ AbortQueued
  <2>1. /\ RecordsInv' /\ aborted' = TRUE /\ Queued' = {} /\ count'["admitted"] = count["admitted"]
        /\ \A r \in Records : state[r] \in {"exporting", "complete", "retired"} => state'[r] = state[r]
    BY <1>1, <1>4, Aborts
  <2>2. pc[l] = "drained" /\ closed
    BY <1>1, <1>4 DEF StageInv
  <2>3. LifecycleType'
    BY <1>1, <2>1 DEF LifecycleType, Comes, Stations
  <2>4. LockInv'
    BY <1>1, <1>2, <1>3, <2>1, LifecycleAssumption DEF LifecycleAssumption, LockInv, Inside, Lifecycles
  <2>5. StageInv'
    BY <1>1, <1>2, <1>4, <2>1, <2>2, LifecycleAssumption DEF LifecycleAssumption, StageInv, Lifecycles
  <2>6. PrefixInv'
    BY <1>1, <1>2, <2>1 DEF PrefixInv
  <2>7. FlushHonest'
    <3> SUFFICES ASSUME NEW m \in Lifecycles, pc'[m] = "drained" \/ (pc'[m] = "done" /\ m \in Flushers),
                        NEW r \in Records, sequence[r] \in 1 .. prefix[m]
                 PROVE  state'[r] \in {"complete", "retired"} \/ (aborted' /\ state'[r] = "exporting")
      BY <1>1 DEF FlushHonest
    <3>1. m # l
      BY <1>2, <1>4, <2>2, LifecycleAssumption DEF LifecycleAssumption
    <3>2. state[r] \in {"complete", "retired"} \/ (aborted /\ state[r] = "exporting")
      BY <1>2, <3>1 DEF FlushHonest
    <3> QED
      BY <2>1, <3>2
  <2> QED
    BY <2>1, <2>3, <2>4, <2>5, <2>6, <2>7 DEF RecordsInv
<1>5. CASE l \notin Closers /\ UNCHANGED <<state, count, lost, aborted>>
  <2>1. UNCHANGED <<state, sequence, count, lost, export>> /\ l \in Flushers
    BY <1>1, <1>5 DEF Lifecycles
  <2>2. LifecycleType'
    BY <1>1, <1>5 DEF LifecycleType, Comes, Stations
  <2>3. LockInv'
    BY <1>1, <1>2, <1>3, <2>1 DEF LockInv, Inside, Lifecycles
  <2>4. StageInv /\ Queued' = Queued => StageInv'
    BY <1>1, <1>2, <1>5 DEF StageInv, Lifecycles
  <2>5. PrefixInv' /\ FlushHonest'
    BY <1>1, <1>2, <1>5 DEF PrefixInv, FlushHonest
  <2> QED
    BY <2>1, <2>2, <2>3, <2>4, <2>5, ReadsOnly
<1> QED
  BY <1>4, <1>5 DEF Leave

LEMMA StepOfExport == IInv /\ [Next]_vars => IInv'
<1> SUFFICES ASSUME IInv, [Next]_vars PROVE IInv'
  OBVIOUS
<1>1. CASE Next
  BY <1>1, HandoffKeeps, RejectLateKeeps, TakeBatchKeeps, BeginExportKeeps, SendKeeps, AttemptKeeps, BeginKeeps,
     EnterKeeps, CloseQueueKeeps, TakePrefixKeeps, DrainedKeeps, TimesOutKeeps, AbortKeeps, LeaveKeeps
     DEF Next, Export, Advance
<1>2. CASE UNCHANGED vars
  <2> USE DEF IInv
  <2>1. /\ UNCHANGED <<state, sequence, count, lost, export>>
        /\ UNCHANGED <<closed, aborted, pc, holder, shut, prefix>>
    BY <1>2 DEF vars, queue, lifecycle
  <2>2. LifecycleType' /\ LockInv' /\ PrefixInv' /\ FlushHonest' /\ (StageInv /\ Queued' = Queued => StageInv')
    BY <2>1 DEF LifecycleType, LockInv, PrefixInv, FlushHonest, StageInv
  <2> QED
    BY <2>1, <2>2, ReadsOnly
<1> QED
  BY <1>1, <1>2

LEMMA InvOfExport == Spec => []IInv
BY StartOfExport, StepOfExport, PTL DEF Spec

-----------------------------------------------------------------------------
(* What the invariant says *)

\* Every record offered is counted under one heading, every record admitted is settled once
\* or outstanding, and queued and exporting records together never exceed the capacity,
\* however flush, shutdown and the exporter interleave (ExportQueue.snapshot).
THEOREM CountedSafe == Spec => []EveryRecordCounted
<1>1. IInv => EveryRecordCounted
  <2> SUFFICES ASSUME IInv PROVE EveryRecordCounted
    OBVIOUS
  <2> USE DEF IInv
  <2>1. /\ Cardinality(Pending) \in Nat /\ Cardinality(Placed) \in Nat /\ Cardinality(acked) \in Nat
        /\ Cardinality(Records) \in Nat /\ MaxOffers \in Nat /\ Cardinality(Placed) <= Cardinality(Records)
    BY RecordsFinite, FS_Subset, SizesAssumption DEF Pending, Placed, SizesAssumption, RecordType
  <2>2. count \in [Counters -> Nat] /\ lost \in [Reasons -> Nat]
    BY DEF CountType
  <2>3. count["admitted"] <= Cardinality(Records)
    BY <2>1 DEF CountInv
  <2>4. \A k \in Counters : count[k] <= MaxOffers
    BY <2>1, <2>2 DEF CountInv, CountType, Counters
  <2>5. \A k \in Reasons : lost[k] <= MaxOffers
    BY <2>1, <2>2, <2>4 DEF CountInv, CountType, LossesReported, Counters, Reasons
  <2>6. count \in [Counters -> 0 .. MaxOffers] /\ lost \in [Reasons -> 0 .. MaxOffers]
    BY <2>1, <2>2, <2>4, <2>5
  <2>7. \A r \in Records : sequence[r] \in 0 .. Cardinality(Records)
    <3> TAKE r \in Records
    <3>1. sequence[r] \in Nat /\ sequence[r] <= count["admitted"] /\ count["admitted"] \in Nat
      BY <2>2 DEF OrderInv, RecordType, Counters
    <3> QED
      BY <2>1, <2>3, <3>1
  <2>8. \A l \in Lifecycles : prefix[l] \in 0 .. Cardinality(Records)
    <3> TAKE l \in Lifecycles
    <3>1. prefix[l] \in Nat /\ prefix[l] <= count["admitted"] /\ count["admitted"] \in Nat
      BY <2>2 DEF PrefixInv, LifecycleType, Counters
    <3> QED
      BY <2>1, <2>3, <3>1
  <2>9. sequence \in [Records -> 0 .. Cardinality(Records)] /\ prefix \in [Lifecycles -> 0 .. Cardinality(Records)]
    BY <2>7, <2>8 DEF RecordType, LifecycleType
  <2>10. ToSet(deque) \subseteq Records /\ IsInjective(deque)
    BY LenProperties DEF ToSet, RecordType, DequeInv
  <2>11. TypeOK
    BY <2>6, <2>9, <2>10 DEF TypeOK, RecordType, LifecycleType, DequeInv, Stations
  <2> QED
    BY <2>11 DEF EveryRecordCounted, CountInv
<1> QED
  BY <1>1, InvOfExport, PTL

\* Losses are reported for exactly the records that were not acknowledged, each once, also
\* when an abort meets an export (_report_loss).
THEOREM LossesSafe == Spec => []LossesReported
<1>1. IInv => LossesReported
  BY DEF IInv
<1> QED
  BY <1>1, InvOfExport, PTL

\* No record is sent twice, and none that is queued, refused or retired was sent: an abort
\* and the start of an export exclude each other (begin_export, abort_queued).
THEOREM RetiredSafe == Spec => []RetiredNeverSent
<1>1. IInv => RetiredNeverSent
  <2> SUFFICES ASSUME IInv, NEW r \in Records
               PROVE  sent[r] <= 1 /\ (state[r] \in {"queued", "retired", "refused"} => sent[r] = 0)
    BY DEF RetiredNeverSent
  <2>1. sent[r] \in 0 .. 1
    BY DEF IInv, RecordType
  <2>2. sent[r] # 0 => state[r] \in {"exporting", "complete"}
    BY DEF IInv, SentInv
  <2> QED
    BY <2>1, <2>2
<1> QED
  BY <1>1, InvOfExport, PTL

\* A wait that succeeded has every record admitted before it settled, or left in an
\* attempt by an abort, whatever is handed over and exported afterwards (wait_prefix).
THEOREM FlushSafe == Spec => []FlushHonest
<1>1. IInv => FlushHonest
  BY DEF IInv
<1> QED
  BY <1>1, InvOfExport, PTL

\* After a shutdown returned the queue is closed and nothing is queued, also when it found
\* the telemetry shut by another (_settle_lifecycle).
THEOREM ShutdownSafe == Spec => []ShutdownSettles
<1>1. IInv => ShutdownSettles
  BY DEF IInv, ShutdownSettles, StageInv
<1> QED
  BY <1>1, InvOfExport, PTL
=============================================================================
