------------------------- MODULE BusinessIdProofs -------------------------
(***************************************************************************)
(* BusinessId's safety properties for every number of calls and slots,     *)
(* every size of words and domain, every keyed digest.                     *)
(*                                                                         *)
(* The argument: a number of a day is given once, for it is one above the  *)
(* level.  The permutation is one-to-one, since a round can be undone      *)
(* whatever its digest is.  Candidates of two walks that met would have    *)
(* come from one candidate, and so on back to the two numbers; for a       *)
(* number is in the domain and what a walk goes through on its way is not. *)
(***************************************************************************)
EXTENDS BusinessId, FiniteSetTheorems, TLAPS

Pairs == HalfWords \X HalfWords
Tweaks == Days \X Keys

-----------------------------------------------------------------------------
(* The permutation is one-to-one *)

LEMMA JoinType == \A l, r \in HalfWords : l * Half + r \in Words
<1> SUFFICES ASSUME NEW l \in HalfWords, NEW r \in HalfWords PROVE l * Half + r \in Words
  OBVIOUS
<1>1. l * Half <= (Half - 1) * Half
  BY WordAssumption DEF HalfWords
<1>2. (Half - 1) * Half = Half * Half - Half
  BY WordAssumption
<1>3. l * Half \in Nat /\ Half * Half \in Nat
  BY WordAssumption DEF HalfWords
<1> QED
  BY <1>1, <1>2, <1>3, WordAssumption DEF HalfWords, Words

LEMMA JoinUnique ==
  ASSUME NEW k \in HalfWords, NEW l \in HalfWords, NEW r \in HalfWords, NEW s \in HalfWords,
         k * Half + r = l * Half + s
  PROVE  k = l /\ r = s
<1>1. ASSUME NEW a \in HalfWords, NEW b \in HalfWords, a < b PROVE a * Half + Half <= b * Half
  <2>1. (a + 1) * Half <= b * Half
    BY <1>1, WordAssumption DEF HalfWords
  <2>2. (a + 1) * Half = a * Half + Half
    BY WordAssumption DEF HalfWords
  <2> QED
    BY <2>1, <2>2
<1>2. k * Half \in Nat /\ l * Half \in Nat
  BY WordAssumption DEF HalfWords
<1>3. ~(k < l) /\ ~(l < k)
  BY <1>1, <1>2, WordAssumption DEF HalfWords
<1> QED
  BY <1>2, <1>3, WordAssumption DEF HalfWords

LEMMA SplitType == \A v \in Words : v \div Half \in HalfWords /\ v % Half \in HalfWords
  BY WordAssumption DEF Words, HalfWords

LEMMA SplitUnique ==
  ASSUME NEW u \in Words, NEW v \in Words, u \div Half = v \div Half, u % Half = v % Half
  PROVE  u = v
  BY WordAssumption DEF Words, HalfWords

LEMMA DigestType == \A t \in Tweaks, i \in 0 .. 7, r \in HalfWords : Digest(t, i, r) \in HalfWords
<1> SUFFICES ASSUME NEW d \in Days, NEW k \in Keys, NEW i \in 0 .. 7, NEW r \in HalfWords
             PROVE  Digest(<<d, k>>, i, r) \in HalfWords
  BY DEF Tweaks
<1> QED
  BY DigestAssumption

LEMMA RoundType ==
  ASSUME NEW t \in Tweaks, NEW i \in 0 .. 7, NEW w \in Pairs
  PROVE  Round(t, i, w) \in Pairs
<1>1. w[1] \in HalfWords /\ w[2] \in HalfWords
  BY DEF Pairs
<1>2. Digest(t, i, w[2]) \in HalfWords
  BY <1>1, DigestType
<1> QED
  BY <1>1, <1>2, MixAssumption DEF Round, Pairs

LEMMA RoundUnique ==
  ASSUME NEW t \in Tweaks, NEW i \in 0 .. 7, NEW u \in Pairs, NEW w \in Pairs,
         Round(t, i, u) = Round(t, i, w)
  PROVE  u = w
<1> DEFINE k == Digest(t, i, u[2])
<1>1. u[1] \in HalfWords /\ w[1] \in HalfWords /\ u[2] \in HalfWords /\ k \in HalfWords
  BY DigestType DEF Pairs
<1>2. u[2] = w[2] /\ Mix(u[1], k) = Mix(w[1], Digest(t, i, w[2]))
  BY DEF Round
<1>3. Mix(u[1], k) = Mix(w[1], k)
  BY <1>2
<1>4. u[1] = w[1]
  BY <1>1, <1>3, MixAssumption
<1> QED
  BY <1>2, <1>4 DEF Pairs

Two(t, i, j, w) == Round(t, j, Round(t, i, w))
Four(t, i, j, k, l, w) == Two(t, k, l, Two(t, i, j, w))

LEMMA TwoRounds ==
  ASSUME NEW t \in Tweaks, NEW i \in 0 .. 7, NEW j \in 0 .. 7
  PROVE  /\ \A w \in Pairs : Two(t, i, j, w) \in Pairs
         /\ \A u, w \in Pairs : Two(t, i, j, u) = Two(t, i, j, w) => u = w
<1>1. ASSUME NEW w \in Pairs PROVE Two(t, i, j, w) \in Pairs
  BY RoundType DEF Two
<1>2. ASSUME NEW u \in Pairs, NEW w \in Pairs, Two(t, i, j, u) = Two(t, i, j, w) PROVE u = w
  <2>1. Round(t, i, u) \in Pairs /\ Round(t, i, w) \in Pairs
    BY RoundType
  <2>2. Round(t, i, u) = Round(t, i, w)
    BY <1>2, <2>1, RoundUnique DEF Two
  <2> QED
    BY <2>2, RoundUnique
<1> QED
  BY <1>1, <1>2

LEMMA FourRounds ==
  ASSUME NEW t \in Tweaks, NEW i \in 0 .. 7, NEW j \in 0 .. 7, NEW k \in 0 .. 7, NEW l \in 0 .. 7
  PROVE  /\ \A w \in Pairs : Four(t, i, j, k, l, w) \in Pairs
         /\ \A u, w \in Pairs : Four(t, i, j, k, l, u) = Four(t, i, j, k, l, w) => u = w
<1>1. ASSUME NEW w \in Pairs PROVE Four(t, i, j, k, l, w) \in Pairs
  BY TwoRounds DEF Four
<1>2. ASSUME NEW u \in Pairs, NEW w \in Pairs, Four(t, i, j, k, l, u) = Four(t, i, j, k, l, w) PROVE u = w
  <2>1. Two(t, i, j, u) \in Pairs /\ Two(t, i, j, w) \in Pairs
    BY TwoRounds
  <2>2. Two(t, i, j, u) = Two(t, i, j, w)
    BY <1>2, <2>1, TwoRounds DEF Four
  <2> QED
    BY <2>2, TwoRounds
<1> QED
  BY <1>1, <1>2

First(t, w) == Four(t, 0, 1, 2, 3, w)
Last(t, w) == Four(t, 4, 5, 6, 7, w)

LEMMA FirstRounds ==
  ASSUME NEW t \in Tweaks
  PROVE  /\ \A w \in Pairs : First(t, w) \in Pairs
         /\ \A u, w \in Pairs : First(t, u) = First(t, w) => u = w
<1>1. 0 \in 0 .. 7 /\ 1 \in 0 .. 7 /\ 2 \in 0 .. 7 /\ 3 \in 0 .. 7
  OBVIOUS
<1> QED
  BY ONLY <1>1, t \in Tweaks, FourRounds, Zenon DEF First

LEMMA LastRounds ==
  ASSUME NEW t \in Tweaks
  PROVE  /\ \A w \in Pairs : Last(t, w) \in Pairs
         /\ \A u, w \in Pairs : Last(t, u) = Last(t, w) => u = w
<1>1. 4 \in 0 .. 7 /\ 5 \in 0 .. 7 /\ 6 \in 0 .. 7 /\ 7 \in 0 .. 7
  OBVIOUS
<1> QED
  BY ONLY <1>1, t \in Tweaks, FourRounds, Zenon DEF Last

LEMMA EightRounds ==
  ASSUME NEW t \in Tweaks, NEW v \in Words
  PROVE  /\ Split(v) \in Pairs
         /\ First(t, Split(v)) \in Pairs
         /\ Last(t, First(t, Split(v))) \in Pairs
         /\ Permute(t, v) = Join(Last(t, First(t, Split(v))))
<1>1. Split(v) \in Pairs
  BY SplitType DEF Split, Pairs
<1>2. First(t, Split(v)) \in Pairs
  BY <1>1, FirstRounds
<1>3. Last(t, First(t, Split(v))) \in Pairs
  BY <1>2, LastRounds
<1> QED
  BY <1>1, <1>2, <1>3 DEF Permute, First, Last, Four, Two

\* One application of the permutation stays within the words of 32 bits.
LEMMA PermuteType == \A t \in Tweaks, v \in Words : Permute(t, v) \in Words
<1> SUFFICES ASSUME NEW t \in Tweaks, NEW v \in Words PROVE Permute(t, v) \in Words
  OBVIOUS
<1> DEFINE w == Last(t, First(t, Split(v)))
<1>1. w \in Pairs /\ Permute(t, v) = Join(w)
  BY EightRounds
<1>2. w[1] \in HalfWords /\ w[2] \in HalfWords
  BY <1>1 DEF Pairs
<1> QED
  BY <1>1, <1>2, JoinType DEF Join

\* _permute32 maps different words to different words, whatever the digest is.
THEOREM PermuteUnique ==
  ASSUME NEW t \in Tweaks, NEW u \in Words, NEW v \in Words, Permute(t, u) = Permute(t, v)
  PROVE  u = v
<1> DEFINE a == Last(t, First(t, Split(u)))
           b == Last(t, First(t, Split(v)))
<1>1. a \in Pairs /\ b \in Pairs /\ Join(a) = Join(b)
  BY EightRounds
<1>2. a[1] \in HalfWords /\ a[2] \in HalfWords /\ b[1] \in HalfWords /\ b[2] \in HalfWords
  BY <1>1 DEF Pairs
<1>3. a[1] = b[1] /\ a[2] = b[2]
  BY <1>1, <1>2, JoinUnique DEF Join
<1>4. a = b
  BY <1>1, <1>3 DEF Pairs
<1>5. Split(u) \in Pairs /\ Split(v) \in Pairs /\ First(t, Split(u)) \in Pairs /\ First(t, Split(v)) \in Pairs
  BY EightRounds
<1>6. First(t, Split(u)) = First(t, Split(v))
  BY <1>4, <1>5, LastRounds
<1>7. Split(u) = Split(v)
  BY <1>5, <1>6, FirstRounds
<1> QED
  BY <1>7, SplitUnique DEF Split

-----------------------------------------------------------------------------
(* The inductive invariant *)

\* A call that has no number yet has made nothing of it.
StartInv ==
  \A c \in Calls :
    /\ pc[c] \in {"idle", "count"} \cup Statements => seq[c] = Absent
    /\ seq[c] = Absent => trail[c] = {}
    /\ pc[c] # "idle" => on[c] \in Slots

\* A number is left for a call that is about to update the row.
SeenInv == \A c \in Calls : pc[c] = "update" => seen[c] \in 0 .. Maximum - 1

\* Numbers are at or below the level of their day, and each is given once.
SeqInv ==
  Durable => \A c \in Calls : seq[c] # Absent =>
    /\ seq[c] <= level[day[c]]
    /\ \A d \in Calls \ {c} : seq[d] # Absent /\ day[d] = day[c] => seq[d] # seq[c]

\* Every number up to the level was given to a call or went to nobody.
Given(n) == {c \in Calls : seq[c] # Absent /\ day[c] = n}
CountInv ==
  Durable =>
    /\ \A n \in Days : used[n] + Cardinality(Given(n)) = level[n] + 1
    /\ \A c \in Calls : pc[c] = "exhausted" => level[day[c]] = Maximum

\* What a walk permuted: its number, then candidates beyond the domain.
Source(c) == {seq[c]} \cup {v \in trail[c] : v >= Domain}
From(c, u, v) == u \in Source(c) /\ Permute(Tweak(c), u) = v

\* A walk holds what it will permute next, and has not permuted it yet.
WalkInv ==
  \A c \in Calls : pc[c] = "walk" =>
    /\ seq[c] # Absent /\ enc[c] \in Keys /\ cand[c] \in Source(c)
    /\ \A v \in trail[c] : \E u \in Source(c) \ {cand[c]} : From(c, u, v)

\* What the permutation gave came from what was permuted.
TrailInv ==
  \A c \in Calls : \A v \in trail[c] : enc[c] \in Keys /\ \E u \in Source(c) : From(c, u, v)

\* Walks from different numbers under one tweak never meet.
ApartInv ==
  \A c, d \in Calls :
    seq[c] # seq[d] /\ seq[c] # Absent /\ seq[d] # Absent /\ Tweak(c) = Tweak(d)
      => trail[c] \cap trail[d] = {}

\* A call that made a value returned the last candidate of its walk.
ResultInv == \A c \in Calls : Made(c) => cand[c] \in trail[c] /\ result[c] = <<day[c], cand[c]>>

\* On a slot without a crowd a running call is alone and the slot is empty, and a
\* call that ended left the value it returned.
SlotInv ==
  \A c \in Calls : on[c] \notin crowded =>
    /\ Running(c) => slot[on[c]] = Blank /\ \A d \in Calls \ {c} : Running(d) => on[d] # on[c]
    /\ pc[c] = "done" => slot[on[c]] = result[c] /\ result[c] \in Values

IInv ==
  /\ TypeOK /\ StartInv /\ SeenInv /\ SeqInv /\ CountInv
  /\ WalkInv /\ TrailInv /\ ApartInv /\ ResultInv /\ SlotInv

-----------------------------------------------------------------------------
(* Types *)

LEMMA Bounds ==
  /\ Maximum \in Nat /\ Domain = Maximum + 1 /\ 0 .. Maximum \subseteq Words
  /\ Absent \notin 0 .. Maximum /\ Absent .. Maximum = {Absent} \cup 0 .. Maximum
<1>1. Half * Half \in Nat
  BY WordAssumption
<1> QED
  BY <1>1, WordAssumption DEF Maximum, Words, Absent

LEMMA InitType == Init => TypeOK
<1> SUFFICES ASSUME Init PROVE TypeOK
  OBVIOUS
<1>1. level \in [Days -> Absent .. Maximum]
  BY BoundsAssumption DEF Init
<1>2. used \in [Days -> Nat]
  BY <1>1, Bounds DEF Init, Absent
<1>3. slot \in [Slots -> Values \cup {Blank, Malformed}]
  BY DEF Init
<1>4. 1 \in Days
  BY BoundsAssumption DEF Days
<1>5. 0 \in Words
  BY Bounds
<1> QED
  BY <1>1, <1>2, <1>3, <1>4, <1>5, BoundsAssumption, Bounds DEF Init, TypeOK, Absent, Ended, Statements

\* A step of c's walk, to the candidate v.
WalkTo(c, v) ==
  /\ pc[c] = "walk" /\ v = Permute(Tweak(c), cand[c])
  /\ cand' = [cand EXCEPT ![c] = v]
  /\ trail' = [trail EXCEPT ![c] = @ \cup {v}]
  /\ v < Domain => /\ Go(c, "done")
                   /\ result' = [result EXCEPT ![c] = <<day[c], v>>]
                   /\ slot' = [slot EXCEPT ![on[c]] = <<day[c], v>>]
  /\ ~(v < Domain) => UNCHANGED <<pc, result, slot>>
  /\ UNCHANGED <<shared, crashes, crowded, plan, loop, seq, enc>>

LEMMA NextType == TypeOK /\ SeenInv /\ WalkInv /\ [Next]_vars => TypeOK'
<1> SUFFICES ASSUME TypeOK, SeenInv, WalkInv, [Next]_vars PROVE TypeOK'
  OBVIOUS
<1> USE Bounds DEF TypeOK, Ended, Statements
<1>1. ASSUME NEW c \in Calls, NEW s \in Slots, Ensure(c, s) PROVE TypeOK'
  BY <1>1, BoundsAssumption DEF Ensure, Plan, Go, shared, code
<1>2. ASSUME NEW c \in Calls, Count(c) PROVE TypeOK'
  <2>1. level[day[c]] \in Absent .. Maximum /\ level[day[c]] + 1 \in 0 .. Maximum + 1
    BY DEF Absent
  <2>2. level[day[c]] + 1 <= Maximum => level[day[c]] + 1 \in 0 .. Maximum
    BY <2>1
  <2> QED
    BY <1>2, <2>1, <2>2 DEF Count, Allocated, Go, Rest, loop, code, aggregate, plan
<1>3. ASSUME NEW c \in Calls, Read(c) PROVE TypeOK'
  BY <1>3 DEF Read, AfterRead, Go, Rest, code, aggregate, plan
<1>4. ASSUME NEW c \in Calls, Insert(c) PROVE TypeOK'
  <2>1. used[day[c]] + 1 \in Nat /\ 0 \in 0 .. Maximum
    OBVIOUS
  <2> QED
    BY <1>4, <2>1 DEF Insert, Took, Lost, Allocated, Go, Rest, loop, code, aggregate, plan
<1>5. ASSUME NEW c \in Calls, Recheck(c) PROVE TypeOK'
  BY <1>5, BoundsAssumption DEF Recheck, Retry, Go, Rest, code, aggregate, plan
<1>6. ASSUME NEW c \in Calls, Update(c) PROVE TypeOK'
  <2>1. seen[c] + 1 \in 0 .. Maximum /\ used[day[c]] + 1 \in Nat
    BY <1>6 DEF Update, SeenInv
  <2> QED
    BY <1>6, <2>1, BoundsAssumption DEF Update, Took, Lost, Allocated, Retry, Go, Rest, code, aggregate, plan
<1>7. ASSUME NEW c \in Calls, Raise(c) \/ Cancel(c) PROVE TypeOK'
  BY <1>7 DEF Raise, Cancel, Go, Rest, loop, code, aggregate, plan
<1>8. ASSUME NEW c \in Calls, Walk(c) PROVE TypeOK'
  <2>1. Tweak(c) \in Tweaks
    BY <1>8 DEF Walk, WalkInv, Tweak, Tweaks
  <2>2. PICK v \in Words : WalkTo(c, v)
    BY <1>8, <2>1, PermuteType DEF Walk, WalkTo
  <2>3. v < Domain => <<day[c], v>> \in Values
    BY <2>2 DEF Words, Values
  <2>4. UNCHANGED <<shared, crashes, crowded, plan, loop, seq, enc>>
    BY <2>2 DEF WalkTo
  <2>5. cand' \in [Calls -> Words] /\ trail' \in [Calls -> SUBSET Words]
    BY <2>2 DEF WalkTo
  <2>6. pc' \in [Calls -> {"idle", "count", "walk"} \cup Statements \cup Ended]
    BY <2>2 DEF WalkTo, Go
  <2>7. slot' \in [Slots -> Values \cup {Blank, Malformed}] /\ result' \in [Calls -> Values \cup {Blank}]
    <3>1. CASE v < Domain
      <4> DEFINE x == <<day[c], v>>
      <4>1. x \in Values /\ result' = [result EXCEPT ![c] = x] /\ slot' = [slot EXCEPT ![on[c]] = x]
        BY <2>2, <2>3, <3>1 DEF WalkTo
      <4> HIDE DEF x
      <4> QED
        BY <4>1
    <3>2. CASE ~(v < Domain)
      BY <2>2, <3>2 DEF WalkTo
    <3> QED
      BY <3>1, <3>2
  <2> QED
    BY <2>4, <2>5, <2>6, <2>7 DEF shared, loop, plan
<1>9. CASE Crash
  BY <1>9, BoundsAssumption DEF Crash, Running, plan, loop, code
<1>10. CASE UNCHANGED vars
  BY <1>10 DEF vars, shared, aggregate, plan, loop, code
<1> QED
  BY <1>1, <1>2, <1>3, <1>4, <1>5, <1>6, <1>7, <1>8, <1>9, <1>10 DEF Next, Step

-----------------------------------------------------------------------------
(* Three kinds of steps: a number is given to a call, a walk goes on, or neither *)

Gives(c, n) ==
  /\ pc[c] \in {"count", "insert", "update"}
  /\ n = level[day[c]] + 1
  /\ level' = [level EXCEPT ![day[c]] = n]
  /\ seq' = [seq EXCEPT ![c] = n] /\ cand' = [cand EXCEPT ![c] = n]
  /\ \E k \in Keys \cup {NoKey} :
       /\ enc' = [enc EXCEPT ![c] = k]
       /\ pc' = [pc EXCEPT ![c] = IF k = NoKey THEN "failed" ELSE "walk"]
  /\ UNCHANGED <<store, used, crashes, aggregate, plan, result, trail>>

\* A number of a day goes to nobody, or none does.
Wastes ==
  \/ UNCHANGED <<level, used>>
  \/ \E n \in Days : /\ level' = [level EXCEPT ![n] = @ + 1]
                     /\ used' = [used EXCEPT ![n] = @ + 1]

Quiet ==
  /\ UNCHANGED code
  /\ Durable' => Durable /\ Wastes
  /\ \A c \in Calls :
       /\ seq[c] # Absent => day'[c] = day[c] /\ result'[c] = result[c] /\ pc'[c] \in {pc[c], "dead"}
       /\ pc'[c] = "walk" => pc[c] = "walk"
       /\ pc'[c] \in {"idle", "count"} \cup Statements => pc[c] \in {"idle", "count"} \cup Statements
       /\ pc'[c] = "exhausted" =>
            \/ pc[c] = "exhausted" /\ day'[c] = day[c]
            \/ level' = level /\ level[day'[c]] = Maximum

LEMMA StepKinds ==
  TypeOK /\ StartInv /\ SeenInv /\ WalkInv /\ [Next]_vars =>
    \/ Quiet
    \/ \E c \in Calls, n \in 0 .. Maximum : Gives(c, n)
    \/ \E c \in Calls, v \in Words : WalkTo(c, v)
<1> SUFFICES ASSUME TypeOK, StartInv, SeenInv, WalkInv, [Next]_vars, ~Quiet
             PROVE  \/ \E c \in Calls, n \in 0 .. Maximum : Gives(c, n)
                    \/ \E c \in Calls, v \in Words : WalkTo(c, v)
  OBVIOUS
<1> USE Bounds DEF TypeOK, Ended, Statements
<1>1. ASSUME NEW c \in Calls, NEW s \in Slots, Ensure(c, s) PROVE Quiet
  BY <1>1 DEF Ensure, Plan, Go, shared, code, Quiet, StartInv, Durable, Wastes
<1>2. ASSUME NEW c \in Calls, Count(c) PROVE Quiet \/ \E n \in 0 .. Maximum : Gives(c, n)
  <2>1. level[day[c]] \in Absent .. Maximum /\ level[day[c]] + 1 \in 0 .. Maximum + 1
    BY DEF Absent
  <2>2. CASE level[day[c]] + 1 > Maximum
    <3>1. level[day[c]] = Maximum
      BY <2>1, <2>2
    <3> QED
      BY <1>2, <2>2, <3>1 DEF Count, Go, Rest, code, aggregate, plan, loop, Quiet, StartInv, Durable, Wastes
  <2>3. CASE ~(level[day[c]] + 1 > Maximum)
    BY <1>2, <2>1, <2>3 DEF Count, Allocated, Go, Rest, aggregate, plan, loop, Gives
  <2> QED
    BY <2>2, <2>3
<1>3. ASSUME NEW c \in Calls, Read(c) PROVE Quiet
  <2>1. AfterRead(level[day[c]]) = "exhausted" => level[day[c]] = Maximum
    BY DEF AfterRead, Absent
  <2>2. AfterRead(level[day[c]]) \in {"insert", "exhausted", "update"}
    BY DEF AfterRead
  <2> QED
    BY <1>3, <2>1, <2>2 DEF Read, Go, Rest, code, aggregate, plan, Quiet, StartInv, Durable, Wastes
<1>4. ASSUME NEW c \in Calls, Insert(c) PROVE Quiet \/ \E n \in 0 .. Maximum : Gives(c, n)
  <2>1. CASE level[day[c]] = Absent /\ Took(c, 0) /\ Allocated(c, 0) /\ UNCHANGED used
    <3>1. 0 \in 0 .. Maximum /\ 0 = level[day[c]] + 1
      BY <2>1 DEF Absent
    <3> QED
      BY <1>4, <2>1, <3>1 DEF Insert, Took, Allocated, Go, Rest, aggregate, plan, Gives
  <2>2. CASE level[day[c]] # Absent /\ Go(c, "recheck") /\ UNCHANGED <<level, used, code>>
    BY <1>4, <2>2 DEF Insert, Go, Rest, aggregate, plan, loop, code, Quiet, StartInv, Durable, Wastes
  <2>3. CASE level[day[c]] = Absent /\ Took(c, 0) /\ Lost(c) /\ Go(c, "recheck") /\ UNCHANGED code
    <3>1. 0 = level[day[c]] + 1
      BY <2>3 DEF Absent
    <3>2. Wastes
      BY <2>3, <3>1 DEF Took, Lost, Wastes
    <3> QED
      BY <1>4, <2>3, <3>2 DEF Insert, Go, Rest, aggregate, plan, loop, code, Quiet, StartInv, Durable
  <2> QED
    BY <1>4, <2>1, <2>2, <2>3 DEF Insert
<1>5. ASSUME NEW c \in Calls, Recheck(c) PROVE Quiet
  BY <1>5 DEF Recheck, Retry, Go, Rest, code, aggregate, plan, Quiet, StartInv, Durable, Wastes
<1>6. ASSUME NEW c \in Calls, Update(c) PROVE Quiet \/ \E n \in 0 .. Maximum : Gives(c, n)
  <2>1. CASE level[day[c]] = seen[c] /\ Took(c, seen[c] + 1) /\ Allocated(c, seen[c] + 1) /\ UNCHANGED <<used, attempt>>
    <3>1. Gives(c, seen[c] + 1)
      BY <1>6, <2>1 DEF Update, Took, Allocated, Go, Rest, aggregate, plan, Gives
    <3>2. seen[c] + 1 \in 0 .. Maximum
      BY <1>6 DEF Update, SeenInv
    <3> QED
      BY <3>1, <3>2
  <2>2. CASE level[day[c]] # seen[c] /\ Retry(c) /\ UNCHANGED <<level, used, code>>
    BY <1>6, <2>2 DEF Update, Retry, Go, Rest, code, aggregate, plan, Quiet, StartInv, Durable, Wastes
  <2>3. CASE /\ level[day[c]] = seen[c] /\ Took(c, seen[c] + 1) /\ Lost(c) /\ Go(c, "failed")
             /\ UNCHANGED <<attempt, code>>
    <3>1. Wastes
      BY <2>3 DEF Took, Lost, Wastes
    <3> QED
      BY <1>6, <2>3, <3>1 DEF Update, Go, Rest, aggregate, plan, loop, code, Quiet, StartInv, Durable
  <2> QED
    BY <1>6, <2>1, <2>2, <2>3 DEF Update
<1>7. ASSUME NEW c \in Calls, Raise(c) \/ Cancel(c) PROVE Quiet
  BY <1>7 DEF Raise, Cancel, Go, Rest, loop, code, aggregate, plan, Quiet, StartInv, Durable, Wastes
<1>8. ASSUME NEW c \in Calls, Walk(c) PROVE \E v \in Words : WalkTo(c, v)
  <2>1. Tweak(c) \in Tweaks
    BY <1>8 DEF Walk, WalkInv, Tweak, Tweaks
  <2> QED
    BY <1>8, <2>1, PermuteType DEF Walk, WalkTo
<1>9. CASE Crash
  BY <1>9, BoundsAssumption DEF Crash, Running, plan, loop, code, Quiet, StartInv, Durable, Wastes
<1>10. CASE UNCHANGED vars
  BY <1>10 DEF vars, shared, aggregate, plan, loop, code, Quiet, StartInv, Durable, Wastes
<1> QED
  BY <1>1, <1>2, <1>3, <1>4, <1>5, <1>6, <1>7, <1>8, <1>9, <1>10 DEF Next, Step

-----------------------------------------------------------------------------
(* Each part of the invariant is kept *)

LEMMA StartKept == TypeOK /\ StartInv /\ SeenInv /\ WalkInv /\ [Next]_vars => StartInv'
<1> SUFFICES ASSUME TypeOK, StartInv, SeenInv, WalkInv, [Next]_vars PROVE StartInv'
  OBVIOUS
<1> USE DEF TypeOK, StartInv
<1>1. \A c \in Calls : pc'[c] # "idle" => on'[c] \in Slots
  <2>1. ASSUME NEW c \in Calls, NEW s \in Slots, Ensure(c, s)
        PROVE  \A d \in Calls : pc'[d] # "idle" => on'[d] \in Slots
    BY <2>1 DEF Ensure, Plan, Go
  <2>2. ASSUME NEW c \in Calls, Step(c) \/ Raise(c) \/ Cancel(c)
        PROVE  on' = on /\ \A d \in Calls : pc'[d] # "idle" => pc[d] # "idle"
    BY <2>2 DEF Step, Raise, Cancel, Count, Read, Insert, Recheck, Update, Walk, Allocated, Retry, Go, Rest,
                plan, Statements
  <2>3. CASE Crash
    BY <2>3 DEF Crash, plan, Running, Statements
  <2>4. CASE UNCHANGED vars
    BY <2>4 DEF vars, plan
  <2> QED
    BY <2>1, <2>2, <2>3, <2>4 DEF Next
<1>2. CASE Quiet
  BY <1>1, <1>2 DEF Quiet, code
<1>3. ASSUME NEW c \in Calls, NEW n \in 0 .. Maximum, Gives(c, n) PROVE StartInv'
  BY <1>1, <1>3, Bounds DEF Gives, Statements
<1>4. ASSUME NEW c \in Calls, NEW v \in Words, WalkTo(c, v) PROVE StartInv'
  <2>1. seq[c] # Absent /\ seq' = seq
    BY <1>4 DEF WalkTo, WalkInv
  <2> QED
    BY <1>1, <1>4, <2>1 DEF WalkTo, Go, Statements
<1> QED
  BY <1>2, <1>3, <1>4, StepKinds

LEMMA SeenKept == TypeOK /\ SeenInv /\ [Next]_vars => SeenInv'
<1> SUFFICES ASSUME TypeOK, SeenInv, [Next]_vars PROVE SeenInv'
  OBVIOUS
<1> USE DEF TypeOK, SeenInv, Statements
<1>1. ASSUME NEW c \in Calls, NEW s \in Slots, Ensure(c, s) PROVE SeenInv'
  BY <1>1 DEF Ensure, Plan, Go
<1>2. ASSUME NEW c \in Calls, Read(c) PROVE SeenInv'
  <2>1. level[day[c]] \in Absent .. Maximum
    OBVIOUS
  <2>2. AfterRead(level[day[c]]) = "update" => level[day[c]] \in 0 .. Maximum - 1
    BY <2>1, Bounds DEF AfterRead, Absent
  <2> QED
    BY <1>2, <2>2 DEF Read, Go
<1>3. ASSUME NEW c \in Calls,
             Count(c) \/ Insert(c) \/ Recheck(c) \/ Update(c) \/ Walk(c) \/ Raise(c) \/ Cancel(c)
      PROVE  SeenInv'
  BY <1>3 DEF Count, Insert, Recheck, Update, Walk, Raise, Cancel, Allocated, Retry, Go, Rest, loop
<1>4. CASE Crash
  BY <1>4 DEF Crash, loop
<1>5. CASE UNCHANGED vars
  BY <1>5 DEF vars, loop
<1> QED
  BY <1>1, <1>2, <1>3, <1>4, <1>5 DEF Next, Step

LEMMA SeqKept ==
  TypeOK /\ TypeOK' /\ StartInv /\ SeenInv /\ WalkInv /\ SeqInv /\ [Next]_vars => SeqInv'
<1> SUFFICES ASSUME TypeOK, TypeOK', StartInv, SeenInv, WalkInv, SeqInv, [Next]_vars, Durable'
             PROVE  SeqInv'
  BY DEF SeqInv
<1> USE DEF TypeOK, SeqInv
<1>1. CASE Quiet
  <2>1. Durable /\ seq' = seq
    BY <1>1 DEF Quiet, code
  <2>2. \A n \in Days : level'[n] \in Int /\ level[n] \in Int /\ level'[n] >= level[n]
    BY <1>1 DEF Quiet, Wastes, Absent
  <2>3. \A c \in Calls : seq[c] # Absent => day'[c] = day[c]
    BY <1>1 DEF Quiet
  <2>4. ASSUME NEW c \in Calls, seq[c] # Absent PROVE seq[c] <= level'[day[c]]
    BY <2>1, <2>2, <2>4 DEF Absent
  <2> QED
    BY <2>1, <2>3, <2>4
<1>2. ASSUME NEW c \in Calls, NEW n \in 0 .. Maximum, Gives(c, n) PROVE SeqInv'
  <2>1. Durable /\ day' = day
    BY <1>2 DEF Gives, Durable, plan
  <2>2. level'[day[c]] = n /\ n = level[day[c]] + 1 /\ seq'[c] = n
    BY <1>2 DEF Gives
  <2>3. \A m \in Days : level'[m] \in Int /\ level[m] \in Int /\ level'[m] >= level[m]
    BY <1>2, <2>2 DEF Gives, Absent
  <2>4. \A d \in Calls \ {c} : seq'[d] = seq[d]
    BY <1>2 DEF Gives
  <2>5. ASSUME NEW d \in Calls, seq'[d] # Absent PROVE seq'[d] <= level'[day[d]]
    BY <2>1, <2>2, <2>3, <2>4, <2>5 DEF Absent
  <2>6. ASSUME NEW d \in Calls \ {c}, seq[d] # Absent, day[d] = day[c] PROVE seq[d] < n
    BY <2>1, <2>2, <2>6 DEF Absent
  <2> QED
    BY <2>1, <2>2, <2>4, <2>5, <2>6
<1>3. ASSUME NEW c \in Calls, NEW v \in Words, WalkTo(c, v) PROVE SeqInv'
  BY <1>3 DEF WalkTo, shared, plan, Durable
<1> QED
  BY <1>1, <1>2, <1>3, StepKinds

LEMMA CountKept ==
  TypeOK /\ TypeOK' /\ StartInv /\ SeenInv /\ WalkInv /\ CountInv /\ [Next]_vars => CountInv'
<1> SUFFICES ASSUME TypeOK, TypeOK', StartInv, SeenInv, WalkInv, CountInv, [Next]_vars, Durable'
             PROVE  CountInv'
  BY DEF CountInv
<1> USE DEF TypeOK
<1>a. \A n \in Days : IsFiniteSet(Given(n)) /\ Cardinality(Given(n)) \in Nat
  <2>1. \A n \in Days : IsFiniteSet(Given(n))
    BY BoundsAssumption, FS_Subset DEF Given
  <2> QED
    BY <2>1, FS_CardinalityType
<1>b. \A n \in Days : level[n] \in Int /\ level'[n] \in Int /\ level'[n] <= Maximum /\ used[n] \in Int
  BY Bounds DEF Absent
<1>1. CASE Quiet
  <2>1. Durable /\ Wastes /\ seq' = seq
    BY <1>1 DEF Quiet, code
  <2>2. \A n \in Days : Given(n)' = Given(n)
    BY <1>1, <2>1 DEF Quiet, Given
  <2>3. \A n \in Days : used'[n] - used[n] = level'[n] - level[n] /\ level'[n] >= level[n]
    BY <1>b, <2>1 DEF Wastes
  <2>4. \A n \in Days : used'[n] + Cardinality(Given(n)') = level'[n] + 1
    BY <1>a, <1>b, <2>1, <2>2, <2>3 DEF CountInv
  <2>5. ASSUME NEW c \in Calls, pc'[c] = "exhausted" PROVE level'[day'[c]] = Maximum
    BY <1>1, <1>b, <2>1, <2>3, <2>5, Bounds DEF Quiet, CountInv
  <2> QED
    BY <2>4, <2>5 DEF CountInv
<1>2. ASSUME NEW c \in Calls, NEW n \in 0 .. Maximum, Gives(c, n) PROVE CountInv'
  <2>1. Durable /\ day' = day /\ used' = used
    BY <1>2 DEF Gives, Durable, plan
  <2>2. seq[c] = Absent /\ n # Absent
    BY <1>2, Bounds DEF Gives, StartInv, Statements
  <2>3. \A m \in Days : Given(m)' = IF m = day[c] THEN Given(m) \cup {c} ELSE Given(m)
    BY <1>2, <2>1, <2>2 DEF Gives, Given
  <2>4. c \notin Given(day[c])
    BY <2>2 DEF Given
  <2>5. Cardinality(Given(day[c]) \cup {c}) = Cardinality(Given(day[c])) + 1
    BY <1>a, <2>4, FS_AddElement
  <2>6. \A m \in Days : level'[m] = IF m = day[c] THEN level[m] + 1 ELSE level[m]
    BY <1>2 DEF Gives
  <2>7. ASSUME NEW m \in Days PROVE used'[m] + Cardinality(Given(m)') = level'[m] + 1
    <3>1. used[m] + Cardinality(Given(m)) = level[m] + 1
      BY <2>1 DEF CountInv
    <3>2. CASE m = day[c]
      <4>1. Given(m)' = Given(m) \cup {c}
        BY <2>3, <3>2
      <4>2. Cardinality(Given(m)') = Cardinality(Given(m)) + 1
        BY <2>5, <3>2, <4>1
      <4>3. level'[m] = level[m] + 1
        BY <2>6, <3>2
      <4> QED
        BY <1>a, <1>b, <2>1, <3>1, <4>2, <4>3
    <3>3. CASE m # day[c]
      BY <2>1, <2>3, <2>6, <3>1, <3>3
    <3> QED
      BY <3>2, <3>3
  <2>8. ASSUME NEW d \in Calls, pc'[d] = "exhausted" PROVE level'[day'[d]] = Maximum
    <3>1. pc[d] = "exhausted"
      BY <1>2, <2>8 DEF Gives
    <3> QED
      BY <1>b, <2>1, <2>6, <3>1, Bounds DEF CountInv
  <2> QED
    BY <2>7, <2>8 DEF CountInv
<1>3. ASSUME NEW c \in Calls, NEW v \in Words, WalkTo(c, v) PROVE CountInv'
  <2>1. UNCHANGED <<store, crashes, seq, level, used, day>>
    BY <1>3 DEF WalkTo, shared, plan
  <2>2. \A d \in Calls : pc'[d] = "exhausted" => pc[d] = "exhausted"
    BY <1>3 DEF WalkTo, Go
  <2> QED
    BY <2>1, <2>2 DEF CountInv, Given, Durable
<1> QED
  BY <1>1, <1>2, <1>3, StepKinds

\* What a call permuted, and what came of it, stays as it is while its trail does.
SameTrail(c) ==
  /\ trail'[c] = trail[c] /\ seq'[c] = seq[c]
  /\ trail[c] # {} => Tweak(c)' = Tweak(c)

LEMMA FromKept ==
  ASSUME NEW c \in Calls, SameTrail(c), trail[c] # {}
  PROVE  Source(c)' = Source(c) /\ \A u, v : From(c, u, v)' <=> From(c, u, v)
  BY DEF SameTrail, Source, From

LEMMA QuietTrails == TypeOK /\ StartInv /\ Quiet => \A c \in Calls : SameTrail(c)
  BY DEF StartInv, Quiet, code, SameTrail, Tweak

LEMMA GivesTrails ==
  ASSUME TypeOK, StartInv, NEW c \in Calls, NEW n \in 0 .. Maximum, Gives(c, n)
  PROVE  /\ \A d \in Calls \ {c} : SameTrail(d) /\ Tweak(d)' = Tweak(d)
         /\ trail'[c] = {} /\ seq[c] = Absent
<1>1. trail' = trail /\ day' = day /\ seq[c] = Absent
  BY DEF Gives, plan, StartInv, Statements
<1>2. \A d \in Calls \ {c} : seq'[d] = seq[d] /\ enc'[d] = enc[d]
  BY DEF Gives, TypeOK
<1>3. trail[c] = {}
  BY <1>1 DEF StartInv
<1> QED
  BY <1>1, <1>2, <1>3 DEF SameTrail, Tweak

LEMMA WalkTrails ==
  ASSUME TypeOK, NEW c \in Calls, NEW v \in Words, WalkTo(c, v)
  PROVE  /\ \A d \in Calls : Tweak(d)' = Tweak(d) /\ seq'[d] = seq[d]
         /\ \A d \in Calls \ {c} : SameTrail(d)
         /\ trail'[c] = trail[c] \cup {v} /\ cand'[c] = v
  BY DEF TypeOK, WalkTo, plan, SameTrail, Tweak

\* What a call permutes next is a number of the domain, or is in its trail.
LEMMA Sources ==
  ASSUME TypeOK, NEW c \in Calls, NEW u \in Source(c), seq[c] # Absent
  PROVE  /\ u \in Words
         /\ \/ u = seq[c] /\ u < Domain
            \/ u \in trail[c] /\ ~(u < Domain)
<1>1. seq[c] \in 0 .. Maximum /\ trail[c] \subseteq Words /\ seq[c] \in Words
  BY Bounds DEF TypeOK
<1>2. CASE u = seq[c]
  BY <1>1, <1>2, Bounds
<1>3. CASE u \in trail[c] /\ u >= Domain
  BY <1>1, <1>3, Bounds DEF Words
<1> QED
  BY <1>2, <1>3 DEF Source

LEMMA TrailKept ==
  TypeOK /\ StartInv /\ SeenInv /\ WalkInv /\ TrailInv /\ [Next]_vars => TrailInv'
<1> SUFFICES ASSUME TypeOK, StartInv, SeenInv, WalkInv, TrailInv, [Next]_vars PROVE TrailInv'
  OBVIOUS
<1>1. ASSUME NEW d \in Calls, NEW v \in trail'[d], SameTrail(d)
      PROVE  enc'[d] \in Keys /\ \E u \in Source(d)' : From(d, u, v)'
  <2>1. v \in trail[d] /\ Tweak(d)' = Tweak(d)
    BY <1>1 DEF SameTrail
  <2>2. enc'[d] = enc[d]
    BY <2>1 DEF Tweak
  <2>3. enc[d] \in Keys /\ \E u \in Source(d) : From(d, u, v)
    BY <2>1 DEF TrailInv
  <2> QED
    BY <1>1, <2>1, <2>2, <2>3, FromKept
<1>2. CASE Quiet
  BY <1>1, <1>2, QuietTrails DEF TrailInv
<1>3. ASSUME NEW c \in Calls, NEW n \in 0 .. Maximum, Gives(c, n) PROVE TrailInv'
  BY <1>1, <1>3, GivesTrails DEF TrailInv
<1>4. ASSUME NEW c \in Calls, NEW v \in Words, WalkTo(c, v) PROVE TrailInv'
  <2>1. trail'[c] = trail[c] \cup {v} /\ Tweak(c)' = Tweak(c) /\ seq'[c] = seq[c]
    BY <1>4, WalkTrails
  <2>2. Source(c) \subseteq Source(c)'
    BY <2>1 DEF Source
  <2>3. \A u \in Source(c) : \A w : From(c, u, w) => From(c, u, w)'
    BY <2>1, <2>2 DEF From
  <2>4. enc[c] \in Keys /\ enc'[c] = enc[c] /\ cand[c] \in Source(c) /\ From(c, cand[c], v)
    BY <1>4, <2>1 DEF WalkTo, WalkInv, From, Tweak
  <2>5. ASSUME NEW w \in trail'[c] PROVE enc'[c] \in Keys /\ \E u \in Source(c)' : From(c, u, w)'
    <3>1. \E u \in Source(c) : From(c, u, w)
      BY <2>1, <2>4 DEF TrailInv
    <3> QED
      BY <2>2, <2>3, <2>4, <3>1
  <2> QED
    BY <1>1, <1>4, <2>5, WalkTrails DEF TrailInv
<1> QED
  BY <1>2, <1>3, <1>4, StepKinds

\* The next candidate of a walk is new to it.
LEMMA NextIsNew ==
  ASSUME TypeOK, WalkInv, NEW c \in Calls, pc[c] = "walk"
  PROVE  Permute(Tweak(c), cand[c]) \notin trail[c]
<1>1. Tweak(c) \in Tweaks /\ cand[c] \in Words /\ seq[c] # Absent
  BY DEF TypeOK, WalkInv, Tweak, Tweaks
<1>2. ASSUME Permute(Tweak(c), cand[c]) \in trail[c] PROVE FALSE
  <2>1. PICK u \in Source(c) \ {cand[c]} : From(c, u, Permute(Tweak(c), cand[c]))
    BY <1>2 DEF WalkInv
  <2>2. u \in Words
    BY <1>1, <2>1, Sources
  <2> QED
    BY <1>1, <2>1, <2>2, PermuteUnique DEF From
<1> QED
  BY <1>2

LEMMA WalkKept ==
  TypeOK /\ StartInv /\ SeenInv /\ WalkInv /\ TrailInv /\ [Next]_vars => WalkInv'
<1> SUFFICES ASSUME TypeOK, StartInv, SeenInv, WalkInv, TrailInv, [Next]_vars PROVE WalkInv'
  OBVIOUS
<1> DEFINE Ready(c) ==
      /\ seq[c] # Absent /\ enc[c] \in Keys /\ cand[c] \in Source(c)
      /\ \A v \in trail[c] : \E u \in Source(c) \ {cand[c]} : From(c, u, v)
<1>1. ASSUME NEW d \in Calls, pc[d] = "walk", UNCHANGED <<seq[d], enc[d], cand[d], trail[d], day[d]>>
      PROVE  Ready(d)'
  <2>1. Ready(d)
    BY <1>1 DEF WalkInv
  <2> QED
    BY <1>1, <2>1 DEF Source, From, Tweak
<1>2. CASE Quiet
  <2>1. ASSUME NEW d \in Calls, pc'[d] = "walk" PROVE Ready(d)'
    <3>1. pc[d] = "walk" /\ UNCHANGED <<seq[d], enc[d], cand[d], trail[d], day[d]>>
      BY <1>2, <2>1 DEF Quiet, code, WalkInv
    <3> QED
      BY <1>1, <3>1
  <2> QED
    BY <2>1 DEF WalkInv
<1>3. ASSUME NEW c \in Calls, NEW n \in 0 .. Maximum, Gives(c, n) PROVE WalkInv'
  <2>1. ASSUME NEW d \in Calls \ {c}, pc'[d] = "walk" PROVE Ready(d)'
    <3>1. pc[d] = "walk" /\ UNCHANGED <<seq[d], enc[d], cand[d], trail[d], day[d]>>
      BY <1>3, <2>1 DEF Gives, plan, TypeOK
    <3> QED
      BY <1>1, <3>1
  <2>2. ASSUME pc'[c] = "walk" PROVE Ready(c)'
    <3>1. seq'[c] = n /\ cand'[c] = n /\ enc'[c] \in Keys /\ n # Absent
      BY <1>3, <2>2, Bounds DEF Gives, TypeOK
    <3> QED
      BY <1>3, <3>1, GivesTrails DEF Source
  <2> QED
    BY <2>1, <2>2 DEF WalkInv
<1>4. ASSUME NEW c \in Calls, NEW v \in Words, WalkTo(c, v) PROVE WalkInv'
  <2>1. ASSUME NEW d \in Calls \ {c}, pc'[d] = "walk" PROVE Ready(d)'
    <3>1. pc[d] = "walk" /\ UNCHANGED <<seq[d], enc[d], cand[d], trail[d], day[d]>>
      BY <1>4, <2>1 DEF WalkTo, Go, plan, TypeOK
    <3> QED
      BY <1>1, <3>1
  <2>2. ASSUME pc'[c] = "walk" PROVE Ready(c)'
    <3>1. ~(v < Domain) /\ trail'[c] = trail[c] \cup {v} /\ cand'[c] = v
      BY <1>4, <2>2, WalkTrails DEF WalkTo, Go, TypeOK
    <3>2. Tweak(c)' = Tweak(c) /\ seq'[c] = seq[c] /\ enc'[c] = enc[c]
      BY <1>4, WalkTrails DEF WalkTo
    <3>3. v \notin trail[c] /\ v = Permute(Tweak(c), cand[c])
      BY <1>4, NextIsNew DEF WalkTo
    <3>4. Ready(c) /\ seq[c] # Absent
      BY <1>4 DEF WalkTo, WalkInv
    <3>5. v \in Source(c)' /\ Source(c) \subseteq Source(c)'
      BY <3>1, <3>2, WordAssumption DEF Source, Words
    <3>6. v \notin Source(c)
      BY <3>1, <3>3, <3>4, Sources
    <3>7. ASSUME NEW w \in trail'[c] PROVE \E u \in Source(c)' \ {cand'[c]} : From(c, u, w)'
      <4>1. PICK u \in Source(c) : From(c, u, w)
        BY <3>1, <3>3, <3>4, <3>7 DEF From
      <4>2. u \in Source(c)' \ {cand'[c]} /\ From(c, u, w)'
        BY <3>1, <3>2, <3>5, <3>6, <4>1 DEF From
      <4> QED
        BY <4>2
    <3> QED
      BY <3>1, <3>2, <3>4, <3>5, <3>7
  <2> QED
    BY <2>1, <2>2 DEF WalkInv
<1> QED
  BY <1>2, <1>3, <1>4, StepKinds

\* A walk never reaches what the walk of another number went through.
LEMMA NextIsApart ==
  ASSUME TypeOK, WalkInv, TrailInv, ApartInv, NEW c \in Calls, NEW d \in Calls, pc[c] = "walk",
         seq[d] # Absent, seq[c] # seq[d], Tweak(c) = Tweak(d)
  PROVE  Permute(Tweak(c), cand[c]) \notin trail[d]
<1>1. Tweak(c) \in Tweaks /\ cand[c] \in Words /\ seq[c] # Absent /\ cand[c] \in Source(c)
  BY DEF TypeOK, WalkInv, Tweak, Tweaks
<1>2. ASSUME Permute(Tweak(c), cand[c]) \in trail[d] PROVE FALSE
  <2>1. PICK u \in Source(d) : From(d, u, Permute(Tweak(c), cand[c]))
    BY <1>2 DEF TrailInv
  <2>2. u \in Words
    BY <2>1, Sources
  <2>3. u = cand[c]
    BY <1>1, <2>1, <2>2, PermuteUnique DEF From
  <2>4. \/ u = seq[d] /\ u < Domain
        \/ u \in trail[d] /\ ~(u < Domain)
    BY <2>1, Sources
  <2>5. \/ u = seq[c] /\ u < Domain
        \/ u \in trail[c] /\ ~(u < Domain)
    BY <1>1, <2>3, Sources
  <2>6. trail[c] \cap trail[d] = {}
    BY <1>1 DEF ApartInv
  <2> QED
    BY <2>4, <2>5, <2>6
<1> QED
  BY <1>2

LEMMA ApartKept ==
  /\ TypeOK /\ StartInv /\ SeenInv /\ WalkInv /\ TrailInv /\ ApartInv
  /\ [Next]_vars
  => ApartInv'
<1> SUFFICES ASSUME TypeOK, StartInv, SeenInv, WalkInv, TrailInv, ApartInv, [Next]_vars,
                    NEW c \in Calls, NEW d \in Calls,
                    seq'[c] # seq'[d], seq'[c] # Absent, seq'[d] # Absent, Tweak(c)' = Tweak(d)'
             PROVE  trail'[c] \cap trail'[d] = {}
  BY DEF ApartInv
<1>1. ASSUME SameTrail(c), SameTrail(d) PROVE trail'[c] \cap trail'[d] = {}
  BY <1>1 DEF SameTrail, ApartInv
<1>2. CASE Quiet
  BY <1>1, <1>2, QuietTrails
<1>3. ASSUME NEW b \in Calls, NEW n \in 0 .. Maximum, Gives(b, n) PROVE trail'[c] \cap trail'[d] = {}
  BY <1>1, <1>3, GivesTrails
<1>4. ASSUME NEW b \in Calls, NEW v \in Words, WalkTo(b, v) PROVE trail'[c] \cap trail'[d] = {}
  <2>1. /\ seq[c] # seq[d] /\ seq[c] # Absent /\ seq[d] # Absent
        /\ Tweak(c) = Tweak(d) /\ Tweak(d) = Tweak(c)
    BY <1>4, WalkTrails
  <2>2. trail[c] \cap trail[d] = {}
    BY <2>1 DEF ApartInv
  <2>3. pc[b] = "walk" /\ v = Permute(Tweak(b), cand[b]) /\ trail'[b] = trail[b] \cup {v}
    BY <1>4, WalkTrails DEF WalkTo
  <2>4. CASE b = c
    <3>1. v \notin trail[d] /\ trail'[d] = trail[d]
      BY <1>4, <2>1, <2>3, <2>4, NextIsApart, WalkTrails DEF SameTrail
    <3> QED
      BY <2>2, <2>3, <2>4, <3>1
  <2>5. CASE b = d
    <3>1. v \notin trail[c] /\ trail'[c] = trail[c]
      BY <1>4, <2>1, <2>3, <2>5, NextIsApart, WalkTrails DEF SameTrail
    <3> QED
      BY <2>2, <2>3, <2>5, <3>1
  <2>6. CASE b # c /\ b # d
    BY <1>1, <1>4, <2>6, WalkTrails
  <2> QED
    BY <2>4, <2>5, <2>6
<1> QED
  BY <1>2, <1>3, <1>4, StepKinds

LEMMA ResultKept ==
  TypeOK /\ StartInv /\ SeenInv /\ WalkInv /\ ResultInv /\ [Next]_vars => ResultInv'
<1> SUFFICES ASSUME TypeOK, StartInv, SeenInv, WalkInv, ResultInv, [Next]_vars PROVE ResultInv'
  OBVIOUS
<1>1. ASSUME NEW d \in Calls, Made(d), UNCHANGED <<cand[d], trail[d], result[d], day[d]>>
      PROVE  cand'[d] \in trail'[d] /\ result'[d] = <<day'[d], cand'[d]>>
  BY <1>1 DEF ResultInv
<1>2. CASE Quiet
  <2>1. ASSUME NEW d \in Calls, Made(d)'
        PROVE  Made(d) /\ UNCHANGED <<cand[d], trail[d], result[d], day[d]>>
    BY <1>2, <2>1 DEF Quiet, code, Made
  <2> QED
    BY <1>1, <2>1 DEF ResultInv
<1>3. ASSUME NEW c \in Calls, NEW n \in 0 .. Maximum, Gives(c, n) PROVE ResultInv'
  <2>1. ASSUME NEW d \in Calls, Made(d)'
        PROVE  Made(d) /\ UNCHANGED <<cand[d], trail[d], result[d], day[d]>>
    BY <1>3, <2>1 DEF Gives, plan, Made, TypeOK
  <2> QED
    BY <1>1, <2>1 DEF ResultInv
<1>4. ASSUME NEW c \in Calls, NEW v \in Words, WalkTo(c, v) PROVE ResultInv'
  <2>1. ASSUME NEW d \in Calls \ {c}, Made(d)'
        PROVE  Made(d) /\ UNCHANGED <<cand[d], trail[d], result[d], day[d]>>
    <3>1. UNCHANGED <<cand[d], trail[d], day[d], seq[d]>>
      BY <1>4 DEF WalkTo, plan, TypeOK
    <3>2. UNCHANGED <<pc[d], result[d]>>
      BY <1>4 DEF WalkTo, Go, TypeOK
    <3> QED
      BY <2>1, <3>1, <3>2 DEF Made
  <2>2. ASSUME Made(c)' PROVE cand'[c] \in trail'[c] /\ result'[c] = <<day'[c], cand'[c]>>
    <3>1. v < Domain /\ day' = day
      BY <1>4, <2>2 DEF WalkTo, Made, plan
    <3>2. result'[c] = <<day[c], v>>
      BY <1>4, <3>1 DEF WalkTo, TypeOK
    <3> QED
      BY <1>4, <3>1, <3>2, WalkTrails
  <2> QED
    BY <1>1, <2>1, <2>2 DEF ResultInv
<1> QED
  BY <1>2, <1>3, <1>4, StepKinds

LEMMA SlotKept ==
  TypeOK /\ TypeOK' /\ StartInv /\ SlotInv /\ [Next]_vars => SlotInv'
<1> SUFFICES ASSUME TypeOK, TypeOK', StartInv, SlotInv, [Next]_vars PROVE SlotInv'
  OBVIOUS
<1> USE DEF TypeOK, Statements
<1>a. Blank \notin Values
  BY NamesAssumption
<1>1. ASSUME NEW c \in Calls, NEW s \in Slots, Ensure(c, s) PROVE SlotInv'
  <2>1. on'[c] = s /\ pc[c] = "idle" /\ slot' = slot /\ ~Running(c)
    BY <1>1 DEF Ensure, Running
  <2>2. ASSUME NEW d \in Calls \ {c}
        PROVE  on'[d] = on[d] /\ pc'[d] = pc[d] /\ result'[d] = result[d] /\ Running(d)' = Running(d)
    BY <1>1 DEF Ensure, Plan, Go, Running
  <2>3. crowded \subseteq crowded'
    BY <1>1 DEF Ensure, Plan
  <2>4. CASE slot[s] = Blank /\ s \in New
    <3>1. pc'[c] \in {"count", "read"}
      BY <1>1, <2>4 DEF Ensure, Plan, Go
    <3>2. s \notin crowded' => \A d \in Calls : Running(d) => on[d] # s
      BY <1>1, <2>4 DEF Ensure, Plan
    <3> QED
      BY <2>1, <2>2, <2>3, <2>4, <3>1, <3>2 DEF SlotInv
  <2>5. CASE ~(slot[s] = Blank /\ s \in New)
    <3>1. ~Running(c)' /\ (pc'[c] = "done" => result'[c] = slot[s] /\ slot[s] \in Values)
      BY <1>1, <2>5 DEF Ensure, Go, Running
    <3> QED
      BY <2>1, <2>2, <2>3, <3>1 DEF SlotInv
  <2> QED
    BY <2>4, <2>5
<1>2. ASSUME NEW c \in Calls,
             Count(c) \/ Read(c) \/ Insert(c) \/ Recheck(c) \/ Update(c) \/ Raise(c) \/ Cancel(c)
      PROVE  SlotInv'
  <2>1. UNCHANGED <<slot, crowded, on, result>>
    BY <1>2 DEF Count, Read, Insert, Recheck, Update, Raise, Cancel, Rest, aggregate, plan
  <2>2. Running(c) /\ pc'[c] # "done" /\ \A d \in Calls \ {c} : pc'[d] = pc[d]
    BY <1>2 DEF Count, Read, Insert, Recheck, Update, Raise, Cancel, Allocated, Retry, AfterRead, Go, Running
  <2>3. \A d \in Calls : (Running(d)' => Running(d)) /\ (pc'[d] = "done" => pc[d] = "done")
    BY <2>2 DEF Running
  <2> QED
    BY <2>1, <2>3 DEF SlotInv
<1>3. ASSUME NEW c \in Calls, Walk(c) PROVE SlotInv'
  <2>1. PICK v : WalkTo(c, v)
    BY <1>3 DEF Walk, WalkTo
  <2>2. Running(c) /\ on[c] \in Slots /\ on' = on /\ crowded' = crowded
    BY <2>1 DEF WalkTo, plan, Running, StartInv
  <2>3. CASE v < Domain
    <3>1. /\ pc' = [pc EXCEPT ![c] = "done"]
          /\ result'[c] = <<day[c], v>> /\ slot'[on[c]] = <<day[c], v>>
          /\ \A d \in Calls \ {c} : result'[d] = result[d]
          /\ \A s \in Slots \ {on[c]} : slot'[s] = slot[s]
      BY <2>1, <2>2, <2>3 DEF WalkTo, Go
    <3>2. <<day[c], v>> \in Values
      <4>1. cand'[c] = v /\ v \in Words
        BY <2>1 DEF WalkTo
      <4> QED
        BY <2>3, <4>1, Bounds DEF Values, Words
    <3>3. ASSUME NEW d \in Calls \ {c}, on[d] \notin crowded
          PROVE  /\ Running(d) => on[d] # on[c]
                 /\ pc[d] = "done" => on[d] # on[c] /\ on[d] \in Slots
      BY <1>a, <2>2, <3>3 DEF SlotInv, Running, StartInv
    <3>4. \A d \in Calls \ {c} : pc'[d] = pc[d] /\ Running(d)' = Running(d)
      BY <3>1 DEF Running
    <3>5. ~Running(c)'
      BY <3>1 DEF Running
    <3>6. ASSUME NEW d \in Calls, on[d] \notin crowded
          PROVE  /\ Running(d)' => slot'[on[d]] = Blank /\ \A e \in Calls \ {d} : Running(e)' => on[e] # on[d]
                 /\ pc'[d] = "done" => slot'[on[d]] = result'[d] /\ result'[d] \in Values
      <4>1. CASE d = c
        BY <3>1, <3>2, <3>5, <4>1
      <4>2. CASE d # c
        <5>1. Running(d) => on[d] \in Slots
          BY DEF Running, StartInv
        <5> QED
          BY <2>2, <3>1, <3>3, <3>4, <3>5, <3>6, <4>2, <5>1 DEF SlotInv
      <4> QED
        BY <4>1, <4>2
    <3> QED
      BY <2>2, <3>6 DEF SlotInv
  <2>4. CASE ~(v < Domain)
    BY <2>1, <2>2, <2>4 DEF WalkTo, SlotInv, Running
  <2> QED
    BY <2>3, <2>4
<1>4. CASE Crash
  BY <1>4 DEF Crash, plan, SlotInv, StartInv, Running
<1>5. CASE UNCHANGED vars
  BY <1>5 DEF vars, aggregate, plan, SlotInv, Running
<1> QED
  BY <1>1, <1>2, <1>3, <1>4, <1>5 DEF Next, Step

-----------------------------------------------------------------------------
(* The theorems *)

LEMMA InitInv == Init => IInv
<1> SUFFICES ASSUME Init PROVE IInv
  OBVIOUS
<1>1. TypeOK
  BY InitType
<1>2. \A c \in Calls : pc[c] = "idle" /\ seq[c] = Absent /\ trail[c] = {}
  BY DEF Init
<1>3. CountInv
  <2>1. \A n \in Days : Given(n) = {}
    BY <1>2 DEF Given
  <2>2. \A n \in Days : Cardinality(Given(n)) = 0
    BY <2>1, FS_EmptySet
  <2>3. \A n \in Days : used[n] = level[n] + 1 /\ used[n] \in Int
    BY <1>1 DEF Init, TypeOK
  <2> QED
    BY <1>2, <2>2, <2>3 DEF CountInv
<1>4. StartInv /\ SeenInv /\ SeqInv
  BY <1>2 DEF StartInv, SeenInv, SeqInv
<1>5. WalkInv /\ TrailInv /\ ApartInv /\ ResultInv
  BY <1>2 DEF WalkInv, TrailInv, ApartInv, ResultInv, Made
<1>6. SlotInv
  BY <1>2 DEF SlotInv, Running, Statements
<1> QED
  BY <1>1, <1>3, <1>4, <1>5, <1>6 DEF IInv

LEMMA NextInv == IInv /\ [Next]_vars => IInv'
<1> SUFFICES ASSUME IInv, [Next]_vars PROVE IInv'
  OBVIOUS
<1>1. TypeOK'
  BY NextType DEF IInv
<1> QED
  BY <1>1, StartKept, SeenKept, SeqKept, CountKept, TrailKept, WalkKept, ApartKept, ResultKept, SlotKept
  DEF IInv

LEMMA Always == Spec => []IInv
<1> QED
  BY InitInv, NextInv, PTL DEF Spec

\* The variables of BusinessId keep their types; in particular no allocator passes the
\* end of the range, and no code is outside the domain.
THEOREM TypeCorrect == Spec => []TypeOK
<1>1. IInv => TypeOK
  BY DEF IInv
<1> QED
  BY <1>1, Always, PTL

\* Two calls never make the same Business ID for one day under one key.
THEOREM Unique == Spec => []UniqueIds
<1>1. IInv => UniqueIds
  <2> SUFFICES ASSUME IInv, Durable, NEW c \in Calls, NEW d \in Calls,
                      c # d, Made(c), Made(d), Tweak(c) = Tweak(d)
               PROVE  result[c] # result[d]
    BY DEF UniqueIds
  <2>1. seq[c] # Absent /\ seq[d] # Absent /\ day[c] = day[d]
    BY DEF Made, Tweak
  <2>2. seq[c] # seq[d]
    BY <2>1 DEF IInv, SeqInv
  <2>3. trail[c] \cap trail[d] = {}
    BY <2>1, <2>2 DEF IInv, ApartInv
  <2>4. /\ cand[c] \in trail[c] /\ result[c] = <<day[c], cand[c]>>
        /\ cand[d] \in trail[d] /\ result[d] = <<day[d], cand[d]>>
    BY DEF IInv, ResultInv
  <2> QED
    BY <2>3, <2>4
<1> QED
  BY <1>1, Always, PTL

\* A range is reported as exhausted only when its numbers are all accounted for.
THEOREM Exhaustion == Spec => []RangeHonest
<1>1. IInv => RangeHonest
  <2> SUFFICES ASSUME IInv, Durable, NEW c \in Calls, pc[c] = "exhausted"
               PROVE  used[day[c]] + Cardinality({d \in Calls : seq[d] # Absent /\ day[d] = day[c]}) = Domain
    BY DEF RangeHonest
  <2>1. day[c] \in Days
    BY DEF IInv, TypeOK
  <2>2. used[day[c]] + Cardinality(Given(day[c])) = level[day[c]] + 1 /\ level[day[c]] = Maximum
    BY <2>1 DEF IInv, CountInv
  <2> QED
    BY <2>2, Bounds DEF Given
<1> QED
  BY <1>1, Always, PTL

\* Calls to a slot that come one after the other return the value it holds.
THEOREM Retries == Spec => []RetrySafe
<1>1. IInv => RetrySafe
  BY DEF IInv, SlotInv, RetrySafe
<1> QED
  BY <1>1, Always, PTL

\* A walk never comes back to a candidate, so encode ends.
THEOREM WalkEnds == Spec => []WalkMovesOn
<1>1. IInv => WalkMovesOn
  BY NextIsNew DEF IInv, WalkMovesOn
<1> QED
  BY <1>1, Always, PTL
=============================================================================
