---------------------------- MODULE BusinessId ----------------------------
(***************************************************************************)
(* Business IDs: DefaultBusinessIdService.ensure gives the slot of a new   *)
(* aggregate a value made of the business day and a code.  The code is     *)
(* the day's next sequence number, from the counter in memory or from the  *)
(* row of teaql_business_id_space, put through a keyed permutation.        *)
(*                                                                         *)
(* One tenant, aggregate type and namespace: a scope is a day.  Statements *)
(* on the row commit by themselves, and may raise before or after they     *)
(* took effect.  A value is its day and its code as a number; prefix,      *)
(* separator and base 36 are left out, for they are one-to-one.  encode    *)
(* waits for nothing, but is taken one permutation at a time, so that the  *)
(* end of its loop can be stated.                                          *)
(***************************************************************************)
EXTENDS Integers, FiniteSets

CONSTANTS
  Calls,        \* calls of ensure
  Slots,        \* aggregates with a Business ID
  New,          \* those of new aggregates
  Damaged,      \* those with a value that is no Business ID of the profile
  MaxDay,       \* business days are 1 .. MaxDay
  Keys,         \* encoding keys the provider may return
  NoKey,        \* the provider has no key
  MaxAttempts,  \* MAX_ATTEMPTS
  MaxCrashes,   \* bound on restarts of the process
  Starts,       \* how far the sequence of a day may be when the model begins
  Half,         \* half words are 0 .. Half - 1 (2^16)
  Domain,       \* BUSINESS_ID_PERMUTATION_V1_DOMAIN_SIZE (36^6)
  Mix(_, _),    \* exclusive or of half words
  Digest(_, _, _),  \* a half word of the HMAC for a tweak, a round and a half word
  Blank,        \* no value, no slot
  Malformed     \* the value of a damaged slot

Days == 1 .. MaxDay
HalfWords == 0 .. Half - 1
Words == 0 .. Half * Half - 1
Maximum == Domain - 1   \* BUSINESS_ID_PERMUTATION_V1_MAX_SEQUENCE
Absent == -1            \* no row, no counter, no number
Values == Days \X (0 .. Maximum)

ASSUME WordAssumption == Half \in Nat \ {0} /\ Domain \in 1 .. Half * Half
ASSUME MixAssumption ==
  \A a, b \in HalfWords : Mix(a, b) \in HalfWords /\ Mix(Mix(a, b), b) = a
ASSUME DigestAssumption ==
  \A d \in Days, k \in Keys, i \in 0 .. 7, r \in HalfWords : Digest(<<d, k>>, i, r) \in HalfWords
ASSUME BoundsAssumption ==
  /\ IsFiniteSet(Calls)
  /\ MaxDay \in Nat \ {0} /\ MaxAttempts \in Nat \ {0} /\ MaxCrashes \in Nat
  /\ Starts \subseteq Absent .. Maximum
  /\ New \subseteq Slots /\ Damaged \subseteq Slots
ASSUME NamesAssumption ==
  /\ NoKey \notin Keys /\ Blank \notin Slots
  /\ {Blank, Malformed} \cap Values = {} /\ Blank # Malformed

VARIABLES
  store,    \* which allocator: "memory" or "sql"
  level,    \* level[d]: the last sequence number of day d, or Absent
  crashes,  \* restarts so far
  slot,     \* slot[s]: the value of slot s, Blank or Malformed
  pc,       \* pc[c]: the statement call c is about to send, or how it ended
  on,       \* on[c]: the slot of c, or Blank
  day,      \* day[c]: the day c plans for
  seen,     \* seen[c]: the level c read
  attempt,  \* attempt[c]: which attempt of its loop c is in
  seq,      \* seq[c]: the sequence number allocated to c, or Absent
  enc,      \* enc[c]: the key c encodes with
  cand,     \* cand[c]: the candidate of c's cycle walk
  result,   \* result[c]: the value c returned, or Blank
  trail,    \* history: trail[c], what the permutation gave c so far
  used,     \* history: used[d], numbers of day d that went to nobody
  crowded   \* history: slots two calls were on at a time, or of a process that died

shared == <<store, level, used>>
aggregate == <<slot, crowded>>
plan == <<on, day>>
loop == <<seen, attempt>>
code == <<seq, enc, cand, trail>>
vars == <<shared, crashes, aggregate, pc, plan, loop, code, result>>

-----------------------------------------------------------------------------
(* The permutation *)

\* The left half is replaced instead of mixed.
RoundReplacing(t, i, w) == <<w[2], Digest(t, i, w[2])>>

Round(t, i, w) == <<w[2], Mix(w[1], Digest(t, i, w[2]))>>

Split(v) == <<v \div Half, v % Half>>
Join(w) == w[1] * Half + w[2]
Permute(t, v) ==
  Join(Round(t, 7, Round(t, 6, Round(t, 5, Round(t, 4,
       Round(t, 3, Round(t, 2, Round(t, 1, Round(t, 0, Split(v))))))))))

Tweak(c) == <<day[c], enc[c]>>

-----------------------------------------------------------------------------
Init ==
  /\ store \in {"memory", "sql"} /\ level \in [Days -> Starts]
  /\ used = [d \in Days |-> level[d] + 1]
  /\ crashes = 0 /\ crowded = {}
  /\ slot = [s \in Slots |-> IF s \in Damaged THEN Malformed ELSE Blank]
  /\ pc = [c \in Calls |-> "idle"]
  /\ on = [c \in Calls |-> Blank] /\ day = [c \in Calls |-> 1]
  /\ seen = [c \in Calls |-> Absent] /\ attempt = [c \in Calls |-> 0]
  /\ seq = [c \in Calls |-> Absent] /\ enc = [c \in Calls |-> NoKey]
  /\ cand = [c \in Calls |-> 0] /\ trail = [c \in Calls |-> {}]
  /\ result = [c \in Calls |-> Blank]

Statements == {"read", "insert", "recheck", "update"}
Running(c) == pc[c] \in Statements \cup {"count", "walk"}

Go(c, to) == pc' = [pc EXCEPT ![c] = to]

-----------------------------------------------------------------------------
(* The process *)

\* The process dies with its calls, its aggregates and the counter in memory.
Crash ==
  /\ crashes < MaxCrashes /\ crashes' = crashes + 1
  /\ pc' = [c \in Calls |-> IF Running(c) THEN "dead" ELSE pc[c]]
  /\ slot' = [s \in Slots |-> Blank] /\ crowded' = Slots
  /\ level' = IF store = "memory" THEN [d \in Days |-> Absent] ELSE level
  /\ UNCHANGED <<store, used, plan, loop, code, result>>

-----------------------------------------------------------------------------
(* A call *)

\* The plan for the business date of the moment.
Plan(c, s) ==
  /\ Go(c, IF store = "memory" THEN "count" ELSE "read")
  /\ \E d \in Days : day' = [day EXCEPT ![c] = d]
  /\ attempt' = [attempt EXCEPT ![c] = 1]
  /\ crowded' = IF \E d \in Calls : Running(d) /\ on[d] = s THEN crowded \cup {s} ELSE crowded

\* A value that is there is not looked at.
EnsureAnew(c, s) ==
  /\ pc[c] = "idle"
  /\ on' = [on EXCEPT ![c] = s]
  /\ IF s \in New
       THEN Plan(c, s)
       ELSE Go(c, "failed") /\ UNCHANGED <<day, attempt, crowded>>
  /\ UNCHANGED <<shared, crashes, slot, seen, code, result>>

\* ensure(s): a new aggregate without a value gets one, others keep theirs.
Ensure(c, s) ==
  /\ pc[c] = "idle"
  /\ on' = [on EXCEPT ![c] = s]
  /\ IF slot[s] = Blank /\ s \in New
       THEN Plan(c, s) /\ UNCHANGED result
       ELSE /\ IF slot[s] \in Values
                 THEN Go(c, "done") /\ result' = [result EXCEPT ![c] = slot[s]]
                 ELSE Go(c, "failed") /\ UNCHANGED result
            /\ UNCHANGED <<day, attempt, crowded>>
  /\ UNCHANGED <<shared, crashes, slot, seen, code>>

\* allocate returned n, and format asks the provider for its current key.
Allocated(c, n) ==
  /\ seq' = [seq EXCEPT ![c] = n]
  /\ cand' = [cand EXCEPT ![c] = n]
  /\ \E k \in Keys \cup {NoKey} :
       /\ enc' = [enc EXCEPT ![c] = k]
       /\ Go(c, IF k = NoKey THEN "failed" ELSE "walk")
  /\ UNCHANGED trail

Rest == UNCHANGED <<store, crashes, aggregate, plan, result>>

\* The counter runs on past the end of the range.
CountOn(c) ==
  /\ pc[c] = "count"
  /\ level' = [level EXCEPT ![day[c]] = @ + 1]
  /\ Allocated(c, level[day[c]] + 1)
  /\ UNCHANGED <<used, loop>> /\ Rest

\* The allocator in memory, under its lock.
Count(c) ==
  /\ pc[c] = "count"
  /\ IF level[day[c]] + 1 > Maximum
       THEN Go(c, "exhausted") /\ UNCHANGED <<level, code>>
       ELSE /\ level' = [level EXCEPT ![day[c]] = @ + 1]
            /\ Allocated(c, level[day[c]] + 1)
  /\ UNCHANGED <<used, loop>> /\ Rest

AfterRead(l) == IF l = Absent THEN "insert" ELSE IF l >= Maximum THEN "exhausted" ELSE "update"
AfterReadEarly(l) == IF l = Absent THEN "insert" ELSE IF l + 1 >= Maximum THEN "exhausted" ELSE "update"

\* The end of the range is taken for that of the counter, which is one ahead.
ReadEarly(c) ==
  /\ pc[c] = "read"
  /\ seen' = [seen EXCEPT ![c] = level[day[c]]]
  /\ Go(c, AfterReadEarly(level[day[c]]))
  /\ UNCHANGED <<level, used, attempt, code>> /\ Rest

Read(c) ==
  /\ pc[c] = "read"
  /\ seen' = [seen EXCEPT ![c] = level[day[c]]]
  /\ Go(c, AfterRead(level[day[c]]))
  /\ UNCHANGED <<level, used, attempt, code>> /\ Rest

Retry(c) ==
  IF attempt[c] < MaxAttempts
    THEN Go(c, "read") /\ attempt' = [attempt EXCEPT ![c] = @ + 1]
    ELSE Go(c, "contended") /\ UNCHANGED attempt

\* A statement of c took effect and made l the level of its day.
Took(c, l) == level' = [level EXCEPT ![day[c]] = l]
Lost(c) == used' = [used EXCEPT ![day[c]] = @ + 1]

\* The first row of the day: inserted, met, or inserted with the answer lost.
Insert(c) ==
  /\ pc[c] = "insert"
  /\ \/ level[day[c]] = Absent /\ Took(c, 0) /\ Allocated(c, 0) /\ UNCHANGED used
     \/ level[day[c]] # Absent /\ Go(c, "recheck") /\ UNCHANGED <<level, used, code>>
     \/ level[day[c]] = Absent /\ Took(c, 0) /\ Lost(c) /\ Go(c, "recheck") /\ UNCHANGED code
  /\ UNCHANGED loop /\ Rest

\* After an insert that raised: there is a row now, or the error stands.
Recheck(c) ==
  /\ pc[c] = "recheck"
  /\ IF level[day[c]] = Absent THEN Go(c, "failed") /\ UNCHANGED attempt ELSE Retry(c)
  /\ UNCHANGED <<level, used, seen, code>> /\ Rest

\* The number is written without asking whether it is still the next one.
UpdateBlindly(c) ==
  /\ pc[c] = "update"
  /\ Took(c, seen[c] + 1) /\ Allocated(c, seen[c] + 1)
  /\ UNCHANGED <<used, loop>> /\ Rest

\* The next number: taken, lost to another call, or taken with the answer lost.
Update(c) ==
  /\ pc[c] = "update"
  /\ \/ /\ level[day[c]] = seen[c]
        /\ Took(c, seen[c] + 1) /\ Allocated(c, seen[c] + 1)
        /\ UNCHANGED <<used, attempt>>
     \/ level[day[c]] # seen[c] /\ Retry(c) /\ UNCHANGED <<level, used, code>>
     \/ /\ level[day[c]] = seen[c]
        /\ Took(c, seen[c] + 1) /\ Lost(c) /\ Go(c, "failed")
        /\ UNCHANGED <<attempt, code>>
  /\ UNCHANGED seen /\ Rest

\* A statement raises without effect.
Raise(c) ==
  /\ pc[c] \in Statements
  /\ Go(c, IF pc[c] = "insert" THEN "recheck" ELSE "failed")
  /\ UNCHANGED <<level, used, loop, code>> /\ Rest

\* The task is cancelled at an await; no handler of allocate sees it.
Cancel(c) ==
  /\ pc[c] \in Statements \cup {"count"}
  /\ Go(c, "failed")
  /\ UNCHANGED <<level, used, loop, code>> /\ Rest

\* The permutation is applied until it stays in the domain; the slot then gets
\* the value, whatever it holds by now.
Walk(c) ==
  /\ pc[c] = "walk"
  /\ LET next == Permute(Tweak(c), cand[c]) IN
       /\ cand' = [cand EXCEPT ![c] = next]
       /\ trail' = [trail EXCEPT ![c] = @ \cup {next}]
       /\ IF next < Domain
            THEN /\ Go(c, "done")
                 /\ result' = [result EXCEPT ![c] = <<day[c], next>>]
                 /\ slot' = [slot EXCEPT ![on[c]] = <<day[c], next>>]
            ELSE UNCHANGED <<pc, result, slot>>
  /\ UNCHANGED <<shared, crashes, crowded, plan, loop, seq, enc>>

-----------------------------------------------------------------------------
Step(c) == Count(c) \/ Read(c) \/ Insert(c) \/ Recheck(c) \/ Update(c) \/ Walk(c)

Next ==
  \/ \E c \in Calls : (\E s \in Slots : Ensure(c, s)) \/ Step(c) \/ Raise(c) \/ Cancel(c)
  \/ Crash

Spec == Init /\ [][Next]_vars

-----------------------------------------------------------------------------
Ended == {"done", "failed", "exhausted", "contended", "dead"}

TypeOK ==
  /\ store \in {"memory", "sql"} /\ level \in [Days -> Absent .. Maximum]
  /\ used \in [Days -> Nat]
  /\ crashes \in 0 .. MaxCrashes
  /\ slot \in [Slots -> Values \cup {Blank, Malformed}]
  /\ crowded \subseteq Slots
  /\ pc \in [Calls -> {"idle", "count", "walk"} \cup Statements \cup Ended]
  /\ on \in [Calls -> Slots \cup {Blank}] /\ day \in [Calls -> Days]
  /\ seen \in [Calls -> Absent .. Maximum] /\ attempt \in [Calls -> 0 .. MaxAttempts]
  /\ seq \in [Calls -> Absent .. Maximum] /\ enc \in [Calls -> Keys \cup {NoKey}]
  /\ cand \in [Calls -> Words] /\ trail \in [Calls -> SUBSET Words]
  /\ result \in [Calls -> Values \cup {Blank}]

\* Call c made the value it returned; others returned what the slot held.
Made(c) == pc[c] = "done" /\ seq[c] # Absent

\* Numbers survive restarts, or there were none.
Durable == store = "sql" \/ crashes = 0

\* Two calls that make a value on one day with one key make different values,
\* whatever statements interleave, raise and are repeated, and whatever the keyed
\* digest is (allocate, encode_business_id_permutation_v1).
UniqueIds ==
  Durable => \A c, d \in Calls :
    c # d /\ Made(c) /\ Made(d) /\ Tweak(c) = Tweak(d) => result[c] # result[d]

\* A call is told that the range of a day is exhausted only when every number went
\* to a call or was lost in a failure; both allocators end at the same number.
RangeHonest ==
  Durable => \A c \in Calls : pc[c] = "exhausted" =>
    used[day[c]] + Cardinality({d \in Calls : seq[d] # Absent /\ day[d] = day[c]}) = Domain

\* Calls that come one after the other to a slot all return the value it has: a
\* retry neither takes another number nor changes the aggregate (ensure).
RetrySafe ==
  \A c \in Calls :
    pc[c] = "done" /\ on[c] \notin crowded => slot[on[c]] = result[c]

\* The next candidate of a walk is none of those before it, so the loop of encode meets
\* the domain before it has seen every number beyond it, and ends (the while loop of
\* encode_business_id_permutation_v1, over _permute32).
WalkMovesOn ==
  \A c \in Calls : pc[c] = "walk" => Permute(Tweak(c), cand[c]) \notin trail[c]
=============================================================================
