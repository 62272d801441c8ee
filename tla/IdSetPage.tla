----------------------------- MODULE IdSetPage -----------------------------
(***************************************************************************)
(* Pages of a query served from a retained set of IDs: the store of        *)
(* retained sets (InMemoryIdSetStore), the build of a missing set under a  *)
(* lock of its own (_prepare_id_set_page), and the page query that checks  *)
(* the retained IDs against the table (_query).                            *)
(*                                                                         *)
(* Callers are tasks of event loops that share one store.  A key stands    *)
(* for everything _id_set_query_key hashes: callers with one key have the  *)
(* same filter, order and user.  A lock is named by the caller who made    *)
(* it, since a caller makes at most one.  Time is abstract: a retained set *)
(* may expire at any moment, and lifetimes differ between callers.         *)
(***************************************************************************)
EXTENDS Integers, Sequences, FiniteSets, SequencesExt

CONSTANTS
  Callers,     \* queries with an id-set, one page each
  Loops,       \* event loops, each in a thread of its own
  Keys,        \* distinct queries
  Queries,     \* what callers may ask: a key, an offset, and the loop they run in
  Rows,        \* IDs the table may hold, in the order of the query
  Limit,       \* page size
  MaxIds,      \* max_ids of the id-set options
  MaxEntries,  \* max_entries of the store
  MaxSize,     \* max_bytes of the store, in IDs
  MaxChanges,  \* bound on the changes of the table
  None         \* no lock, no set, nobody

ASSUME RowsAssumption == Rows \subseteq Int /\ IsFiniteSet(Rows)
ASSUME PagingAssumption ==
  /\ Queries \subseteq [key : Keys, loop : Loops, offset : Nat]
  /\ {Limit, MaxIds, MaxEntries, MaxSize} \subseteq Nat \ {0} /\ MaxChanges \in Nat
ASSUME NoneAssumption == None \notin Callers \cup Queries \cup Seq(Rows)

VARIABLES
  rows,      \* rows the query selects now
  changes,   \* changes of the table so far
  store,     \* store[k]: the retained IDs of k, or None
  expired,   \* keys whose retained set has expired and is still there
  lost,      \* keys of which the store lost a set, by expiry or eviction
  registry,  \* registry[l][k]: _id_set_build_locks, a lock or None
  holder,    \* holder[m]: who holds lock m
  waiters,   \* waiters[m]: who waits for lock m, in order
  left,      \* loops and keys whose lock a caller left behind when it gave up
  pc,        \* pc[c]: where caller c stands
  asked,     \* asked[c]: the query of c, while it runs
  lock,      \* lock[c]: the lock caller c uses
  ids,       \* ids[c]: the retained set caller c collected or found
  reply,     \* the page this step returned and its caller, None for other steps
  present,   \* present[c]: rows selected all the time since the call
  absent     \* absent[c]: rows not selected at any time since the call

table == <<rows, changes>>
retained == <<store, expired, lost>>
locks == <<registry, holder, waiters, left>>
callers == <<pc, asked, lock, ids>>
history == <<present, absent>>
vars == <<table, retained, locks, callers, reply, history>>

-----------------------------------------------------------------------------
InOrder(S) ==
  CHOOSE s \in [1 .. Cardinality(S) -> S] : \A i, j \in 1 .. Cardinality(S) : i < j => s[i] < s[j]
Window(s, offset) == SubSeq(s, offset + 1, IF offset + Limit < Len(s) THEN offset + Limit ELSE Len(s))

Stored == {k \in Keys : store[k] # None}
Size(K) == Cardinality(UNION {{k} \X DOMAIN store[k] : k \in K})

\* A store that holds the sets of K has room for one of n IDs.
RoomForOne(K) == K = {} \/ Cardinality(K) < MaxEntries
Room(K, n) == K = {} \/ (Cardinality(K) < MaxEntries /\ Size(K) + n <= MaxSize)

Init ==
  /\ rows \in SUBSET Rows /\ changes = 0
  /\ store = [k \in Keys |-> None] /\ expired = {} /\ lost = {}
  /\ registry = [l \in Loops |-> [k \in Keys |-> None]] /\ left = {}
  /\ holder = [m \in Callers |-> None] /\ waiters = [m \in Callers |-> <<>>]
  /\ pc = [c \in Callers |-> "idle"] /\ asked = [c \in Callers |-> None]
  /\ lock = [c \in Callers |-> None] /\ ids = [c \in Callers |-> <<>>]
  /\ reply = None
  /\ present = [c \in Callers |-> {}] /\ absent = [c \in Callers |-> {}]

Go(c, to) == pc' = [pc EXCEPT ![c] = to] /\ reply' = None

-----------------------------------------------------------------------------
(* The table changes, and retained sets expire *)

Insert(r) ==
  /\ changes < MaxChanges /\ r \notin rows
  /\ changes' = changes + 1
  /\ rows' = rows \cup {r}
  /\ absent' = [c \in Callers |-> absent[c] \ {r}]
  /\ reply' = None
  /\ UNCHANGED <<present, retained, locks, callers>>

Delete(r) ==
  /\ changes < MaxChanges /\ r \in rows
  /\ changes' = changes + 1
  /\ rows' = rows \ {r}
  /\ present' = [c \in Callers |-> present[c] \ {r}]
  /\ reply' = None
  /\ UNCHANGED <<absent, retained, locks, callers>>

Expire(k) ==
  /\ k \in Stored \ expired
  /\ expired' = expired \cup {k}
  /\ lost' = lost \cup {k}
  /\ reply' = None
  /\ UNCHANGED <<store, table, history, locks, callers>>

-----------------------------------------------------------------------------
(* The store *)

\* get(k) finds a set; an expired one is thrown away instead.
Found(k) == k \in Stored \ expired
Swept(k) ==
  /\ store' = IF k \in expired THEN [store EXCEPT ![k] = None] ELSE store
  /\ expired' = expired \ {k}
  /\ UNCHANGED lost

\* put(k, s): the sets that expire first make room.
PutWithin(roomy, k, s) ==
  /\ Len(s) <= MaxSize
  /\ \E K \in roomy :
       /\ K = Stored \/ \E e \in Stored \ K : K \cup {e} \notin roomy
       /\ K \cap expired # {} => Stored \ K \subseteq expired
       /\ store' = [j \in Keys |-> IF j = k THEN s ELSE IF j \in K THEN store[j] ELSE None]
       /\ expired' = (expired \cap K) \ {k}
       /\ lost' = lost \cup (Stored \ (K \cup {k}))

PutUnweighed(k, s) == PutWithin({K \in SUBSET Stored : RoomForOne(K)}, k, s)
Put(k, s) == PutWithin({K \in SUBSET Stored : Room(K, Len(s))}, k, s)

-----------------------------------------------------------------------------
(* The locks *)

\* A lock of its own for everybody.
TakeOwnLock(c, q) ==
  /\ registry' = [registry EXCEPT ![q.loop][q.key] = c]
  /\ lock' = [lock EXCEPT ![c] = c]
  /\ holder' = [holder EXCEPT ![c] = c]
  /\ UNCHANGED <<waiters, left>>
  /\ Go(c, "locked")

\* setdefault, and acquire if the lock is free and nobody waits for it.
TakeLock(c, q) ==
  LET m == IF registry[q.loop][q.key] = None THEN c ELSE registry[q.loop][q.key] IN
  /\ registry' = [registry EXCEPT ![q.loop][q.key] = m]
  /\ lock' = [lock EXCEPT ![c] = m]
  /\ IF holder[m] = None /\ waiters[m] = <<>>
       THEN holder' = [holder EXCEPT ![m] = c] /\ UNCHANGED waiters /\ Go(c, "locked")
       ELSE waiters' = [waiters EXCEPT ![m] = Append(@, c)] /\ UNCHANGED holder /\ Go(c, "waiting")
  /\ UNCHANGED left

Here(c) == <<asked[c].loop, asked[c].key>>
Release(c) ==
  /\ holder' = [holder EXCEPT ![lock[c]] = None]
  /\ lock' = [lock EXCEPT ![c] = None]
  /\ UNCHANGED waiters

\* After the release nobody holds the lock, even if somebody waits for it: the
\* registered lock is dropped, whichever it is.
ReleaseAndForget(c) ==
  /\ Release(c)
  /\ registry' = [registry EXCEPT ![asked[c].loop][asked[c].key] = None]
  /\ left' = left \ {Here(c)}

\* A caller that gives up returns from within the lock, and nothing is dropped.
ReleaseOnly(c) ==
  /\ Release(c)
  /\ left' = left \cup {Here(c)}
  /\ UNCHANGED registry

-----------------------------------------------------------------------------
(* A query *)

\* The first look into the store, which may be unavailable.
Look(c, q) ==
  /\ pc[c] = "idle"
  /\ asked' = [asked EXCEPT ![c] = q]
  /\ present' = [present EXCEPT ![c] = rows]
  /\ absent' = [absent EXCEPT ![c] = Rows \ rows]
  /\ \/ /\ Swept(q.key)
        /\ IF Found(q.key)
             THEN Go(c, "page") /\ ids' = [ids EXCEPT ![c] = store[q.key]] /\ UNCHANGED <<lock, locks>>
             ELSE TakeLock(c, q) /\ UNCHANGED ids
     \/ Go(c, "plain") /\ UNCHANGED <<retained, locks, lock, ids>>
  /\ UNCHANGED table

Acquire(c) ==
  /\ pc[c] = "waiting"
  /\ holder[lock[c]] = None /\ Head(waiters[lock[c]]) = c
  /\ holder' = [holder EXCEPT ![lock[c]] = c]
  /\ waiters' = [waiters EXCEPT ![lock[c]] = Tail(@)]
  /\ Go(c, "locked")
  /\ UNCHANGED <<table, history, retained, registry, left, asked, lock, ids>>

\* The second look, with the lock.
Recheck(c) ==
  /\ pc[c] = "locked"
  /\ \/ /\ Swept(asked[c].key)
        /\ IF Found(asked[c].key)
             THEN /\ ids' = [ids EXCEPT ![c] = store[asked[c].key]]
                  /\ Go(c, "page") /\ ReleaseAndForget(c)
             ELSE Go(c, "building") /\ UNCHANGED <<ids, lock, locks>>
     \/ Go(c, "plain") /\ ReleaseOnly(c) /\ UNCHANGED <<retained, ids>>
  /\ UNCHANGED <<table, history, asked>>

\* The IDs are selected, one more than allowed to see that there are too many.
Collect(c) ==
  /\ pc[c] = "building"
  /\ IF Cardinality(rows) > MaxIds
       THEN Go(c, "plain") /\ ReleaseOnly(c) /\ UNCHANGED ids
       ELSE Go(c, "putting") /\ ids' = [ids EXCEPT ![c] = InOrder(rows)] /\ UNCHANGED <<lock, locks>>
  /\ UNCHANGED <<table, history, retained, asked>>

\* The set is kept for others, if the store takes it.
Retain(c) ==
  /\ pc[c] = "putting"
  /\ \/ Put(asked[c].key, ids[c]) /\ Go(c, "page") /\ ReleaseAndForget(c)
     \/ Go(c, "plain") /\ ReleaseOnly(c) /\ UNCHANGED retained
  /\ UNCHANGED <<table, history, asked, ids>>

\* The query returns a page or raises, and nothing is left of it.
End(c, how, answer) ==
  /\ pc' = [pc EXCEPT ![c] = how]
  /\ reply' = answer
  /\ asked' = [asked EXCEPT ![c] = None]
  /\ ids' = [ids EXCEPT ![c] = <<>>]
  /\ present' = [present EXCEPT ![c] = {}] /\ absent' = [absent EXCEPT ![c] = {}]
  /\ UNCHANGED table

Page(c, s) == [by |-> c, rows |-> s]

\* Those of s that are selected now, in the order of s.
Verified(s) ==
  LET places == InOrder({i \in DOMAIN s : s[i] \in rows})
  IN  [j \in DOMAIN places |-> s[places[j]]]

\* The retained IDs are trusted.
ServeUnchecked(c) ==
  /\ pc[c] = "page"
  /\ End(c, "done", Page(c, Window(ids[c], asked[c].offset)))
  /\ UNCHANGED <<retained, lock, locks>>

\* The IDs of the page are queried with the query's own filter, and the rows
\* put back into the retained order; a page past the end queries nothing.
Serve(c) ==
  /\ pc[c] = "page"
  /\ End(c, "done", Page(c, Verified(Window(ids[c], asked[c].offset))))
  /\ UNCHANGED <<retained, lock, locks>>

\* Without an id-set the page is a query with offset and limit.
ServePlain(c) ==
  /\ pc[c] = "plain"
  /\ End(c, "done", Page(c, Window(InOrder(rows), asked[c].offset)))
  /\ UNCHANGED <<retained, lock, locks>>

\* A caller that is cancelled while it waits leaves the queue.
LeaveQueue(c) ==
  /\ \E i \in DOMAIN waiters[lock[c]] :
       /\ waiters[lock[c]][i] = c
       /\ waiters' = [waiters EXCEPT ![lock[c]] = RemoveAt(@, i)]
  /\ lock' = [lock EXCEPT ![c] = None]
  /\ UNCHANGED <<registry, holder, left>>

\* A statement fails, or the query is cancelled, and the lock is kept.
FailHolding(c) ==
  /\ End(c, "failed", None)
  /\ \/ pc[c] = "building" /\ lock' = [lock EXCEPT ![c] = None] /\ UNCHANGED locks
     \/ pc[c] = "waiting" /\ LeaveQueue(c)
     \/ pc[c] \in {"page", "plain"} /\ UNCHANGED <<lock, locks>>
  /\ UNCHANGED retained

\* A statement fails, or the query is cancelled.
Fail(c) ==
  /\ End(c, "failed", None)
  /\ \/ pc[c] = "building" /\ ReleaseOnly(c)
     \/ pc[c] = "waiting" /\ LeaveQueue(c)
     \/ pc[c] \in {"page", "plain"} /\ UNCHANGED <<lock, locks>>
  /\ UNCHANGED retained

-----------------------------------------------------------------------------
Advance(c) ==
  Acquire(c) \/ Recheck(c) \/ Collect(c) \/ Retain(c) \/ Serve(c) \/ ServePlain(c)

Next ==
  \/ \E r \in Rows : Insert(r) \/ Delete(r)
  \/ \E k \in Keys : Expire(k)
  \/ \E c \in Callers : (\E q \in Queries : Look(c, q)) \/ Advance(c) \/ Fail(c)

Spec == Init /\ [][Next]_vars

-----------------------------------------------------------------------------
TypeOK ==
  /\ rows \subseteq Rows /\ changes \in 0 .. MaxChanges
  /\ \A k \in Keys : store[k] = None \/ (ToSet(store[k]) \subseteq Rows /\ IsInjective(store[k])
                                          /\ Len(store[k]) <= MaxIds)
  /\ expired \subseteq Stored /\ lost \subseteq Keys
  /\ registry \in [Loops -> [Keys -> Callers \cup {None}]] /\ left \subseteq Loops \X Keys
  /\ holder \in [Callers -> Callers \cup {None}]
  /\ \A m \in Callers : ToSet(waiters[m]) \subseteq Callers /\ IsInjective(waiters[m])
  /\ pc \in [Callers -> {"idle", "waiting", "locked", "building", "putting", "page", "plain",
                         "done", "failed"}]
  /\ asked \in [Callers -> Queries \cup {None}]
  /\ lock \in [Callers -> Callers \cup {None}]
  /\ \A c \in Callers : Len(ids[c]) <= MaxIds
  /\ reply # None => reply.by \in Callers

\* The state is well typed and the store never over its limits of entries and of memory (put).
StoreWithinLimits == TypeOK /\ Cardinality(Stored) <= MaxEntries /\ Size(Stored) <= MaxSize

Building(c) == pc[c] \in {"building", "putting"}

\* Callers of one loop and one key build the set one after the other, unless the
\* store lost a set meanwhile: then a lock dropped while somebody waits for it lets
\* a newcomer make another one (_id_set_build_locks).
SingleFlight ==
  \A c, d \in Callers :
    c # d /\ Building(c) /\ Building(d) /\ Here(c) = Here(d) => asked[c].key \in lost

\* A registered lock has a caller that still uses it, or one that gave up left it:
\* locks do not pile up for each query made.
RegistryReleased ==
  \A l \in Loops, k \in Keys :
    registry[l][k] = None \/ <<l, k>> \in left \/ \E c \in Callers : lock[c] = registry[l][k]

\* The locks of builds do both: they let one caller build at a time, and go when
\* nobody uses them, whoever fails, is cancelled or comes late (_id_set_build_locks).
BuildLocksSound == SingleFlight /\ RegistryReleased

\* A page, also from a retained set however old, is within the limit and holds none of
\* the rows that were gone before the call; from a retained set it holds all rows of
\* its window that stayed (_query).
PageTruthful ==
  [][\A c \in Callers : pc[c] \in {"page", "plain"} /\ pc'[c] = "done" =>
       /\ Len(reply'.rows) <= Limit
       /\ ToSet(reply'.rows) \cap absent[c] = {}
       /\ pc[c] = "page" =>
            ToSet(Window(ids[c], asked[c].offset)) \cap present[c] \subseteq ToSet(reply'.rows)]_vars

\* Whoever waits for a lock is in its queue, and the lock is free or its holder is
\* still at work: no failed or cancelled build blocks those behind it (async with lock).
NobodyStuck ==
  \A c \in Callers : pc[c] = "waiting" =>
    /\ \E i \in DOMAIN waiters[lock[c]] : waiters[lock[c]][i] = c
    /\ \A h \in Callers : holder[lock[c]] = h =>
         lock[h] = lock[c] /\ pc[h] \in {"locked", "building", "putting"}
=============================================================================
