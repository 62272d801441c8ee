------------------------- MODULE EntityLedgerProofs -------------------------
(***************************************************************************)
(* Theorems about the ledgers of EntitySave and their proofs: a save that  *)
(* committed wrote every change of its graph, and between saves the ledger *)
(* of an object holds exactly what the object shows and the database does  *)
(* not.                                                                    *)
(*                                                                         *)
(* LInv says what the ledgers, the objects and the calls of save have of   *)
(* one another, TInv where their values come from; they rest on the        *)
(* invariants IInv and VInv of EntitySaveProofs.                           *)
(***************************************************************************)
EXTENDS EntitySaveProofs

-----------------------------------------------------------------------------
(* Ledgers: what is in the ledger of an object at its key comes from that    *)
(* object alone, as long as no other object of the ledger has the key        *)

LedgerFields == {"changes", "orig", "new", "deleted"}
IsLedger(l) == DOMAIN l = LedgerFields
LedgersOK(led) == DOMAIN led = Objects /\ \A r \in Objects : IsLedger(led[r])

\* l and m say the same of k.
SameAt(l, m, k) ==
  /\ (k \in l.new) <=> (k \in m.new)
  /\ (k \in l.deleted) <=> (k \in m.deleted)
  /\ (k \in DOMAIN l.changes) <=> (k \in DOMAIN m.changes)
  /\ (k \in DOMAIN l.orig) <=> (k \in DOMAIN m.orig)
  /\ k \in DOMAIN l.changes => m.changes[k] = l.changes[k]
  /\ k \in DOMAIN l.orig => m.orig[k] = l.orig[k]
Mentions(l, k) == HasPending(l, k) \/ k \in DOMAIN l.orig

\* No other object has the key and the root of h.
Alone(h, obj) == \A g \in Objects \ {h} : ~ (obj[g].key = obj[h].key /\ obj[g].root = obj[h].root)
Untouched(h, obj, con) == con[h] = {} /\ Alone(h, obj)

\* Call c waits for the ID of h.
Waits(c, h) == c.pc = "allocate" /\ Head(c.todo) = h

\* An object whose key another one claims has no other key, nor gets one; a
\* temporary key is that of one object.
KeysInv(obj, sv) ==
  /\ \A h \in Objects : \A k : Claims(h, k, obj, sv) => k \in Ids \cup {h}
  /\ \A g, h \in Objects : \A k : g # h /\ Claims(g, k, obj, sv) /\ Claims(h, k, obj, sv) =>
       /\ \A j : Claims(h, j, obj, sv) => j = k
       /\ \A s \in Savers : ~Waits(sv[s], h)

\* The owner of a list is in none, and an object is in at most one.
LevelsInv ==
  \A g, h \in Objects : g \in Range(items[h]) =>
    items[g] = <<>> /\ \A f \in Objects : g \in Range(items[f]) => f = h

\* An object is in its own ledger or in that of its owner.
RootsInv(obj) ==
  \A h \in Objects : obj[h].root = h \/ (obj[h].root \in Objects /\ h \in Range(items[obj[h].root]))

\* Who overlapped with a save of the owner did so with one of its list.
MarksInv(con) ==
  \A o \in Objects : \A h \in Range(items[o]) : con[o] \cap {"saved", "crossed"} \subseteq con[h]

\* A call saves the graph of an object, and has attached it for its work.
GraphInv(c, obj) ==
  /\ c.graph = <<>> \/ \E h \in Objects : c.graph = Graph(h)
  /\ c.pc # "idle" => c.graph # <<>>
  /\ c.pc \in {"write", "commit", "settle"} =>
       \A h \in Range(c.graph) : obj[h].root = obj[Head(c.graph)].root
  /\ c.pc = "write" /\ Head(c.graph) \in Range(c.todo) => c.todo = c.graph
  /\ \A w \in Range(c.written) : w = <<w[1], w[2]>>

\* What a ledger in use says of a claimed key comes from an object of it.
SupportInv(obj, led, sv, n) ==
  \A r \in Objects : \A k : obj[r].root = r /\ Mentions(led[r], k) =>
    /\ Known(k, n)
    /\ (\E h \in Objects : Claims(h, k, obj, sv)) =>
         \E g \in Objects : obj[g].root = r /\ Claims(g, k, obj, sv)

\* Ledger l holds what o shows and the database, which has snap, does not.
Changed(o, snap) == o.val \notin (IF snap = {} THEN {0} ELSE snap)
Faithful(o, l, snap, bk) ==
  /\ OriginalVersion(l, o.key) = o.ver
  /\ o.action = "Create" => o.key \in l.new
  /\ o.action = "Update" =>
       /\ o.key \notin l.new \cup l.deleted
       /\ o.key \in DOMAIN l.changes => Changed(o, snap)
       /\ Changed(o, snap) => Holding(Fields(l, o.key), o.val)
  /\ o.action = "Delete" => o.key \in l.deleted \cup bk \/ \E v \in o.ver : v < 0

\* The ledger of an object is faithful, and once the object is written it is
\* faithful to what the object was before.
FaithInv(h, obj, led, snap, bk, sv, con) ==
  Untouched(h, obj, con) =>
    /\ (\A s \in Savers : ~Wrote(sv[s], h)) => Faithful(obj[h], led[obj[h].root], snap[h], bk)
    /\ \A s \in Savers : \A e \in Range(sv[s].old) :
         e[1] = h => Faithful(e[2], led[obj[h].root], e[3], bk)

\* An object that was written shows its row, and no more is pending for it than
\* was written.
ShowsInv(c, h, obj, led, bk, con) ==
  c.pc \in {"write", "commit", "settle"} /\ con[h] = {} /\ Wrote(c, h) =>
    /\ obj[h].action \in {"Update", "Delete"} /\ \E v \in Int : obj[h].ver = {v}
    /\ obj[h].action = "Delete" => obj[h].key \in bk \cup c.back \/ \E v \in obj[h].ver : v < 0
    /\ <<h, obj[h].key>> \in Range(c.written)
    /\ \A w \in Range(c.written) : w[1] = h => w[2] = obj[h].key
    /\ Alone(h, obj) /\ obj[h].action # "Delete" =>
         LET fields == Fields(led[obj[h].root], obj[h].key)
         IN  "val" \in DOMAIN fields => fields["val"] = obj[h].val

\* The command of h holds what is pending for it.
HoldsInv(c, h, obj, led, con) ==
  c.pc = "write" /\ h = Head(c.todo) /\ con[h] = {} =>
    /\ c.command.kind = obj[h].action /\ c.command.key = obj[h].key
    /\ c.command.kind = "Create" => "val" \in DOMAIN c.command.values
    /\ Alone(h, obj) /\ c.command.kind # "Delete" =>
         LET fields == Fields(led[obj[h].root], obj[h].key)
         IN  "val" \in DOMAIN fields =>
               "val" \in DOMAIN c.command.values /\ c.command.values["val"] = fields["val"]

\* What is pending is written or still to be written, unless the top is deleted.
PassedInv(c, h, obj, led, con) ==
  c.pc \in {"write", "commit", "settle"} /\ h \in Range(c.graph) /\ Untouched(h, obj, con)
    /\ HasPending(led[obj[h].root], obj[h].key) =>
       \/ Wrote(c, h)
       \/ c.pc = "write" /\ h \in Range(c.todo)
       \/ obj[Head(c.graph)].action = "Delete"

\* A call asks for the ID of a new object.
AsksInv(c, h, obj, con) ==
  Waits(c, h) /\ con[h] = {} => obj[h].action = "Create"

\* What call c has of object h.
OwnInv(c, h, obj, led, bk, con) ==
  /\ ShowsInv(c, h, obj, led, bk, con) /\ HoldsInv(c, h, obj, led, con)
  /\ PassedInv(c, h, obj, led, con) /\ AsksInv(c, h, obj, con)

LInv ==
  /\ LedgersOK(ledger) /\ KeysInv(object, save) /\ LevelsInv /\ RootsInv(object) /\ MarksInv(contested)
  /\ \A s \in Savers : GraphInv(save[s], object)
  /\ SupportInv(object, ledger, save, nextId)
  /\ \A h \in Objects : FaithInv(h, object, ledger, snapshot, backed, save, contested)
  /\ \A s \in Savers : \A h \in Objects : OwnInv(save[s], h, object, ledger, backed, contested)

\* m differs from l at keys in K at most.
Only(l, m, K) == IsLedger(m) /\ \A k : k \notin K => SameAt(l, m, k)

LEMMA SameSays ==
  ASSUME NEW l, NEW m, NEW k, SameAt(l, m, k)
  PROVE  /\ Fields(m, k) = Fields(l, k) /\ OriginalVersion(m, k) = OriginalVersion(l, k)
         /\ (HasPending(m, k) <=> HasPending(l, k)) /\ (Mentions(m, k) <=> Mentions(l, k))
         /\ SameAt(m, l, k)
<1>1. Fields(m, k) = Fields(l, k)
  BY DEF SameAt, Fields
<1>2. OriginalVersion(m, k) = OriginalVersion(l, k)
  BY DEF SameAt, OriginalVersion
<1>3. (HasPending(m, k) <=> HasPending(l, k)) /\ (Mentions(m, k) <=> Mentions(l, k))
  BY DEF SameAt, HasPending, Mentions
<1>4. SameAt(m, l, k)
  BY DEF SameAt
<1> QED BY <1>1, <1>2, <1>3, <1>4

LEMMA SameFaithful ==
  ASSUME NEW l, NEW m, NEW o, NEW snap, NEW bk, NEW bk2, SameAt(l, m, o.key), bk \subseteq bk2,
         Faithful(o, l, snap, bk)
  PROVE  Faithful(o, m, snap, bk2)
<1>1. Fields(m, o.key) = Fields(l, o.key) /\ OriginalVersion(m, o.key) = OriginalVersion(l, o.key)
  BY SameSays
<1> QED BY <1>1 DEF Faithful, SameAt

LEMMA OnlyTrans ==
  ASSUME NEW l, NEW m, NEW n, NEW K, NEW J, Only(l, m, K), Only(m, n, J)
  PROVE  Only(l, n, K \cup J)
BY DEF Only, SameAt

LEMMA OnlySelf ==
  ASSUME NEW l, NEW K, IsLedger(l)
  PROVE  Only(l, l, K)
BY DEF Only, SameAt

\* m is l with the fields in values set for k.
Sets(l, m, k, values) ==
  /\ Only(l, m, {k})
  /\ m.new = l.new /\ m.deleted = l.deleted /\ m.orig = l.orig
  /\ DOMAIN Fields(m, k) = DOMAIN Fields(l, k) \cup DOMAIN values
  /\ \A f \in DOMAIN values : Fields(m, k)[f] = values[f]
  /\ \A f \in DOMAIN Fields(l, k) \ DOMAIN values : Fields(m, k)[f] = Fields(l, k)[f]
  /\ DOMAIN values # {} => DOMAIN m.changes = DOMAIN l.changes \cup {k}
  /\ DOMAIN values = {} => m = l

LEMMA SetFieldsSays ==
  ASSUME NEW l, IsLedger(l), NEW k, NEW values
  PROVE  Sets(l, SetFields(l, k, values), k, values)
<1> DEFINE m == SetFields(l, k, values)
           fs == Updated(Fields(l, k), values)
<1>1. CASE DOMAIN values = {}
  <2>1. m = l
    BY <1>1 DEF SetFields
  <2> HIDE DEF m
  <2> QED BY <1>1, <2>1, OnlySelf DEF m, Sets
<1>2. CASE DOMAIN values # {}
  <2>1. m = [l EXCEPT !.changes = WithEntry(@, k, fs)]
    BY <1>2 DEF SetFields
  <2>2. /\ DOMAIN m = DOMAIN l /\ m.new = l.new /\ m.deleted = l.deleted /\ m.orig = l.orig
        /\ m.changes = WithEntry(l.changes, k, fs)
    <3> HIDE DEF fs
    <3> QED BY <2>1 DEF IsLedger, LedgerFields
  <2>3. /\ DOMAIN m.changes = DOMAIN l.changes \cup {k} /\ m.changes[k] = fs
        /\ \A j \in DOMAIN l.changes \ {k} : m.changes[j] = l.changes[j]
    <3> HIDE DEF fs, m
    <3> QED BY <2>2 DEF WithEntry, Updated
  <2>4. Fields(m, k) = fs
    <3> HIDE DEF fs, m
    <3> QED BY <2>3 DEF Fields
  <2>5. Only(l, m, {k})
    <3> HIDE DEF fs, m
    <3> QED BY <2>2, <2>3 DEF Only, SameAt, IsLedger
  <2>6. /\ DOMAIN fs = DOMAIN Fields(l, k) \cup DOMAIN values
        /\ \A f \in DOMAIN values : fs[f] = values[f]
        /\ \A f \in DOMAIN Fields(l, k) \ DOMAIN values : fs[f] = Fields(l, k)[f]
    BY DEF Updated
  <2> HIDE DEF fs, m
  <2> QED BY <1>2, <2>2, <2>3, <2>4, <2>5, <2>6 DEF m, Sets
<1> QED BY <1>1, <1>2

LEMMA DeletedSays ==
  ASSUME NEW l, IsLedger(l), NEW k
  PROVE  LET m == MarkAsDeleted(l, k)
         IN  /\ Only(l, m, {k})
             /\ m.new = l.new /\ k \in m.deleted /\ m.orig = l.orig /\ k \notin DOMAIN m.changes
<1> DEFINE m == MarkAsDeleted(l, k)
<1>1. /\ DOMAIN m = DOMAIN l /\ m.new = l.new /\ m.orig = l.orig /\ m.deleted = l.deleted \cup {k}
      /\ m.changes = Without(l.changes, k)
  BY DEF MarkAsDeleted, IsLedger, LedgerFields
<1> HIDE DEF m
<1>2. /\ DOMAIN m.changes = DOMAIN l.changes \ {k}
      /\ \A j \in DOMAIN l.changes \ {k} : m.changes[j] = l.changes[j]
  BY <1>1 DEF Without
<1>3. Only(l, m, {k})
  BY <1>1, <1>2 DEF Only, SameAt, IsLedger
<1> QED BY <1>1, <1>2, <1>3 DEF m

\* Merging what m has of k, which l does not mention.
Merges(l, m, n, k) ==
  /\ Only(l, n, {k})
  /\ Mentions(n, k) => Mentions(l, k) \/ Mentions(m, k)
  /\ ~ Mentions(l, k) =>
       /\ OriginalVersion(n, k) = OriginalVersion(m, k)
       /\ (k \in n.new <=> k \in m.new) /\ (k \in n.deleted <=> k \in m.deleted)
       /\ k \in DOMAIN n.changes => k \in DOMAIN m.changes
       /\ k \notin m.deleted =>
            /\ DOMAIN Fields(n, k) = DOMAIN Fields(m, k)
            /\ \A f \in DOMAIN Fields(m, k) : Fields(n, k)[f] = Fields(m, k)[f]

LEMMA MergeSays ==
  ASSUME NEW l, NEW m, IsLedger(l), IsLedger(m), NEW k
  PROVE  Merges(l, m, MergeEntity(l, m, k), k)
<1> DEFINE a == SetFields(l, k, Fields(m, k))
           orig == IF k \in DOMAIN m.orig THEN WithEntry(a.orig, k, m.orig[k]) ELSE a.orig
           new == a.new \cup ({k} \cap m.new)
           b == [a EXCEPT !.orig = orig, !.new = new]
           n == MergeEntity(l, m, k)
<1>1. /\ Only(l, a, {k})
      /\ a.new = l.new /\ a.deleted = l.deleted /\ a.orig = l.orig
      /\ DOMAIN Fields(a, k) = DOMAIN Fields(l, k) \cup DOMAIN Fields(m, k)
      /\ \A f \in DOMAIN Fields(m, k) : Fields(a, k)[f] = Fields(m, k)[f]
      /\ DOMAIN Fields(m, k) # {} => DOMAIN a.changes = DOMAIN l.changes \cup {k}
      /\ DOMAIN Fields(m, k) = {} => a = l
  <2>1. Sets(l, a, k, Fields(m, k))
    BY SetFieldsSays
  <2> HIDE DEF a
  <2> QED BY <2>1 DEF Sets
<1>2. n = IF k \in m.deleted THEN MarkAsDeleted(b, k) ELSE b
  BY DEF MergeEntity
<1> HIDE DEF a, n
<1>11. IsLedger(a)
  BY <1>1 DEF Only
<1>3. /\ DOMAIN b = DOMAIN a /\ b.changes = a.changes /\ b.deleted = a.deleted
      /\ b.orig = orig /\ b.new = new
  <2> HIDE DEF orig, new
  <2> QED BY <1>11 DEF IsLedger, LedgerFields
<1>4. /\ DOMAIN orig = DOMAIN l.orig \cup ({k} \cap DOMAIN m.orig)
      /\ \A j \in DOMAIN l.orig \ {k} : orig[j] = l.orig[j]
      /\ k \in DOMAIN m.orig => orig[k] = m.orig[k]
  <2>1. CASE k \in DOMAIN m.orig
    <3>1. orig = WithEntry(l.orig, k, m.orig[k])
      BY <1>1, <2>1
    <3>2. /\ DOMAIN orig = DOMAIN l.orig \cup {k} /\ orig[k] = m.orig[k]
          /\ \A j \in DOMAIN l.orig \ {k} : orig[j] = l.orig[j]
      <4> HIDE DEF orig
      <4> QED BY <3>1 DEF WithEntry, Updated
    <3> QED BY <2>1, <3>2
  <2>2. CASE k \notin DOMAIN m.orig
    BY <1>1, <2>2
  <2> QED BY <2>1, <2>2
<1> HIDE DEF b, orig
<1>5. Fields(b, k) = Fields(a, k) /\ IsLedger(b)
  BY <1>11, <1>3 DEF Fields, IsLedger
<1>6. Only(l, b, {k})
  BY <1>1, <1>3, <1>4 DEF Only, SameAt, IsLedger
<1>7. ~ Mentions(l, k) =>
        /\ OriginalVersion(b, k) = OriginalVersion(m, k)
        /\ (k \in b.new <=> k \in m.new) /\ k \notin b.deleted
        /\ k \in DOMAIN b.changes => k \in DOMAIN m.changes
        /\ DOMAIN Fields(b, k) = DOMAIN Fields(m, k)
        /\ \A f \in DOMAIN Fields(m, k) : Fields(b, k)[f] = Fields(m, k)[f]
  <2> SUFFICES ASSUME ~ Mentions(l, k)
               PROVE  /\ OriginalVersion(b, k) = OriginalVersion(m, k)
                      /\ (k \in b.new <=> k \in m.new) /\ k \notin b.deleted
                      /\ k \in DOMAIN b.changes => k \in DOMAIN m.changes
                      /\ DOMAIN Fields(b, k) = DOMAIN Fields(m, k)
                      /\ \A f \in DOMAIN Fields(m, k) : Fields(b, k)[f] = Fields(m, k)[f]
    OBVIOUS
  <2>1. k \notin l.new /\ k \notin l.deleted /\ k \notin DOMAIN l.changes /\ k \notin DOMAIN l.orig
    BY DEF Mentions, HasPending
  <2>2. DOMAIN Fields(l, k) = {}
    <3>1. DOMAIN <<>> = {}
      OBVIOUS
    <3> QED BY <2>1, <3>1 DEF Fields
  <2>3. OriginalVersion(b, k) = OriginalVersion(m, k)
    BY <1>3, <1>4, <2>1 DEF OriginalVersion
  <2>4. k \in DOMAIN b.changes => k \in DOMAIN m.changes
    <3>1. k \notin DOMAIN m.changes => DOMAIN Fields(m, k) = {}
      <4>1. DOMAIN <<>> = {}
        OBVIOUS
      <4> QED BY <4>1 DEF Fields
    <3> QED BY <1>1, <1>3, <2>1, <3>1
  <2> QED BY <1>1, <1>3, <1>5, <2>1, <2>2, <2>3, <2>4
<1>8. Mentions(b, k) => Mentions(l, k) \/ Mentions(m, k)
  <2>1. k \notin DOMAIN m.changes => DOMAIN Fields(m, k) = {}
    <3>1. DOMAIN <<>> = {}
      OBVIOUS
    <3> QED BY <3>1 DEF Fields
  <2> QED BY <1>1, <1>3, <1>4, <2>1 DEF Mentions, HasPending
<1>9. CASE k \notin m.deleted
  BY <1>2, <1>6, <1>7, <1>8, <1>9 DEF n, Merges
<1>10. CASE k \in m.deleted
  <2>1. n = MarkAsDeleted(b, k)
    BY <1>2, <1>10
  <2>2. /\ Only(b, n, {k}) /\ n.new = b.new /\ k \in n.deleted /\ n.orig = b.orig
    BY <1>5, <2>1, DeletedSays
  <2>3. Only(l, n, {k})
    BY <1>6, <2>2, OnlyTrans
  <2>4. OriginalVersion(n, k) = OriginalVersion(b, k) /\ Mentions(m, k)
    BY <1>10, <2>2 DEF OriginalVersion, Mentions, HasPending
  <2>5. k \notin DOMAIN n.changes
    BY <1>5, <2>1, DeletedSays
  <2> QED BY <1>7, <1>8, <1>10, <2>2, <2>3, <2>4, <2>5 DEF n, Merges
<1> QED BY <1>9, <1>10

\* m says of b what l says of a, but for the fields of what is deleted.
Tells(l, a, m, b) ==
  /\ OriginalVersion(m, b) = OriginalVersion(l, a)
  /\ (b \in m.new <=> a \in l.new) /\ (b \in m.deleted <=> a \in l.deleted)
  /\ a \notin l.deleted =>
       /\ "val" \in DOMAIN Fields(m, b) <=> "val" \in DOMAIN Fields(l, a)
       /\ "val" \in DOMAIN Fields(l, a) => Fields(m, b)["val"] = Fields(l, a)["val"]

\* It has changes of b only if l has changes of a.
Carries(l, a, m, b) == Tells(l, a, m, b) /\ (b \in DOMAIN m.changes => a \in DOMAIN l.changes)

LEMMA CarriesFaithful ==
  ASSUME NEW l, NEW m, NEW o, NEW p, NEW snap, NEW bk, Carries(l, o.key, m, p.key),
         p.ver = o.ver, p.val = o.val, p.action = o.action, o.key \in bk => p.key \in bk,
         Faithful(o, l, snap, bk)
  PROVE  Faithful(p, m, snap, bk)
<1>1. Changed(p, snap) <=> Changed(o, snap)
  BY DEF Changed
<1>2. OriginalVersion(m, p.key) = p.ver
  BY DEF Carries, Tells, Faithful
<1>3. p.action = "Create" => p.key \in m.new
  BY DEF Carries, Tells, Faithful
<1>4. ASSUME p.action = "Update"
      PROVE  /\ p.key \notin m.new \cup m.deleted
             /\ p.key \in DOMAIN m.changes => Changed(p, snap)
             /\ Changed(p, snap) => Holding(Fields(m, p.key), p.val)
  <2>1. /\ o.key \notin l.new /\ o.key \notin l.deleted
        /\ o.key \in DOMAIN l.changes => Changed(o, snap)
        /\ Changed(o, snap) => Holding(Fields(l, o.key), o.val)
    BY <1>4 DEF Faithful
  <2>2. /\ p.key \notin m.new /\ p.key \notin m.deleted
        /\ p.key \in DOMAIN m.changes => o.key \in DOMAIN l.changes
        /\ "val" \in DOMAIN Fields(m, p.key) <=> "val" \in DOMAIN Fields(l, o.key)
        /\ "val" \in DOMAIN Fields(l, o.key) => Fields(m, p.key)["val"] = Fields(l, o.key)["val"]
    BY <2>1 DEF Carries, Tells
  <2> QED BY <1>1, <2>1, <2>2 DEF Holding
<1>5. p.action = "Delete" => p.key \in m.deleted \cup bk \/ \E v \in p.ver : v < 0
  BY DEF Carries, Tells, Faithful
<1> QED BY <1>2, <1>3, <1>4, <1>5 DEF Faithful

LEMMA MergeCarries ==
  ASSUME NEW l, NEW m, IsLedger(l), IsLedger(m), NEW k, ~ Mentions(l, k)
  PROVE  Carries(m, k, MergeEntity(l, m, k), k)
<1> DEFINE n == MergeEntity(l, m, k)
<1>1. Merges(l, m, n, k)
  BY MergeSays
<1> HIDE DEF n
<1> QED BY <1>1 DEF n, Merges, Carries, Tells

\* n is l with what was pending for a pending for b.
Moved(l, n, a, b) ==
  /\ Only(l, n, {a, b})
  /\ Mentions(n, b) => Mentions(l, a) \/ Mentions(l, b)
  /\ Mentions(n, a) => Mentions(l, a)
  /\ a = b => n = l
  /\ ~ Mentions(l, b) => Carries(l, a, n, b)

LEMMA RekeySays ==
  ASSUME NEW l, IsLedger(l), NEW a, NEW b
  PROVE  Moved(l, Rekey(l, a, b), a, b)
<1>1. CASE a = b
  <2>1. Rekey(l, a, b) = l
    BY <1>1 DEF Rekey
  <2> QED BY <1>1, <2>1, OnlySelf DEF Moved, Carries, Tells
<1>2. CASE a # b
  <2> DEFINE d == [l EXCEPT !.changes = Without(@, a)]
             e == SetFields(d, b, Fields(l, a))
             orig == IF a \in DOMAIN e.orig THEN WithEntry(Without(e.orig, a), b, e.orig[a]) ELSE e.orig
             new == IF a \in e.new THEN (e.new \ {a}) \cup {b} ELSE e.new
             deleted == IF a \in e.deleted THEN (e.deleted \ {a}) \cup {b} ELSE e.deleted
             n == Rekey(l, a, b)
  <2>1. /\ IsLedger(d) /\ d.new = l.new /\ d.deleted = l.deleted /\ d.orig = l.orig
        /\ d.changes = Without(l.changes, a)
    BY DEF IsLedger, LedgerFields
  <2>2. /\ DOMAIN d.changes = DOMAIN l.changes \ {a}
        /\ \A j \in DOMAIN l.changes \ {a} : d.changes[j] = l.changes[j]
    <3> HIDE DEF d
    <3> QED BY <2>1 DEF Without
  <2>3. Sets(d, e, b, Fields(l, a))
    <3> HIDE DEF d
    <3> QED BY <2>1, SetFieldsSays
  <2>4. n = [e EXCEPT !.orig = orig, !.new = new, !.deleted = deleted]
    BY <1>2 DEF Rekey
  <2> HIDE DEF d, e, n
  <2>5. /\ Only(d, e, {b}) /\ IsLedger(e) /\ e.new = l.new /\ e.deleted = l.deleted /\ e.orig = l.orig
    BY <2>1, <2>3 DEF Sets, Only
  <2>6. /\ IsLedger(n) /\ n.changes = e.changes
        /\ n.orig = orig /\ n.new = new /\ n.deleted = deleted
    <3> HIDE DEF orig, new, deleted
    <3> QED BY <2>4, <2>5 DEF IsLedger, LedgerFields
  <2>7. /\ DOMAIN orig = IF a \in DOMAIN l.orig THEN (DOMAIN l.orig \ {a}) \cup {b} ELSE DOMAIN l.orig
        /\ a \in DOMAIN l.orig => orig[b] = l.orig[a]
        /\ \A j \in DOMAIN l.orig \ {a, b} : orig[j] = l.orig[j]
    <3>1. CASE a \in DOMAIN l.orig
      <4>1. orig = WithEntry(Without(l.orig, a), b, l.orig[a])
        BY <2>5, <3>1
      <4> HIDE DEF orig
      <4> QED BY <3>1, <4>1 DEF WithEntry, Updated, Without
    <3>2. CASE a \notin DOMAIN l.orig
      BY <2>5, <3>2
    <3> QED BY <3>1, <3>2
  <2>8. new = (IF a \in l.new THEN (l.new \ {a}) \cup {b} ELSE l.new)
        /\ deleted = (IF a \in l.deleted THEN (l.deleted \ {a}) \cup {b} ELSE l.deleted)
    BY <2>5
  <2> HIDE DEF orig, new, deleted
  <2>9. \A j : j \notin {a, b} => SameAt(l, n, j)
    <3> SUFFICES ASSUME NEW j, j \notin {a, b} PROVE SameAt(l, n, j)
      OBVIOUS
    <3>1. SameAt(d, e, j)
      BY <2>5 DEF Only
    <3>2. /\ j \in DOMAIN n.changes <=> j \in DOMAIN l.changes
          /\ j \in DOMAIN l.changes => n.changes[j] = l.changes[j]
      BY <2>2, <2>6, <3>1 DEF SameAt
    <3>3. /\ j \in DOMAIN n.orig <=> j \in DOMAIN l.orig
          /\ j \in DOMAIN l.orig => n.orig[j] = l.orig[j]
      BY <2>6, <2>7
    <3>4. (j \in n.new <=> j \in l.new) /\ (j \in n.deleted <=> j \in l.deleted)
      BY <2>6, <2>8
    <3> QED BY <3>2, <3>3, <3>4 DEF SameAt
  <2>10. a \notin DOMAIN l.changes => DOMAIN Fields(l, a) = {}
    <3>1. DOMAIN <<>> = {}
      OBVIOUS
    <3> QED BY <3>1 DEF Fields
  <2>11. a \notin DOMAIN n.changes
    <3>1. SameAt(d, e, a)
      BY <1>2, <2>5 DEF Only
    <3> QED BY <2>2, <2>6, <3>1 DEF SameAt
  <2>12. b \in DOMAIN n.changes => a \in DOMAIN l.changes \/ b \in DOMAIN l.changes
    <3>1. DOMAIN Fields(l, a) = {} => e = d
      BY <2>3 DEF Sets
    <3> QED BY <2>2, <2>6, <2>10, <3>1
  <2>13. (Mentions(n, b) => Mentions(l, a) \/ Mentions(l, b)) /\ (Mentions(n, a) => Mentions(l, a))
    BY <1>2, <2>6, <2>7, <2>8, <2>11, <2>12 DEF Mentions, HasPending
  <2>14. ASSUME ~ Mentions(l, b) PROVE Carries(l, a, n, b)
    <3>1. b \notin l.new /\ b \notin l.deleted /\ b \notin DOMAIN l.changes /\ b \notin DOMAIN l.orig
      BY <2>14 DEF Mentions, HasPending
    <3>2. (b \in n.new <=> a \in l.new) /\ (b \in n.deleted <=> a \in l.deleted)
      BY <2>6, <2>8, <3>1
    <3>3. OriginalVersion(n, b) = OriginalVersion(l, a)
      BY <2>6, <2>7, <3>1 DEF OriginalVersion
    <3>4. DOMAIN Fields(d, b) = {}
      <4>1. DOMAIN <<>> = {}
        OBVIOUS
      <4> QED BY <2>2, <3>1, <4>1 DEF Fields
    <3>5. Fields(n, b) = Fields(e, b)
      BY <2>6 DEF Fields
    <3>6. /\ DOMAIN Fields(n, b) = DOMAIN Fields(l, a)
          /\ \A f \in DOMAIN Fields(l, a) : Fields(n, b)[f] = Fields(l, a)[f]
      BY <2>3, <3>4, <3>5 DEF Sets
    <3>7. b \in DOMAIN n.changes => a \in DOMAIN l.changes
      BY <2>12, <3>1
    <3> QED BY <3>2, <3>3, <3>6, <3>7 DEF Carries, Tells
  <2>15. Only(l, n, {a, b})
    BY <2>6, <2>9 DEF Only
  <2> QED BY <1>2, <2>13, <2>14, <2>15 DEF Moved, n
<1> QED BY <1>1, <1>2

\* m knows version v of k and has nothing pending for it.
Accepts(l, m, k, versions) ==
  /\ Only(l, m, {k}) /\ ~ HasPending(m, k)
  /\ \A v : versions = {v} => OriginalVersion(m, k) = {v}

LEMMA AcceptSays ==
  ASSUME NEW l, IsLedger(l), NEW k, NEW versions
  PROVE  Accepts(l, AcceptCommittedVersion(ClearEntity(l, k), k, versions), k, versions)
<1> DEFINE d == ClearEntity(l, k)
           w == CHOOSE v \in versions : TRUE
           n == AcceptCommittedVersion(d, k, versions)
<1>1. /\ IsLedger(d) /\ d.orig = l.orig /\ d.changes = Without(l.changes, k)
      /\ d.new = l.new \ {k} /\ d.deleted = l.deleted \ {k}
  BY DEF ClearEntity, IsLedger, LedgerFields
<1>2. n = IF versions = {} THEN d ELSE [d EXCEPT !.orig = WithEntry(@, k, w)]
  BY DEF AcceptCommittedVersion
<1> HIDE DEF d, n
<1>3. /\ DOMAIN d.changes = DOMAIN l.changes \ {k}
      /\ \A j \in DOMAIN l.changes \ {k} : d.changes[j] = l.changes[j]
  BY <1>1 DEF Without
<1>4. /\ IsLedger(n) /\ n.changes = d.changes /\ n.new = d.new /\ n.deleted = d.deleted
      /\ n.orig = IF versions = {} THEN d.orig ELSE WithEntry(d.orig, k, w)
  <2> HIDE DEF w
  <2> QED BY <1>1, <1>2 DEF IsLedger, LedgerFields
<1>5. \A j : j # k => ((j \in DOMAIN n.orig <=> j \in DOMAIN l.orig) /\ (j \in DOMAIN l.orig => n.orig[j] = l.orig[j]))
  <2> HIDE DEF w
  <2> QED BY <1>1, <1>4 DEF WithEntry, Updated
<1>6. \A v : versions = {v} => OriginalVersion(n, k) = {v}
  <2> SUFFICES ASSUME NEW v, versions = {v} PROVE OriginalVersion(n, k) = {v}
    OBVIOUS
  <2>1. w = v
    OBVIOUS
  <2>2. k \in DOMAIN n.orig /\ n.orig[k] = v
    <3> HIDE DEF w
    <3> QED BY <1>4, <2>1 DEF WithEntry, Updated
  <2> QED BY <2>2 DEF OriginalVersion
<1>7. \A j : j # k => SameAt(l, n, j)
  BY <1>1, <1>3, <1>4, <1>5 DEF SameAt
<1>8. ~ HasPending(n, k)
  BY <1>1, <1>3, <1>4 DEF HasPending
<1> QED BY <1>4, <1>6, <1>7, <1>8 DEF Accepts, Only, n, d

\* Induction on the places of a sequence.
LEMMA Induct ==
  ASSUME NEW N \in Nat, NEW S, 0 \in S, \A n \in 1 .. N : n - 1 \in S => n \in S
  PROVE  0 .. N \subseteq S
<1> DEFINE Bad == {n \in 0 .. N : n \notin S}
<1>1. SUFFICES ASSUME Bad # {} PROVE FALSE
  OBVIOUS
<1>2. Bad \subseteq Nat
  OBVIOUS
<1> DEFINE n == Min(Bad)
<1>3. n \in Bad /\ \A k \in Bad : n <= k
  <2> HIDE DEF Bad
  <2> QED BY <1>1, <1>2, MinLeast
<1> HIDE DEF n
<1>4. n # 0 /\ n \in 1 .. N
  BY <1>3
<1>5. n - 1 \notin Bad /\ n - 1 \in 0 .. N
  <2> HIDE DEF Bad
  <2> QED BY <1>2, <1>3, <1>4
<1> QED BY <1>3, <1>4, <1>5

\* The states attaching goes through.
LEMMA AttachSteps ==
  ASSUME NEW m, NEW hs, NEW r, Len(hs) \in Nat
  PROVE  \E f : /\ f[0] = m
                /\ \A n \in 1 .. Len(hs) : f[n] = Attach(f[n - 1], hs[n], r)
                /\ AttachedLedger(m, hs, r) = f[Len(hs)].ledger
<1> DEFINE N == Len(hs)
           Reached(g, n) == IF n = 0 THEN m ELSE Attach(g[n - 1], hs[n], r)
           Good(n) == \E g : g = [i \in 0 .. n |-> Reached(g, i)]
           f == CHOOSE g : g = [i \in 0 .. N |-> Reached(g, i)]
<1>1. \A n \in 0 .. N : Good(n)
  <2> DEFINE S == {n \in 0 .. N : Good(n)}
  <2>1. Good(0)
    <3> DEFINE g == [i \in 0 .. 0 |-> m]
    <3>1. g = [i \in 0 .. 0 |-> Reached(g, i)]
      OBVIOUS
    <3> HIDE DEF g, Reached
    <3> QED BY <3>1
  <2>2. ASSUME NEW n \in 1 .. N, Good(n - 1) PROVE Good(n)
    <3>1. PICK g : g = [i \in 0 .. n - 1 |-> Reached(g, i)]
      <4> HIDE DEF Reached
      <4> QED BY <2>2
    <3> DEFINE h == [i \in 0 .. n |-> IF i = n THEN Attach(g[n - 1], hs[n], r) ELSE g[i]]
    <3>2. \A i \in 0 .. n - 1 : g[i] = Reached(g, i)
      <4> HIDE DEF Reached
      <4> QED BY <3>1
    <3>3. (\A i \in 0 .. n - 1 : h[i] = g[i]) /\ h[n] = Attach(g[n - 1], hs[n], r)
      OBVIOUS
    <3>4. \A i \in 0 .. n : h[i] = Reached(h, i)
      <4> SUFFICES ASSUME NEW i \in 0 .. n PROVE h[i] = Reached(h, i)
        OBVIOUS
      <4> HIDE DEF h
      <4>1. CASE i = n
        <5>1. h[n - 1] = g[n - 1]
          BY <3>3
        <5> QED BY <3>3, <4>1, <5>1
      <4>2. CASE i = 0
        BY <3>2, <3>3, <4>2
      <4>3. CASE i # n /\ i # 0
        <5>1. i \in 0 .. n - 1 /\ i - 1 \in 0 .. n - 1
          BY <4>3
        <5>2. h[i] = g[i] /\ h[i - 1] = g[i - 1]
          BY <3>3, <5>1
        <5> QED BY <3>2, <4>3, <5>1, <5>2
      <4> QED BY <4>1, <4>2, <4>3
    <3>5. h = [i \in 0 .. n |-> h[i]]
      OBVIOUS
    <3> HIDE DEF h, Reached
    <3> QED BY <3>4, <3>5
  <2>3. 0 \in S /\ \A n \in 1 .. N : n - 1 \in S => n \in S
    <3> HIDE DEF Good
    <3> QED BY <2>1, <2>2
  <2>4. 0 .. N \subseteq S
    <3> HIDE DEF S
    <3> QED BY <2>3, Induct
  <2> HIDE DEF Good
  <2> QED BY <2>4
<1>2. f = [i \in 0 .. N |-> Reached(f, i)]
  <2>1. Good(N)
    <3> HIDE DEF Good
    <3> QED BY <1>1
  <2> HIDE DEF Reached, N
  <2> QED BY <2>1
<1>3. AttachedLedger(m, hs, r) = f[N].ledger
  BY DEF AttachedLedger
<1> HIDE DEF f
<1>4. \A i \in 0 .. N : f[i] = Reached(f, i)
  <2> HIDE DEF Reached, N
  <2> QED BY <1>2
<1>5. f[0] = m
  BY <1>4
<1>6. \A n \in 1 .. N : f[n] = Attach(f[n - 1], hs[n], r)
  <2> SUFFICES ASSUME NEW n \in 1 .. N PROVE f[n] = Attach(f[n - 1], hs[n], r)
    OBVIOUS
  <2>1. n \in 0 .. N /\ n # 0
    OBVIOUS
  <2> QED BY <1>4, <2>1
<1> QED BY <1>3, <1>5, <1>6

\* The states checking goes through.
LEMMA CheckSteps ==
  ASSUME NEW m, NEW hs, Len(hs) \in Nat
  PROVE  \E f : /\ f[0] = m
                /\ \A n \in 1 .. Len(hs) : f[n] = Check(f[n - 1], hs[n])
                /\ CheckedLedger(m, hs) = f[Len(hs)].ledger
<1> DEFINE N == Len(hs)
           Reached(g, n) == IF n = 0 THEN m ELSE Check(g[n - 1], hs[n])
           Good(n) == \E g : g = [i \in 0 .. n |-> Reached(g, i)]
           f == CHOOSE g : g = [i \in 0 .. N |-> Reached(g, i)]
<1>1. \A n \in 0 .. N : Good(n)
  <2> DEFINE S == {n \in 0 .. N : Good(n)}
  <2>1. Good(0)
    <3> DEFINE g == [i \in 0 .. 0 |-> m]
    <3>1. g = [i \in 0 .. 0 |-> Reached(g, i)]
      OBVIOUS
    <3> HIDE DEF g, Reached
    <3> QED BY <3>1
  <2>2. ASSUME NEW n \in 1 .. N, Good(n - 1) PROVE Good(n)
    <3>1. PICK g : g = [i \in 0 .. n - 1 |-> Reached(g, i)]
      <4> HIDE DEF Reached
      <4> QED BY <2>2
    <3> DEFINE h == [i \in 0 .. n |-> IF i = n THEN Check(g[n - 1], hs[n]) ELSE g[i]]
    <3>2. \A i \in 0 .. n - 1 : g[i] = Reached(g, i)
      <4> HIDE DEF Reached
      <4> QED BY <3>1
    <3>3. (\A i \in 0 .. n - 1 : h[i] = g[i]) /\ h[n] = Check(g[n - 1], hs[n])
      OBVIOUS
    <3>4. \A i \in 0 .. n : h[i] = Reached(h, i)
      <4> SUFFICES ASSUME NEW i \in 0 .. n PROVE h[i] = Reached(h, i)
        OBVIOUS
      <4> HIDE DEF h
      <4>1. CASE i = n
        <5>1. h[n - 1] = g[n - 1]
          BY <3>3
        <5> QED BY <3>3, <4>1, <5>1
      <4>2. CASE i = 0
        BY <3>2, <3>3, <4>2
      <4>3. CASE i # n /\ i # 0
        <5>1. i \in 0 .. n - 1 /\ i - 1 \in 0 .. n - 1
          BY <4>3
        <5>2. h[i] = g[i] /\ h[i - 1] = g[i - 1]
          BY <3>3, <5>1
        <5> QED BY <3>2, <4>3, <5>1, <5>2
      <4> QED BY <4>1, <4>2, <4>3
    <3>5. h = [i \in 0 .. n |-> h[i]]
      OBVIOUS
    <3> HIDE DEF h, Reached
    <3> QED BY <3>4, <3>5
  <2>3. 0 \in S /\ \A n \in 1 .. N : n - 1 \in S => n \in S
    <3> HIDE DEF Good
    <3> QED BY <2>1, <2>2
  <2>4. 0 .. N \subseteq S
    <3> HIDE DEF S
    <3> QED BY <2>3, Induct
  <2> HIDE DEF Good
  <2> QED BY <2>4
<1>2. f = [i \in 0 .. N |-> Reached(f, i)]
  <2>1. Good(N)
    <3> HIDE DEF Good
    <3> QED BY <1>1
  <2> HIDE DEF Reached, N
  <2> QED BY <2>1
<1>3. CheckedLedger(m, hs) = f[N].ledger
  BY DEF CheckedLedger
<1> HIDE DEF f
<1>4. \A i \in 0 .. N : f[i] = Reached(f, i)
  <2> HIDE DEF Reached, N
  <2> QED BY <1>2
<1>5. f[0] = m
  BY <1>4
<1>6. \A n \in 1 .. N : f[n] = Check(f[n - 1], hs[n])
  <2> SUFFICES ASSUME NEW n \in 1 .. N PROVE f[n] = Check(f[n - 1], hs[n])
    OBVIOUS
  <2>1. n \in 0 .. N /\ n # 0
    OBVIOUS
  <2> QED BY <1>4, <2>1
<1> QED BY <1>3, <1>5, <1>6

\* The states settling goes through.
LEMMA SettleSteps ==
  ASSUME NEW written, Len(written) \in Nat
  PROVE  \E f : /\ f[0] = ledger
                /\ \A n \in 1 .. Len(written) : f[n] = CommitEntity(f[n - 1], written[n])
                /\ Settled(written) = f[Len(written)]
<1> DEFINE N == Len(written)
           Reached(g, n) == IF n = 0 THEN ledger ELSE CommitEntity(g[n - 1], written[n])
           Good(n) == \E g : g = [i \in 0 .. n |-> Reached(g, i)]
           f == CHOOSE g : g = [i \in 0 .. N |-> Reached(g, i)]
<1>1. \A n \in 0 .. N : Good(n)
  <2> DEFINE S == {n \in 0 .. N : Good(n)}
  <2>1. Good(0)
    <3> DEFINE g == [i \in 0 .. 0 |-> ledger]
    <3>1. g = [i \in 0 .. 0 |-> Reached(g, i)]
      OBVIOUS
    <3> HIDE DEF g, Reached
    <3> QED BY <3>1
  <2>2. ASSUME NEW n \in 1 .. N, Good(n - 1) PROVE Good(n)
    <3>1. PICK g : g = [i \in 0 .. n - 1 |-> Reached(g, i)]
      <4> HIDE DEF Reached
      <4> QED BY <2>2
    <3> DEFINE h == [i \in 0 .. n |-> IF i = n THEN CommitEntity(g[n - 1], written[n]) ELSE g[i]]
    <3>2. \A i \in 0 .. n - 1 : g[i] = Reached(g, i)
      <4> HIDE DEF Reached
      <4> QED BY <3>1
    <3>3. (\A i \in 0 .. n - 1 : h[i] = g[i]) /\ h[n] = CommitEntity(g[n - 1], written[n])
      OBVIOUS
    <3>4. \A i \in 0 .. n : h[i] = Reached(h, i)
      <4> SUFFICES ASSUME NEW i \in 0 .. n PROVE h[i] = Reached(h, i)
        OBVIOUS
      <4> HIDE DEF h
      <4>1. CASE i = n
        <5>1. h[n - 1] = g[n - 1]
          BY <3>3
        <5> QED BY <3>3, <4>1, <5>1
      <4>2. CASE i = 0
        BY <3>2, <3>3, <4>2
      <4>3. CASE i # n /\ i # 0
        <5>1. i \in 0 .. n - 1 /\ i - 1 \in 0 .. n - 1
          BY <4>3
        <5>2. h[i] = g[i] /\ h[i - 1] = g[i - 1]
          BY <3>3, <5>1
        <5> QED BY <3>2, <4>3, <5>1, <5>2
      <4> QED BY <4>1, <4>2, <4>3
    <3>5. h = [i \in 0 .. n |-> h[i]]
      OBVIOUS
    <3> HIDE DEF h, Reached
    <3> QED BY <3>4, <3>5
  <2>3. 0 \in S /\ \A n \in 1 .. N : n - 1 \in S => n \in S
    <3> HIDE DEF Good
    <3> QED BY <2>1, <2>2
  <2>4. 0 .. N \subseteq S
    <3> HIDE DEF S
    <3> QED BY <2>3, Induct
  <2> HIDE DEF Good
  <2> QED BY <2>4
<1>2. f = [i \in 0 .. N |-> Reached(f, i)]
  <2>1. Good(N)
    <3> HIDE DEF Good
    <3> QED BY <1>1
  <2> HIDE DEF Reached, N
  <2> QED BY <2>1
<1>3. Settled(written) = f[N]
  BY DEF Settled
<1> HIDE DEF f
<1>4. \A i \in 0 .. N : f[i] = Reached(f, i)
  <2> HIDE DEF Reached, N
  <2> QED BY <1>2
<1>5. f[0] = ledger
  BY <1>4
<1>6. \A n \in 1 .. N : f[n] = CommitEntity(f[n - 1], written[n])
  <2> SUFFICES ASSUME NEW n \in 1 .. N PROVE f[n] = CommitEntity(f[n - 1], written[n])
    OBVIOUS
  <2>1. n \in 0 .. N /\ n # 0
    OBVIOUS
  <2> QED BY <1>4, <2>1
<1> QED BY <1>3, <1>5, <1>6

\* The states restoring goes through.
LEMMA RestoreSteps ==
  ASSUME NEW old, Len(old) \in Nat
  PROVE  \E f : /\ f[0] = Memory
                /\ \A n \in 1 .. Len(old) : f[n] = Restored(f[n - 1], Reverse(old)[n])
                /\ RestoredLedger(old) = f[Len(old)].ledger
<1> DEFINE N == Len(old)
           Reached(g, n) == IF n = 0 THEN Memory ELSE Restored(g[n - 1], Reverse(old)[n])
           Good(n) == \E g : g = [i \in 0 .. n |-> Reached(g, i)]
           f == CHOOSE g : g = [i \in 0 .. N |-> Reached(g, i)]
<1>1. \A n \in 0 .. N : Good(n)
  <2> DEFINE S == {n \in 0 .. N : Good(n)}
  <2>1. Good(0)
    <3> DEFINE g == [i \in 0 .. 0 |-> Memory]
    <3>1. g = [i \in 0 .. 0 |-> Reached(g, i)]
      OBVIOUS
    <3> HIDE DEF g, Reached
    <3> QED BY <3>1
  <2>2. ASSUME NEW n \in 1 .. N, Good(n - 1) PROVE Good(n)
    <3>1. PICK g : g = [i \in 0 .. n - 1 |-> Reached(g, i)]
      <4> HIDE DEF Reached
      <4> QED BY <2>2
    <3> DEFINE h == [i \in 0 .. n |-> IF i = n THEN Restored(g[n - 1], Reverse(old)[n]) ELSE g[i]]
    <3>2. \A i \in 0 .. n - 1 : g[i] = Reached(g, i)
      <4> HIDE DEF Reached
      <4> QED BY <3>1
    <3>3. (\A i \in 0 .. n - 1 : h[i] = g[i]) /\ h[n] = Restored(g[n - 1], Reverse(old)[n])
      OBVIOUS
    <3>4. \A i \in 0 .. n : h[i] = Reached(h, i)
      <4> SUFFICES ASSUME NEW i \in 0 .. n PROVE h[i] = Reached(h, i)
        OBVIOUS
      <4> HIDE DEF h
      <4>1. CASE i = n
        <5>1. h[n - 1] = g[n - 1]
          BY <3>3
        <5> QED BY <3>3, <4>1, <5>1
      <4>2. CASE i = 0
        BY <3>2, <3>3, <4>2
      <4>3. CASE i # n /\ i # 0
        <5>1. i \in 0 .. n - 1 /\ i - 1 \in 0 .. n - 1
          BY <4>3
        <5>2. h[i] = g[i] /\ h[i - 1] = g[i - 1]
          BY <3>3, <5>1
        <5> QED BY <3>2, <4>3, <5>1, <5>2
      <4> QED BY <4>1, <4>2, <4>3
    <3>5. h = [i \in 0 .. n |-> h[i]]
      OBVIOUS
    <3> HIDE DEF h, Reached
    <3> QED BY <3>4, <3>5
  <2>3. 0 \in S /\ \A n \in 1 .. N : n - 1 \in S => n \in S
    <3> HIDE DEF Good
    <3> QED BY <2>1, <2>2
  <2>4. 0 .. N \subseteq S
    <3> HIDE DEF S
    <3> QED BY <2>3, Induct
  <2> HIDE DEF Good
  <2> QED BY <2>4
<1>2. f = [i \in 0 .. N |-> Reached(f, i)]
  <2>1. Good(N)
    <3> HIDE DEF Good
    <3> QED BY <1>1
  <2> HIDE DEF Reached, N
  <2> QED BY <2>1
<1>3. RestoredLedger(old) = f[N].ledger
  BY DEF RestoredLedger
<1> HIDE DEF f
<1>4. \A i \in 0 .. N : f[i] = Reached(f, i)
  <2> HIDE DEF Reached, N
  <2> QED BY <1>2
<1>5. f[0] = Memory
  BY <1>4
<1>6. \A n \in 1 .. N : f[n] = Restored(f[n - 1], Reverse(old)[n])
  <2> SUFFICES ASSUME NEW n \in 1 .. N PROVE f[n] = Restored(f[n - 1], Reverse(old)[n])
    OBVIOUS
  <2>1. n \in 0 .. N /\ n # 0
    OBVIOUS
  <2> QED BY <1>4, <2>1
<1> QED BY <1>3, <1>5, <1>6

-----------------------------------------------------------------------------
(* What attaching, checking, settling and restoring do to the ledgers *)

MemoryOK(m) ==
  /\ DOMAIN m = {"object", "ledger"} /\ ObjectsOK(m.object) /\ LedgersOK(m.ledger)
  /\ \A h \in Objects : m.object[h].root \in Objects

\* The ledgers lat say what led say, but for the keys k of ledgers r with <<r, k>> in T.
Within(led, lat, T) ==
  LedgersOK(lat) /\ \A r \in Objects : \A k : <<r, k>> \notin T => SameAt(led[r], lat[r], k)

LEMMA WithinOne ==
  ASSUME NEW led, LedgersOK(led), NEW r \in Objects, NEW l, NEW K, Only(led[r], l, K)
  PROVE  Within(led, [led EXCEPT ![r] = l], {<<r, k>> : k \in K})
<1> DEFINE lat == [led EXCEPT ![r] = l]
<1>1. DOMAIN lat = Objects /\ lat[r] = l /\ \A q \in Objects \ {r} : lat[q] = led[q]
  BY DEF LedgersOK
<1> HIDE DEF lat
<1>2. LedgersOK(lat)
  BY <1>1 DEF LedgersOK, Only
<1>3. ASSUME NEW q \in Objects, NEW k, <<q, k>> \notin {<<r, j>> : j \in K}
      PROVE  SameAt(led[q], lat[q], k)
  <2>1. CASE q = r
    BY <1>1, <1>3, <2>1 DEF Only
  <2>2. CASE q # r
    BY <1>1, <2>2 DEF SameAt
  <2> QED BY <2>1, <2>2
<1> QED BY <1>2, <1>3 DEF Within, lat

LEMMA WithinSelf ==
  ASSUME NEW led, LedgersOK(led), NEW T
  PROVE  Within(led, led, T)
BY DEF Within, SameAt

LEMMA WithinTrans ==
  ASSUME NEW led, NEW lat, NEW las, NEW T, NEW U, Within(led, lat, T), Within(lat, las, U)
  PROVE  Within(led, las, T \cup U)
<1>1. ASSUME NEW r \in Objects, NEW k, <<r, k>> \notin T \cup U PROVE SameAt(led[r], las[r], k)
  <2>1. SameAt(led[r], lat[r], k) /\ SameAt(lat[r], las[r], k)
    BY <1>1 DEF Within
  <2> QED BY <2>1 DEF SameAt
<1> QED BY <1>1 DEF Within

LEMMA WithinMore ==
  ASSUME NEW led, NEW lat, NEW T, NEW U, Within(led, lat, T), T \subseteq U
  PROVE  Within(led, lat, U)
BY DEF Within

\* One object is attached.
Attaches(m, n, h, r) ==
  /\ MemoryOK(n)
  /\ \A g \in Objects : n.object[g].key = m.object[g].key
  /\ \A g \in Objects : n.object[g].root = IF g = h THEN r ELSE m.object[g].root
  /\ IF m.object[h].root = r THEN n = m
     ELSE n.ledger = [m.ledger EXCEPT ![r] =
                        MergeEntity(@, m.ledger[m.object[h].root], m.object[h].key)]

LEMMA AttachOne ==
  ASSUME NEW m, MemoryOK(m), NEW h \in Objects, NEW r \in Objects
  PROVE  Attaches(m, Attach(m, h, r), h, r)
<1>1. CASE m.object[h].root = r
  <2>1. Attach(m, h, r) = m
    BY <1>1 DEF Attach
  <2> QED BY <1>1, <2>1 DEF Attaches
<1>2. CASE m.object[h].root # r
  <2> DEFINE n == Attach(m, h, r)
             l == MergeEntity(m.ledger[r], m.ledger[m.object[h].root], m.object[h].key)
  <2>1. n = [m EXCEPT !.object[h].root = r,
                      !.ledger[r] = MergeEntity(@, m.ledger[m.object[h].root], m.object[h].key)]
    BY <1>2 DEF Attach
  <2>2. /\ DOMAIN n = {"object", "ledger"} /\ n.ledger = [m.ledger EXCEPT ![r] = l]
        /\ n.object = [m.object EXCEPT ![h] = [m.object[h] EXCEPT !.root = r]]
    <3> HIDE DEF n
    <3>1. DOMAIN m = {"object", "ledger"}
      BY DEF MemoryOK
    <3> QED BY <2>1, <3>1
  <2> HIDE DEF n
  <2>3. Only(m.ledger[r], l, {m.object[h].key})
    <3>1. IsLedger(m.ledger[r]) /\ IsLedger(m.ledger[m.object[h].root])
      BY DEF MemoryOK, LedgersOK
    <3>2. Merges(m.ledger[r], m.ledger[m.object[h].root], l, m.object[h].key)
      BY <3>1, MergeSays
    <3> HIDE DEF l
    <3> QED BY <3>2 DEF Merges
  <2> HIDE DEF l
  <2>4. LedgersOK(n.ledger)
    <3>1. LedgersOK(m.ledger)
      BY DEF MemoryOK
    <3>2. Within(m.ledger, n.ledger, {<<r, k>> : k \in {m.object[h].key}})
      BY <2>2, <2>3, <3>1, WithinOne
    <3> QED BY <3>2 DEF Within
  <2>5. /\ DOMAIN n.object = Objects /\ \A g \in Objects \ {h} : n.object[g] = m.object[g]
        /\ DOMAIN n.object[h] = DOMAIN m.object[h] /\ n.object[h].root = r
        /\ n.object[h].key = m.object[h].key /\ n.object[h].action = m.object[h].action
    BY <2>2 DEF MemoryOK, ObjectsOK, IsObject, ObjectFields
  <2>6. MemoryOK(n)
    BY <2>2, <2>4, <2>5 DEF MemoryOK, ObjectsOK, IsObject
  <2> QED BY <1>2, <2>2, <2>5, <2>6 DEF Attaches, n, l
<1> QED BY <1>1, <1>2

\* The objects of hs that are in another ledger than r come to it.
Comers(m, hs, r) == {h \in Range(hs) : m.object[h].root # r}
Attached(m, lat, hs, r) ==
  /\ Within(m.ledger, lat, {<<r, m.object[h].key>> : h \in Comers(m, hs, r)})
  /\ \A k : Mentions(lat[r], k) =>
       \/ Mentions(m.ledger[r], k)
       \/ \E h \in Comers(m, hs, r) : m.object[h].key = k /\ Mentions(m.ledger[m.object[h].root], k)
  /\ \A h \in Comers(m, hs, r) : LET k == m.object[h].key IN
       ~ Mentions(m.ledger[r], k) /\ (\A g \in Comers(m, hs, r) : m.object[g].key = k => g = h) =>
         Carries(m.ledger[m.object[h].root], k, lat[r], k)

LEMMA CarriesSame ==
  ASSUME NEW l, NEW m, NEW n, NEW a, NEW b, Carries(l, a, m, b), SameAt(m, n, b)
  PROVE  Carries(l, a, n, b)
<1>1. Fields(n, b) = Fields(m, b) /\ OriginalVersion(n, b) = OriginalVersion(m, b)
  BY SameSays
<1> QED BY <1>1 DEF Carries, Tells, SameAt

LEMMA AttachedSays ==
  ASSUME NEW m, MemoryOK(m), NEW hs \in Seq(Objects), NEW r \in Objects
  PROVE  Attached(m, AttachedLedger(m, hs, r), hs, r)
<1> DEFINE N == Len(hs)
           In(n) == {hs[i] : i \in 1 .. n}
           Come(n) == {h \in In(n) : m.object[h].root # r}
           T(n) == {<<r, m.object[h].key>> : h \in Come(n)}
<1>1. PICK f : /\ f[0] = m /\ \A n \in 1 .. N : f[n] = Attach(f[n - 1], hs[n], r)
               /\ AttachedLedger(m, hs, r) = f[N].ledger
  <2>1. Len(hs) \in Nat
    OBVIOUS
  <2> QED BY <2>1, AttachSteps
<1> DEFINE Good(n) ==
      /\ MemoryOK(f[n])
      /\ \A g \in Objects : f[n].object[g].key = m.object[g].key
      /\ \A g \in Objects : f[n].object[g].root = IF g \in In(n) THEN r ELSE m.object[g].root
      /\ Within(m.ledger, f[n].ledger, T(n))
      /\ \A k : Mentions(f[n].ledger[r], k) =>
           \/ Mentions(m.ledger[r], k)
           \/ \E h \in Come(n) : m.object[h].key = k /\ Mentions(m.ledger[m.object[h].root], k)
      /\ \A h \in Come(n) : LET k == m.object[h].key IN
           ~ Mentions(m.ledger[r], k) /\ (\A g \in Come(n) : m.object[g].key = k => g = h) =>
             Carries(m.ledger[m.object[h].root], k, f[n].ledger[r], k)
<1>2. Good(0)
  <2>1. In(0) = {}
    OBVIOUS
  <2>2. Come(0) = {} /\ LedgersOK(m.ledger)
    <3> HIDE DEF In
    <3> QED BY <2>1 DEF MemoryOK
  <2> HIDE DEF In, Come
  <2> QED BY <1>1, <2>1, <2>2, WithinSelf
<1>3. ASSUME NEW n \in 1 .. N, Good(n - 1) PROVE Good(n)
  <2> DEFINE p == f[n - 1]
             q == f[n]
             h == hs[n]
             k == m.object[h].key
             l == m.ledger[m.object[h].root]
  <2>1. h \in Objects /\ In(n) = In(n - 1) \cup {h} /\ In(n - 1) \subseteq Objects
    <3>1. \A i \in 1 .. N : hs[i] \in Objects
      OBVIOUS
    <3>2. n \in 1 .. n /\ \A i \in 1 .. n : i = n \/ i \in 1 .. n - 1
      OBVIOUS
    <3>3. \A i \in 1 .. n - 1 : i \in 1 .. n /\ i \in 1 .. N
      OBVIOUS
    <3> QED BY <3>1, <3>2, <3>3
  <2>2. /\ MemoryOK(p)
        /\ \A g \in Objects : p.object[g].key = m.object[g].key
        /\ \A g \in Objects : p.object[g].root = IF g \in In(n - 1) THEN r ELSE m.object[g].root
        /\ Within(m.ledger, p.ledger, T(n - 1))
    <3> HIDE DEF In, Come, T
    <3> QED BY <1>3
  <2>3. Attaches(p, q, h, r)
    <3>1. q = Attach(p, h, r)
      BY <1>1
    <3> HIDE DEF p, q, h
    <3> QED BY <2>1, <2>2, <3>1, AttachOne
  <2>4. /\ MemoryOK(q)
        /\ \A g \in Objects : q.object[g].key = m.object[g].key
        /\ \A g \in Objects : q.object[g].root = IF g \in In(n) THEN r ELSE m.object[g].root
    <3> HIDE DEF In, Come, p, q, h
    <3> QED BY <2>1, <2>2, <2>3 DEF Attaches
  <2>5. CASE p.object[h].root = r
    <3>1. q = p
      <4> HIDE DEF p, q, h
      <4> QED BY <2>3, <2>5 DEF Attaches
    <3>2. Come(n) = Come(n - 1)
      <4> HIDE DEF In, p, q, h
      <4> QED BY <2>1, <2>2, <2>5
    <3> HIDE DEF In, Come
    <3> QED BY <1>3, <2>4, <3>1, <3>2
  <2>6. CASE p.object[h].root # r
    <3>1. /\ h \notin In(n - 1) /\ p.object[h].root = m.object[h].root /\ m.object[h].root \in Objects
          /\ m.object[h].root # r /\ p.object[h].key = k
      <4> HIDE DEF In, p, q, h
      <4> QED BY <2>1, <2>2, <2>6 DEF MemoryOK, k
    <3>2. Come(n) = Come(n - 1) \cup {h} /\ h \notin Come(n - 1)
      <4> HIDE DEF In, p, q, h
      <4> QED BY <2>1, <3>1
    <3>3. \A j : SameAt(l, p.ledger[m.object[h].root], j)
      <4>1. \A j : <<m.object[h].root, j>> \notin T(n - 1)
        BY <3>1
      <4> HIDE DEF T, p, q, h
      <4> QED BY <2>2, <3>1, <4>1 DEF Within, l
    <3> DEFINE l2 == p.ledger[m.object[h].root]
    <3>4. q.ledger = [p.ledger EXCEPT ![r] = MergeEntity(p.ledger[r], l2, k)]
      <4>1. q.ledger = [p.ledger EXCEPT ![r] =
                          MergeEntity(@, p.ledger[p.object[h].root], p.object[h].key)]
        <5> HIDE DEF p, q, h
        <5> QED BY <2>3, <2>6 DEF Attaches
      <4> HIDE DEF p, q, h, k
      <4> QED BY <3>1, <4>1
    <3>5. IsLedger(p.ledger[r]) /\ IsLedger(l2) /\ LedgersOK(p.ledger)
      <4> HIDE DEF p, q, h
      <4> QED BY <2>2, <3>1 DEF MemoryOK, LedgersOK
    <3> DEFINE l3 == MergeEntity(p.ledger[r], l2, k)
    <3>6. Merges(p.ledger[r], l2, l3, k)
      <4> HIDE DEF l2, k, p
      <4> QED BY <3>5, MergeSays
    <3>7. q.ledger[r] = l3
      <4> HIDE DEF l3, p, q
      <4> QED BY <3>4, <3>5 DEF LedgersOK, l3
    <3>8. Within(m.ledger, q.ledger, T(n))
      <4>1. Within(p.ledger, q.ledger, {<<r, j>> : j \in {k}})
        <5>1. Only(p.ledger[r], l3, {k})
          <6> HIDE DEF l3, l2, p, k
          <6> QED BY <3>6 DEF Merges
        <5>2. q.ledger = [p.ledger EXCEPT ![r] = l3]
          BY <3>4
        <5> DEFINE K == {k}
                   led == p.ledger
        <5>3. LedgersOK(led) /\ Only(led[r], l3, K)
          <6> HIDE DEF l3, l2, k, p
          <6> QED BY <3>5, <5>1
        <5>4. Within(led, [led EXCEPT ![r] = l3], {<<r, j>> : j \in K})
          <6> HIDE DEF led, K, l3
          <6> QED BY <5>3, WithinOne
        <5> HIDE DEF l3, l2, p, q, k
        <5> QED BY <5>2, <5>4
      <4>2. T(n - 1) \cup {<<r, j>> : j \in {k}} = T(n)
        <5> HIDE DEF Come, h
        <5> QED BY <3>2 DEF k
      <4> HIDE DEF T, p, q, k
      <4> QED BY <2>2, <4>1, <4>2, WithinTrans
    <3>9. ASSUME NEW j, Mentions(q.ledger[r], j)
          PROVE  \/ Mentions(m.ledger[r], j)
                 \/ \E g \in Come(n) : m.object[g].key = j /\ Mentions(m.ledger[m.object[g].root], j)
      <4>1. Mentions(p.ledger[r], j) \/ (j = k /\ Mentions(l2, k))
        <5>1. j # k => SameAt(p.ledger[r], l3, j)
          <6> HIDE DEF l3, l2, k, p
          <6> QED BY <3>6 DEF Merges, Only
        <5>2. j # k => (Mentions(l3, j) <=> Mentions(p.ledger[r], j))
          <6> HIDE DEF l3, p, k
          <6> QED BY <5>1, SameSays
        <5>3. Mentions(l3, k) => Mentions(p.ledger[r], k) \/ Mentions(l2, k)
          <6> HIDE DEF l3, l2, k, p
          <6> QED BY <3>6 DEF Merges
        <5> HIDE DEF l3, l2, p, q, k
        <5> QED BY <3>7, <3>9, <5>2, <5>3
      <4>2. Mentions(l2, k) => Mentions(l, k)
        <5>1. SameAt(l, l2, k)
          <6> HIDE DEF l, p, k, h
          <6> QED BY <3>3
        <5> HIDE DEF l, l2, k
        <5> QED BY <5>1, SameSays
      <4>3. CASE Mentions(p.ledger[r], j)
        <5>1. \/ Mentions(m.ledger[r], j)
              \/ \E g \in Come(n - 1) : m.object[g].key = j /\ Mentions(m.ledger[m.object[g].root], j)
          <6> HIDE DEF Come, In, T
          <6> QED BY <1>3, <4>3
        <5> HIDE DEF Come
        <5> QED BY <3>2, <5>1
      <4>4. CASE j = k /\ Mentions(l2, k)
        <5> HIDE DEF Come, l2, h
        <5> QED BY <3>2, <4>2, <4>4 DEF k, l
      <4> QED BY <4>1, <4>3, <4>4
    <3>10. ASSUME NEW g \in Come(n), ~ Mentions(m.ledger[r], m.object[g].key),
                  \A e \in Come(n) : m.object[e].key = m.object[g].key => e = g
           PROVE  Carries(m.ledger[m.object[g].root], m.object[g].key, q.ledger[r], m.object[g].key)
      <4>1. CASE g = h
        <5>1. ~ Mentions(p.ledger[r], k)
          <6>1. SUFFICES ASSUME Mentions(p.ledger[r], k) PROVE FALSE
            OBVIOUS
          <6>2. \/ Mentions(m.ledger[r], k)
                \/ \E e \in Come(n - 1) : m.object[e].key = k /\ Mentions(m.ledger[m.object[e].root], k)
            <7> HIDE DEF Come, In, T, k
            <7> QED BY <1>3, <6>1
          <6> HIDE DEF Come, h
          <6> QED BY <3>2, <3>10, <4>1, <6>2 DEF k
        <5>2. Carries(l2, k, l3, k)
          <6> HIDE DEF l2, p, k
          <6> QED BY <3>5, <5>1, MergeCarries
        <5>3. Carries(l, k, l3, k)
          <6>1. SameAt(l, l2, k)
            <7> HIDE DEF l, p, k, h
            <7> QED BY <3>3
          <6>2. Fields(l2, k) = Fields(l, k) /\ OriginalVersion(l2, k) = OriginalVersion(l, k)
            <7> HIDE DEF l, l2, k
            <7> QED BY <6>1, SameSays
          <6> HIDE DEF l, l2, l3, k
          <6> QED BY <5>2, <6>1, <6>2 DEF Carries, Tells, SameAt
        <5> HIDE DEF l3, q, h
        <5> QED BY <3>7, <4>1, <5>3 DEF k, l
      <4>2. CASE g # h
        <5>1. g \in Come(n - 1)
          <6> HIDE DEF Come, h
          <6> QED BY <3>2, <4>2
        <5>2. Carries(m.ledger[m.object[g].root], m.object[g].key, p.ledger[r], m.object[g].key)
          <6>1. \A e \in Come(n - 1) : m.object[e].key = m.object[g].key => e = g
            <7> HIDE DEF Come, h
            <7> QED BY <3>2, <3>10
          <6> HIDE DEF Come, In, T
          <6> QED BY <1>3, <3>10, <5>1, <6>1
        <5>3. m.object[g].key # k
          <6> HIDE DEF Come, h
          <6> QED BY <3>2, <3>10, <4>2 DEF k
        <5>4. SameAt(p.ledger[r], l3, m.object[g].key)
          <6> HIDE DEF l3, l2, p, k
          <6> QED BY <3>6, <5>3 DEF Merges, Only
        <5> HIDE DEF l3, q, p
        <5> QED BY <3>7, <5>2, <5>4, CarriesSame
      <4> QED BY <4>1, <4>2
    <3> HIDE DEF In, Come, T, p, h, k, l, l2, l3
    <3> QED BY <2>4, <3>8, <3>9, <3>10 DEF q
  <2> QED BY <2>5, <2>6
<1>4. Good(N)
  <2> DEFINE S == {n \in 0 .. N : Good(n)}
  <2>1. 0 \in S /\ \A n \in 1 .. N : n - 1 \in S => n \in S
    <3> HIDE DEF Good
    <3> QED BY <1>2, <1>3
  <2>2. N \in Nat
    OBVIOUS
  <2>3. 0 .. N \subseteq S
    <3> HIDE DEF S, N
    <3> QED BY <2>1, <2>2, Induct
  <2> HIDE DEF Good
  <2> QED BY <2>2, <2>3
<1>5. In(N) = Range(hs)
  BY DEF Range
<1>6. Come(N) = Comers(m, hs, r)
  <2> HIDE DEF In
  <2> QED BY <1>5 DEF Comers
<1> HIDE DEF In, Come
<1> QED BY <1>1, <1>4, <1>6 DEF Attached

\* What is normal stays as it is.
LEMMA NormalTwice == \A v : Normal(Normal(v)) = Normal(v)
<1> SUFFICES ASSUME NEW v PROVE Normal(Normal(v)) = Normal(v)
  OBVIOUS
<1>1. CASE v \in Unfit
  <2>1. v \in Nat /\ v # 0
    BY <1>1, CheckersAssumption
  <2>2. -v \notin Nat
    BY <2>1
  <2>3. -v \notin Unfit
    BY <2>2, CheckersAssumption
  <2> QED BY <1>1, <2>3 DEF Normal
<1>2. CASE v \notin Unfit
  BY <1>2 DEF Normal
<1> QED BY <1>1, <1>2

\* m says of o, by its key, what l says, but for the fields of a new object, for
\* fields that come with pending ones, and for a value in its normal form.
Like(o, l, m) ==
  /\ OriginalVersion(m, o.key) = OriginalVersion(l, o.key)
  /\ (o.key \in m.new <=> o.key \in l.new) /\ (o.key \in m.deleted <=> o.key \in l.deleted)
  /\ o.action # "Create" =>
       /\ o.key \notin l.new \cup l.deleted /\ o.key \in DOMAIN m.changes => o.key \in DOMAIN l.changes
       /\ "val" \in DOMAIN Fields(m, o.key) <=> "val" \in DOMAIN Fields(l, o.key)
       /\ "val" \in DOMAIN Fields(l, o.key) => Holding(Fields(m, o.key), Fields(l, o.key)["val"])

LEMMA HoldingTrans ==
  ASSUME NEW f, NEW g, NEW v, Holding(f, v), Holding(g, f["val"])
  PROVE  Holding(g, v)
<1>1. /\ f["val"] = v \/ f["val"] = Normal(v)
      /\ g["val"] = f["val"] \/ g["val"] = Normal(f["val"])
      /\ "val" \in DOMAIN g
  BY DEF Holding
<1>2. g["val"] = v \/ g["val"] = Normal(v)
  BY <1>1, NormalTwice
<1> QED BY <1>1, <1>2 DEF Holding

LEMMA LikeFaithful ==
  ASSUME NEW l, NEW m, NEW o, NEW snap, NEW bk, Like(o, l, m), Faithful(o, l, snap, bk)
  PROVE  Faithful(o, m, snap, bk)
<1>1. ASSUME o.action = "Update"
      PROVE  /\ o.key \notin m.new \cup m.deleted
             /\ o.key \in DOMAIN m.changes => Changed(o, snap)
             /\ Changed(o, snap) => Holding(Fields(m, o.key), o.val)
  <2>1. /\ o.key \notin m.new \cup m.deleted
        /\ o.key \in DOMAIN m.changes => Changed(o, snap)
    BY <1>1 DEF Like, Faithful
  <2>2. ASSUME Changed(o, snap) PROVE Holding(Fields(m, o.key), o.val)
    <3>1. Holding(Fields(l, o.key), o.val)
      BY <1>1, <2>2 DEF Faithful
    <3>2. Holding(Fields(m, o.key), Fields(l, o.key)["val"])
      BY <1>1, <3>1 DEF Like, Holding
    <3> QED BY <3>1, <3>2, HoldingTrans
  <2> QED BY <2>1, <2>2
<1> QED BY <1>1 DEF Like, Faithful

LEMMA SameLike ==
  ASSUME NEW l, NEW m, NEW o, SameAt(l, m, o.key)
  PROVE  Like(o, l, m)
<1>1. Fields(m, o.key) = Fields(l, o.key) /\ OriginalVersion(m, o.key) = OriginalVersion(l, o.key)
  BY SameSays
<1> QED BY <1>1 DEF SameAt, Like, Holding

LEMMA LikeTrans ==
  ASSUME NEW l, NEW m, NEW n, NEW o, Like(o, l, m), Like(o, m, n)
  PROVE  Like(o, l, n)
<1>1. ASSUME o.action # "Create", "val" \in DOMAIN Fields(l, o.key)
      PROVE  Holding(Fields(n, o.key), Fields(l, o.key)["val"])
  <2>1. /\ Holding(Fields(m, o.key), Fields(l, o.key)["val"])
        /\ Holding(Fields(n, o.key), Fields(m, o.key)["val"])
    BY <1>1 DEF Like
  <2> QED BY <2>1, HoldingTrans
<1> QED BY <1>1 DEF Like

\* The values of the checked command of an object are put into its ledger.
Checks(m, n, h) ==
  /\ MemoryOK(n) /\ n.object = m.object
  /\ Within(m.ledger, n.ledger, {<<m.object[h].root, m.object[h].key>>})
  /\ Like(m.object[h], m.ledger[m.object[h].root], n.ledger[m.object[h].root])

LEMMA CheckOne ==
  ASSUME NEW m, MemoryOK(m), NEW h \in Objects
  PROVE  Checks(m, Check(m, h), h)
<1> DEFINE o == m.object[h]
           r == o.root
           l == m.ledger[r]
           values == Command(m, h).values
           n == Check(m, h)
<1>1. r \in Objects /\ IsLedger(l) /\ LedgersOK(m.ledger) /\ DOMAIN m = {"object", "ledger"}
  BY DEF MemoryOK, LedgersOK
<1>2. CASE ~ Pending(m, h)
  <2>1. n = m
    BY <1>2 DEF Check
  <2>2. SameAt(l, l, o.key)
    BY DEF SameAt
  <2>3. Like(o, l, l)
    <3> HIDE DEF o, l
    <3> QED BY <2>2, SameLike
  <2> HIDE DEF n
  <2> QED BY <1>1, <2>1, <2>3, WithinSelf DEF Checks, n
<1>3. CASE Pending(m, h)
  <2> DEFINE l2 == SetFields(l, o.key, values)
  <2>1. n = [m EXCEPT !.ledger[m.object[h].root] = SetFields(@, m.object[h].key, values)]
    BY <1>3 DEF Check
  <2>2. DOMAIN n = {"object", "ledger"} /\ n.object = m.object /\ n.ledger = [m.ledger EXCEPT ![r] = l2]
    <3> HIDE DEF n, values
    <3> QED BY <1>1, <2>1
  <2>3. Sets(l, l2, o.key, values)
    <3> HIDE DEF l, o, values
    <3> QED BY <1>1, SetFieldsSays
  <2>4. /\ o.action = "Update" =>
             /\ DOMAIN values = DOMAIN Fields(l, o.key) \cup Stamps
             /\ "val" \in DOMAIN Fields(l, o.key) => values["val"] = Normal(Fields(l, o.key)["val"])
        /\ o.action \notin {"Create", "Update"} => values = <<>>
    <3>1. /\ o.action = "Update" => values = Fixed(Fields(l, o.key))
          /\ o.action \notin {"Create", "Update"} => values = <<>>
      BY DEF Command
    <3> DEFINE fs == Fields(l, o.key)
    <3>2. /\ DOMAIN Fixed(fs) = DOMAIN fs \cup Stamps
          /\ "val" \in DOMAIN fs => Fixed(fs)["val"] = Normal(fs["val"])
      <4> HIDE DEF fs
      <4> QED BY CheckersAssumption DEF Fixed
    <3> HIDE DEF values, l, o
    <3> QED BY <3>1, <3>2
  <2>9. HasPending(l, o.key)
    BY <1>3 DEF Pending
  <2> HIDE DEF n, l2, values
  <2>5. n.ledger[r] = l2
    <3> HIDE DEF l2, r
    <3> QED BY <1>1, <2>2 DEF LedgersOK
  <2>6. Within(m.ledger, n.ledger, {<<r, o.key>>})
    <3> DEFINE K == {o.key}
    <3>1. Only(l, l2, K)
      BY <2>3 DEF Sets
    <3>2. Within(m.ledger, n.ledger, {<<r, k>> : k \in K})
      <4> DEFINE led == m.ledger
      <4>1. LedgersOK(led) /\ Only(led[r], l2, K)
        BY <1>1, <3>1
      <4>2. Within(led, [led EXCEPT ![r] = l2], {<<r, k>> : k \in K})
        <5> HIDE DEF led, K, r
        <5> QED BY <1>1, <4>1, WithinOne
      <4> HIDE DEF K, r
      <4> QED BY <2>2, <4>2
    <3>3. {<<r, k>> : k \in K} = {<<r, o.key>>}
      OBVIOUS
    <3> HIDE DEF K, o
    <3> QED BY <3>2, <3>3
  <2>7. Like(o, l, l2)
    <3> HIDE DEF o, l
    <3>1. OriginalVersion(l2, o.key) = OriginalVersion(l, o.key)
      BY <2>3 DEF Sets, OriginalVersion
    <3>2. (o.key \in l2.new <=> o.key \in l.new) /\ (o.key \in l2.deleted <=> o.key \in l.deleted)
      BY <2>3 DEF Sets
    <3>3. ASSUME o.action # "Create"
          PROVE  /\ o.key \notin l.new \cup l.deleted /\ o.key \in DOMAIN l2.changes => o.key \in DOMAIN l.changes
                 /\ "val" \in DOMAIN Fields(l2, o.key) <=> "val" \in DOMAIN Fields(l, o.key)
                 /\ "val" \in DOMAIN Fields(l, o.key) => Holding(Fields(l2, o.key), Fields(l, o.key)["val"])
      <4>1. CASE o.action = "Update"
        <5>1. "val" \notin Stamps
          BY CheckersAssumption
        <5>2. "val" \in DOMAIN Fields(l2, o.key) <=> "val" \in DOMAIN Fields(l, o.key)
          BY <2>3, <2>4, <4>1, <5>1 DEF Sets
        <5>3. "val" \in DOMAIN Fields(l, o.key) => Fields(l2, o.key)["val"] = Normal(Fields(l, o.key)["val"])
          BY <2>3, <2>4, <4>1 DEF Sets
        <5> QED BY <2>9, <5>2, <5>3 DEF HasPending, Holding
      <4>2. CASE o.action # "Update"
        <5>1. DOMAIN values = {}
          <6>1. DOMAIN <<>> = {}
            OBVIOUS
          <6> QED BY <2>4, <3>3, <4>2, <6>1
        <5>2. l2 = l
          BY <2>3, <5>1 DEF Sets
        <5> QED BY <5>2 DEF Holding
      <4> QED BY <4>1, <4>2
    <3> QED BY <3>1, <3>2, <3>3 DEF Like
  <2>8. MemoryOK(n)
    <3>1. LedgersOK(n.ledger)
      BY <2>6 DEF Within
    <3> QED BY <2>2, <3>1 DEF MemoryOK
  <2> QED BY <2>2, <2>5, <2>6, <2>7, <2>8 DEF Checks, n
<1> QED BY <1>2, <1>3

\* The checked values of hs are put into their ledgers.
Checked(m, lat, hs) ==
  /\ Within(m.ledger, lat, {<<m.object[g].root, m.object[g].key>> : g \in Range(hs)})
  /\ \A h \in Objects :
       (\A g \in Range(hs) \ {h} :
          ~ (m.object[g].key = m.object[h].key /\ m.object[g].root = m.object[h].root)) =>
       Like(m.object[h], m.ledger[m.object[h].root], lat[m.object[h].root])

LEMMA CheckedSays ==
  ASSUME NEW m, MemoryOK(m), NEW hs \in Seq(Objects)
  PROVE  Checked(m, CheckedLedger(m, hs), hs)
<1> DEFINE N == Len(hs)
           In(n) == {hs[i] : i \in 1 .. n}
           T(n) == {<<m.object[g].root, m.object[g].key>> : g \in In(n)}
           Apart(h, n) == \A g \in In(n) \ {h} :
             ~ (m.object[g].key = m.object[h].key /\ m.object[g].root = m.object[h].root)
<1>1. PICK f : /\ f[0] = m /\ \A n \in 1 .. N : f[n] = Check(f[n - 1], hs[n])
               /\ CheckedLedger(m, hs) = f[N].ledger
  <2>1. Len(hs) \in Nat
    OBVIOUS
  <2> QED BY <2>1, CheckSteps
<1> DEFINE Good(n) ==
      /\ MemoryOK(f[n]) /\ f[n].object = m.object
      /\ Within(m.ledger, f[n].ledger, T(n))
      /\ \A h \in Objects : Apart(h, n) =>
           Like(m.object[h], m.ledger[m.object[h].root], f[n].ledger[m.object[h].root])
<1>2. Good(0)
  <2>1. LedgersOK(m.ledger)
    BY DEF MemoryOK
  <2>2. \A h \in Objects : Like(m.object[h], m.ledger[m.object[h].root], m.ledger[m.object[h].root])
    BY DEF Like, Holding
  <2> HIDE DEF In, T, Apart
  <2> QED BY <1>1, <2>1, <2>2, WithinSelf
<1>3. ASSUME NEW n \in 1 .. N, Good(n - 1) PROVE Good(n)
  <2> DEFINE p == f[n - 1]
             q == f[n]
             g == hs[n]
             r == m.object[g].root
  <2>1. g \in Objects /\ In(n) = In(n - 1) \cup {g} /\ In(n - 1) \subseteq Objects
    <3>1. \A i \in 1 .. N : hs[i] \in Objects
      OBVIOUS
    <3>2. n \in 1 .. n /\ \A i \in 1 .. n : i = n \/ i \in 1 .. n - 1
      OBVIOUS
    <3>3. \A i \in 1 .. n - 1 : i \in 1 .. n /\ i \in 1 .. N
      OBVIOUS
    <3> QED BY <3>1, <3>2, <3>3
  <2>2. MemoryOK(p) /\ p.object = m.object /\ Within(m.ledger, p.ledger, T(n - 1))
    <3> HIDE DEF T, Apart
    <3> QED BY <1>3
  <2>3. Checks(p, q, g)
    <3>1. q = Check(p, g)
      BY <1>1
    <3> HIDE DEF p, q, g
    <3> QED BY <2>1, <2>2, <3>1, CheckOne
  <2>4. MemoryOK(q) /\ q.object = m.object
    BY <2>2, <2>3 DEF Checks
  <2>5. Within(p.ledger, q.ledger, {<<r, m.object[g].key>>})
    <3> HIDE DEF p, q, g
    <3> QED BY <2>2, <2>3 DEF Checks
  <2>6. Within(m.ledger, q.ledger, T(n))
    <3>1. T(n - 1) \cup {<<r, m.object[g].key>>} = T(n)
      <4> HIDE DEF In, g
      <4> QED BY <2>1
    <3> HIDE DEF T, p, q, g
    <3> QED BY <2>2, <2>5, <3>1, WithinTrans
  <2>7. ASSUME NEW h \in Objects, Apart(h, n)
        PROVE  Like(m.object[h], m.ledger[m.object[h].root], q.ledger[m.object[h].root])
    <3> DEFINE o == m.object[h]
    <3>1. o.root \in Objects
      BY DEF MemoryOK
    <3>2. Like(o, m.ledger[o.root], p.ledger[o.root])
      <4>1. Apart(h, n - 1)
        <5> HIDE DEF In, g
        <5> QED BY <2>1, <2>7
      <4> HIDE DEF Apart, T
      <4> QED BY <1>3, <4>1
    <3>3. Like(o, p.ledger[o.root], q.ledger[o.root])
      <4>1. CASE g = h
        <5> HIDE DEF p, q, g
        <5> QED BY <2>2, <2>3, <4>1 DEF Checks
      <4>2. CASE g # h
        <5>1. <<o.root, o.key>> # <<r, m.object[g].key>>
          <6> HIDE DEF In, g
          <6> QED BY <2>1, <2>7, <4>2
        <5>2. SameAt(p.ledger[o.root], q.ledger[o.root], o.key)
          <6> HIDE DEF p, q, g, o, r
          <6> QED BY <2>5, <3>1, <5>1 DEF Within
        <5> HIDE DEF p, q, o
        <5> QED BY <5>2, SameLike
      <4> QED BY <4>1, <4>2
    <3> HIDE DEF p, q, o
    <3> QED BY <3>2, <3>3, LikeTrans DEF o
  <2> HIDE DEF T, p, In, Apart
  <2> QED BY <2>4, <2>6, <2>7 DEF q
<1>4. Good(N)
  <2> DEFINE S == {n \in 0 .. N : Good(n)}
  <2>1. 0 \in S /\ \A n \in 1 .. N : n - 1 \in S => n \in S
    <3> HIDE DEF Good
    <3> QED BY <1>2, <1>3
  <2>2. N \in Nat
    OBVIOUS
  <2>3. 0 .. N \subseteq S
    <3> HIDE DEF S, N
    <3> QED BY <2>1, <2>2, Induct
  <2> HIDE DEF Good
  <2> QED BY <2>2, <2>3
<1>5. In(N) = Range(hs)
  BY DEF Range
<1> HIDE DEF In
<1> QED BY <1>1, <1>4, <1>5 DEF Checked

\* The written objects are committed.
Settles(lat, written) ==
  /\ Within(ledger, lat, {<<Root(w[1]), w[2]>> : w \in Range(written)})
  /\ \A h \in Objects : \A k, v :
       (\E w \in Range(written) : w[1] = h /\ w[2] = k)
         /\ (\A w \in Range(written) : Root(w[1]) = Root(h) /\ w[2] = k => object[w[1]].ver = {v}) =>
       ~ HasPending(lat[Root(h)], k) /\ OriginalVersion(lat[Root(h)], k) = {v}

LEMMA SettledSays ==
  ASSUME NEW written, written \in Seq(Range(written)), LedgersOK(ledger), \A h \in Objects : Root(h) \in Objects,
         \A w \in Range(written) : w[1] \in Objects
  PROVE  Settles(Settled(written), written)
<1> DEFINE N == Len(written)
           In(n) == {written[i] : i \in 1 .. n}
           T(n) == {<<Root(w[1]), w[2]>> : w \in In(n)}
           Done(h, k, v, n) ==
             /\ \E w \in In(n) : w[1] = h /\ w[2] = k
             /\ \A w \in In(n) : Root(w[1]) = Root(h) /\ w[2] = k => object[w[1]].ver = {v}
<1>1. PICK f : /\ f[0] = ledger /\ \A n \in 1 .. N : f[n] = CommitEntity(f[n - 1], written[n])
               /\ Settled(written) = f[N]
  <2>1. Len(written) \in Nat
    OBVIOUS
  <2> QED BY <2>1, SettleSteps
<1> DEFINE Good(n) ==
      /\ LedgersOK(f[n]) /\ Within(ledger, f[n], T(n))
      /\ \A h \in Objects : \A k, v : Done(h, k, v, n) =>
           ~ HasPending(f[n][Root(h)], k) /\ OriginalVersion(f[n][Root(h)], k) = {v}
<1>2. Good(0)
  <2>1. In(0) = {}
    OBVIOUS
  <2>2. \A h, k, v : ~ Done(h, k, v, 0)
    <3> HIDE DEF In
    <3> QED BY <2>1
  <2> HIDE DEF In, T, Done
  <2> QED BY <1>1, <2>2, WithinSelf
<1>3. ASSUME NEW n \in 1 .. N, Good(n - 1) PROVE Good(n)
  <2> DEFINE p == f[n - 1]
             q == f[n]
             w == written[n]
             r == Root(w[1])
             l == AcceptCommittedVersion(ClearEntity(p[r], w[2]), w[2], object[w[1]].ver)
  <2>1. w \in Range(written) /\ In(n) = In(n - 1) \cup {w}
    <3>1. n \in 1 .. n /\ \A i \in 1 .. n : i = n \/ i \in 1 .. n - 1
      OBVIOUS
    <3>2. \A i \in 1 .. n - 1 : i \in 1 .. n
      OBVIOUS
    <3>3. n \in DOMAIN written
      OBVIOUS
    <3> QED BY <3>1, <3>2, <3>3 DEF Range
  <2>2. r \in Objects /\ LedgersOK(p) /\ IsLedger(p[r]) /\ Within(ledger, p, T(n - 1))
    <3>1. w[1] \in Objects
      <4> HIDE DEF w
      <4> QED BY <2>1
    <3>2. LedgersOK(p) /\ Within(ledger, p, T(n - 1))
      <4> HIDE DEF T, Done
      <4> QED BY <1>3
    <3> HIDE DEF p, w, T
    <3> QED BY <3>1, <3>2 DEF LedgersOK
  <2>3. q = [p EXCEPT ![r] = l]
    <3>1. q = CommitEntity(p, w)
      BY <1>1
    <3> HIDE DEF q, p, w
    <3> QED BY <3>1 DEF CommitEntity
  <2>4. Accepts(p[r], l, w[2], object[w[1]].ver)
    <3> HIDE DEF p, w, r
    <3> QED BY <2>2, AcceptSays
  <2>5. q[r] = l /\ Within(p, q, {<<r, w[2]>>})
    <3> DEFINE K == {w[2]}
    <3>1. Only(p[r], l, K)
      BY <2>4 DEF Accepts
    <3>2. Within(p, q, {<<r, k>> : k \in K})
      <4> HIDE DEF K, r, l, p, q
      <4> QED BY <2>2, <2>3, <3>1, WithinOne
    <3>3. {<<r, k>> : k \in K} = {<<r, w[2]>>}
      OBVIOUS
    <3>4. q[r] = l
      <4> HIDE DEF r, l, p, q
      <4> QED BY <2>2, <2>3 DEF LedgersOK
    <3> HIDE DEF K, r, w, p, q
    <3> QED BY <3>2, <3>3, <3>4
  <2>6. Within(ledger, q, T(n))
    <3>1. T(n - 1) \cup {<<r, w[2]>>} = T(n)
      <4> HIDE DEF In, w
      <4> QED BY <2>1
    <3> HIDE DEF T, p, q, w, r
    <3> QED BY <2>2, <2>5, <3>1, WithinTrans
  <2>7. ASSUME NEW h \in Objects, NEW k, NEW v, Done(h, k, v, n)
        PROVE  ~ HasPending(q[Root(h)], k) /\ OriginalVersion(q[Root(h)], k) = {v}
    <3>1. CASE r = Root(h) /\ w[2] = k
      <4>1. object[w[1]].ver = {v}
        <5> HIDE DEF In, w
        <5> QED BY <2>1, <2>7, <3>1 DEF r
      <4> HIDE DEF q, w, r, l
      <4> QED BY <2>4, <2>5, <3>1, <4>1 DEF Accepts
    <3>2. CASE ~ (r = Root(h) /\ w[2] = k)
      <4>1. Done(h, k, v, n - 1)
        <5> HIDE DEF In, w
        <5> QED BY <2>1, <2>7, <3>2 DEF r
      <4>2. ~ HasPending(p[Root(h)], k) /\ OriginalVersion(p[Root(h)], k) = {v}
        <5> HIDE DEF Done, T
        <5> QED BY <1>3, <4>1
      <4>3. SameAt(p[Root(h)], q[Root(h)], k)
        <5>1. <<Root(h), k>> # <<r, w[2]>>
          BY <3>2
        <5> HIDE DEF p, q, r, w
        <5> QED BY <2>5, <5>1 DEF Within
      <4> HIDE DEF p, q
      <4> QED BY <4>2, <4>3, SameSays
    <3> QED BY <3>1, <3>2
  <2>8. LedgersOK(q)
    BY <2>6 DEF Within
  <2> HIDE DEF T, p, In, Done
  <2> QED BY <2>6, <2>7, <2>8 DEF q
<1>4. Good(N)
  <2> DEFINE S == {n \in 0 .. N : Good(n)}
  <2>1. 0 \in S /\ \A n \in 1 .. N : n - 1 \in S => n \in S
    <3> HIDE DEF Good
    <3> QED BY <1>2, <1>3
  <2>2. N \in Nat
    OBVIOUS
  <2>3. 0 .. N \subseteq S
    <3> HIDE DEF S, N
    <3> QED BY <2>1, <2>2, Induct
  <2> HIDE DEF Good
  <2> QED BY <2>2, <2>3
<1>5. In(N) = Range(written)
  BY DEF Range
<1>6. T(N) = {<<Root(w[1]), w[2]>> : w \in Range(written)}
  <2> HIDE DEF In
  <2> QED BY <1>5
<1>7. Within(ledger, f[N], T(N))
  <2> HIDE DEF T, Done
  <2> QED BY <1>4
<1>8. ASSUME NEW h \in Objects, NEW k, NEW v,
             \E w \in Range(written) : w[1] = h /\ w[2] = k,
             \A w \in Range(written) : Root(w[1]) = Root(h) /\ w[2] = k => object[w[1]].ver = {v}
      PROVE  ~ HasPending(f[N][Root(h)], k) /\ OriginalVersion(f[N][Root(h)], k) = {v}
  <2>1. Done(h, k, v, N)
    <3> HIDE DEF In
    <3> QED BY <1>5, <1>8
  <2> HIDE DEF T, Done
  <2> QED BY <1>4, <2>1
<1> DEFINE lat == f[N]
<1>9. Within(ledger, lat, {<<Root(w[1]), w[2]>> : w \in Range(written)})
  <2> HIDE DEF T
  <2> QED BY <1>6, <1>7
<1>10. Settles(lat, written)
  <2> HIDE DEF lat
  <2> SUFFICES ASSUME NEW h \in Objects, NEW k, NEW v,
                      \E w \in Range(written) : w[1] = h /\ w[2] = k,
                      \A w \in Range(written) : Root(w[1]) = Root(h) /\ w[2] = k => object[w[1]].ver = {v}
               PROVE  ~ HasPending(lat[Root(h)], k) /\ OriginalVersion(lat[Root(h)], k) = {v}
    BY <1>9 DEF Settles
  <2> HIDE DEF N
  <2> QED BY <1>8 DEF lat
<1> HIDE DEF N
<1> QED BY <1>1, <1>10

\* The objects of old that had another key when they were written.
Rekeyed(old) == {g \in Objects : \E e \in Range(old) : e[1] = g /\ e[2].key # Key(g)}
\* The keys such an object has had.
OldKeys(g, old) == {Key(g)} \cup {e[2].key : e \in {d \in Range(old) : d[1] = g}}

LEMMA RestoredSays ==
  ASSUME NEW old, old \in Seq(Range(old)), ObjectsOK(object), LedgersOK(ledger),
         \A h \in Objects : Root(h) \in Objects,
         \A e \in Range(old) : e[1] \in Objects /\ IsObject(e[2])
  PROVE  Within(ledger, RestoredLedger(old),
                UNION {{Root(g)} \X OldKeys(g, old) : g \in Rekeyed(old)})
<1> DEFINE N == Len(old)
           T == UNION {{Root(g)} \X OldKeys(g, old) : g \in Rekeyed(old)}
<1>1. PICK f : /\ f[0] = Memory /\ \A n \in 1 .. N : f[n] = Restored(f[n - 1], Reverse(old)[n])
               /\ RestoredLedger(old) = f[N].ledger
  <2>1. Len(old) \in Nat
    OBVIOUS
  <2> QED BY <2>1, RestoreSteps
<1> DEFINE Good(n) ==
      /\ MemoryOK(f[n]) /\ Within(ledger, f[n].ledger, T)
      /\ \A g \in Objects : /\ f[n].object[g].root = Root(g)
                            /\ f[n].object[g].key \in OldKeys(g, old)
<1>2. Good(0)
  <2>1. MemoryOK(Memory) /\ Memory.object = object /\ Memory.ledger = ledger
    BY DEF Memory, MemoryOK, Root
  <2>2. \A g \in Objects : object[g].root = Root(g) /\ object[g].key \in OldKeys(g, old)
    BY DEF Root, Key, OldKeys
  <2> HIDE DEF T
  <2> QED BY <1>1, <2>1, <2>2, WithinSelf
<1>3. ASSUME NEW n \in 1 .. N, Good(n - 1) PROVE Good(n)
  <2> DEFINE p == f[n - 1]
             q == f[n]
             e == Reverse(old)[n]
             g == e[1]
             o == p.object[g]
             a == o.key
             b == e[2].key
             l == Rekey(p.ledger[o.root], a, b)
  <2>1. e \in Range(old)
    <3>1. N - n + 1 \in 1 .. N /\ DOMAIN old = 1 .. N
      OBVIOUS
    <3>2. e = old[N - n + 1]
      BY DEF Reverse
    <3> HIDE DEF e, N
    <3> QED BY <3>1, <3>2 DEF Range
  <2>2. g \in Objects /\ IsObject(e[2]) /\ b \in OldKeys(g, old)
    <3> HIDE DEF e
    <3> QED BY <2>1 DEF OldKeys
  <2>3. /\ MemoryOK(p) /\ Within(ledger, p.ledger, T)
        /\ \A h \in Objects : p.object[h].root = Root(h) /\ p.object[h].key \in OldKeys(h, old)
    <3> HIDE DEF T
    <3> QED BY <1>3
  <2>4. o.root = Root(g) /\ a \in OldKeys(g, old) /\ Root(g) \in Objects
    <3> HIDE DEF p, g, e
    <3> QED BY <2>2, <2>3
  <2>5. q = [p EXCEPT !.object[g] = Earlier(o, e), !.ledger[o.root] = Rekey(@, a, Earlier(o, e).key)]
    <3>1. q = Restored(p, e)
      BY <1>1
    <3> HIDE DEF p, q, e
    <3> QED BY <3>1 DEF Restored
  <2> DEFINE c == Earlier(o, e)
  <2>6. /\ IsObject(c) /\ c.key = b /\ c.root = o.root
    <3>1. c = [e[2] EXCEPT !.root = o.root]
      BY DEF Earlier
    <3> HIDE DEF c, o, e
    <3> QED BY <2>2, <3>1 DEF IsObject, ObjectFields, b
  <2>7. /\ DOMAIN q = {"object", "ledger"} /\ q.object = [p.object EXCEPT ![g] = c]
        /\ q.ledger = [p.ledger EXCEPT ![o.root] = l]
    <3>1. DOMAIN p = {"object", "ledger"}
      <4> HIDE DEF p
      <4> QED BY <2>3 DEF MemoryOK
    <3> HIDE DEF p, q, c, o, g, a, e
    <3> QED BY <2>5, <2>6, <3>1 DEF c, b
  <2>8. /\ DOMAIN q.object = Objects /\ q.object[g] = c
        /\ \A h \in Objects \ {g} : q.object[h] = p.object[h]
    <3> HIDE DEF p, q, c, g, e, l, o
    <3> QED BY <2>2, <2>3, <2>7 DEF MemoryOK, ObjectsOK
  <2>9. \A h \in Objects : /\ q.object[h].root = Root(h) /\ q.object[h].key \in OldKeys(h, old)
                           /\ IsObject(q.object[h])
    <3> HIDE DEF p, q, c, g, e, l, o, b
    <3> QED BY <2>2, <2>3, <2>4, <2>6, <2>8 DEF MemoryOK, ObjectsOK
  <2>10. LedgersOK(p.ledger) /\ IsLedger(p.ledger[o.root])
    <3> HIDE DEF p, o, g, e
    <3> QED BY <2>3, <2>4 DEF MemoryOK, LedgersOK
  <2>11. Moved(p.ledger[o.root], l, a, b)
    <3> HIDE DEF p, o, a, b, e, g
    <3> QED BY <2>10, RekeySays
  <2>12. Within(p.ledger, q.ledger, {<<o.root, k>> : k \in {a, b}})
    <3> DEFINE K == {a, b}
               led == p.ledger
               r == o.root
    <3>1. Only(led[r], l, K)
      <4> HIDE DEF l, a, b, p, o
      <4> QED BY <2>11 DEF Moved
    <3>2. Within(led, [led EXCEPT ![r] = l], {<<r, k>> : k \in K})
      <4>1. r \in Objects /\ LedgersOK(led)
        <5> HIDE DEF p, o, g, e
        <5> QED BY <2>4, <2>10
      <4> HIDE DEF led, K, r, l
      <4> QED BY <3>1, <4>1, WithinOne
    <3> HIDE DEF p, q, o, l, a, b
    <3> QED BY <2>7, <3>2
  <2>13. Within(p.ledger, q.ledger, T)
    <3>1. CASE a = b
      <4>1. l = p.ledger[o.root]
        <5> HIDE DEF l, a, b, p, o
        <5> QED BY <2>11, <3>1 DEF Moved
      <4>2. q.ledger = [p.ledger EXCEPT ![o.root] = p.ledger[o.root]]
        BY <2>7, <4>1
      <4>3. LedgersOK(q.ledger)
        <5> HIDE DEF p, q, o, a, b
        <5> QED BY <2>12 DEF Within
      <4>4. \A h \in Objects : q.ledger[h] = p.ledger[h]
        <5> HIDE DEF p, q, o
        <5> QED BY <2>10, <4>2 DEF LedgersOK
      <4> HIDE DEF p, q, T
      <4> QED BY <4>3, <4>4 DEF Within, SameAt
    <3>2. CASE a # b
      <4>1. g \in Rekeyed(old)
        <5>1. a = Key(g) \/ \E d \in Range(old) : d[1] = g /\ d[2].key = a
          <6> HIDE DEF a, g
          <6> QED BY <2>4 DEF OldKeys
        <5> HIDE DEF a, e
        <5> QED BY <2>1, <2>2, <3>2, <5>1 DEF Rekeyed, g, b
      <4>2. {<<o.root, k>> : k \in {a, b}} \subseteq T
        <5> HIDE DEF a, b, g, o
        <5> QED BY <2>2, <2>4, <4>1
      <4> HIDE DEF p, q, T, o, a, b
      <4> QED BY <2>12, <4>2, WithinMore
    <3> QED BY <3>1, <3>2
  <2>14. Within(ledger, q.ledger, T)
    <3>1. T \cup T = T
      OBVIOUS
    <3> HIDE DEF p, q, T
    <3> QED BY <2>3, <2>13, <3>1, WithinTrans
  <2>15. MemoryOK(q)
    <3> HIDE DEF p, q, T
    <3>1. ObjectsOK(q.object)
      BY <2>8, <2>9 DEF ObjectsOK
    <3>2. LedgersOK(q.ledger)
      BY <2>14 DEF Within
    <3>3. \A h \in Objects : q.object[h].root \in Objects
      BY <2>9
    <3> QED BY <2>7, <3>1, <3>2, <3>3 DEF MemoryOK
  <2> HIDE DEF T, p
  <2> QED BY <2>9, <2>14, <2>15 DEF q
<1>4. Good(N)
  <2> DEFINE S == {n \in 0 .. N : Good(n)}
  <2>1. 0 \in S /\ \A n \in 1 .. N : n - 1 \in S => n \in S
    <3> HIDE DEF Good
    <3> QED BY <1>2, <1>3
  <2>2. N \in Nat
    OBVIOUS
  <2>3. 0 .. N \subseteq S
    <3> HIDE DEF S, N
    <3> QED BY <2>1, <2>2, Induct
  <2> HIDE DEF Good
  <2> QED BY <2>2, <2>3
<1> QED BY <1>1, <1>4

-----------------------------------------------------------------------------
(* A step leaves the ledgers of other objects as they are *)

\* Ledgers lat differ from led at keys of the objects in G, in the ledgers these
\* have in p.
Touches(G, led, lat, p) ==
  /\ LedgersOK(lat)
  /\ \A r \in Objects : \A k :
       (\A g \in G : p[g].root = r => ~ Claims(g, k, object, save) /\ p[g].key # k /\ g # k) =>
         SameAt(led[r], lat[r], k)

\* The objects of p go by keys they claimed, or by one they waited for.
Rightful(p) ==
  \A g \in Objects : Claims(g, p[g].key, object, save) \/ \E s \in Savers : Waits(save[s], g)

\* An object comes to the ledger of its owner, if to any.
Joins(p) ==
  \A g \in Objects : \/ p[g].root = object[g].root
                     \/ object[g].root = g /\ items[g] = <<>> /\ p[g].root \in Objects
                        /\ g \in Range(items[p[g].root])

LEMMA SharedKey ==
  ASSUME KeysInv(object, save), NEW p, Rightful(p), NEW g \in Objects, NEW h \in Objects, g # h,
         NEW k, Claims(g, k, object, save), Claims(h, k, object, save)
  PROVE  p[g].key = k /\ object[g].key = k
<1>1. (\A j : Claims(g, j, object, save) => j = k) /\ \A s \in Savers : ~ Waits(save[s], g)
  BY DEF KeysInv
<1>2. Claims(g, p[g].key, object, save)
  BY <1>1 DEF Rightful
<1>3. Claims(g, object[g].key, object, save)
  BY DEF Claims
<1> QED BY <1>1, <1>2, <1>3

LEMMA OwnClaim == \A h : Claims(h, object[h].key, object, save)
BY DEF Claims

\* Objects that share a key and a ledger go on sharing them.
LEMMA AloneBefore ==
  ASSUME LInv, NEW p, Rightful(p), Joins(p), NEW h \in Objects, Alone(h, p)
  PROVE  Alone(h, object)
<1> SUFFICES ASSUME NEW g \in Objects \ {h}, object[g].key = object[h].key, object[g].root = object[h].root
             PROVE  FALSE
  BY DEF Alone
<1> DEFINE k == object[h].key
<1>1. KeysInv(object, save) /\ RootsInv(object)
  BY DEF LInv
<1>2. Claims(g, k, object, save) /\ Claims(h, k, object, save)
  BY OwnClaim
<1>3. p[g].key = k /\ p[h].key = k
  BY <1>1, <1>2, SharedKey
<1>4. Range(<<>>) = {}
  BY DEF Range
<1>5. p[g].root = object[g].root
  BY <1>1, <1>4 DEF Joins, RootsInv
<1>6. p[h].root = object[h].root
  BY <1>1, <1>4 DEF Joins, RootsInv
<1> QED BY <1>3, <1>5, <1>6 DEF Alone

LEMMA Frame ==
  ASSUME KeysInv(object, save), NEW p, Rightful(p), NEW G, G \subseteq Objects, NEW lat,
         Touches(G, ledger, lat, p), NEW h \in Objects \ G, p[h].key = object[h].key,
         p[h].root = object[h].root, object[h].root \in Objects, Alone(h, p)
  PROVE  SameAt(ledger[object[h].root], lat[object[h].root], object[h].key)
<1> DEFINE k == object[h].key
<1>1. ASSUME NEW g \in G, p[g].root = object[h].root PROVE ~ Claims(g, k, object, save) /\ p[g].key # k /\ g # k
  <2>1. p[g].key # k
    BY <1>1 DEF Alone
  <2>2. Claims(g, k, object, save) => p[g].key = k
    BY OwnClaim, SharedKey
  <2>3. k \in Ids \cup {h}
    BY OwnClaim DEF KeysInv
  <2>4. g # k
    BY <2>3, IdsAssumption DEF IdsAssumption
  <2> QED BY <2>1, <2>2, <2>4
<1> QED BY <1>1 DEF Touches

LEMMA RootOwn ==
  ASSUME LInv, NEW h \in Objects
  PROVE  object[h].root \in Objects /\ object[object[h].root].root = object[h].root
<1>1. LevelsInv /\ RootsInv(object)
  BY DEF LInv
<1>2. CASE object[h].root = h
  BY <1>2
<1>3. CASE object[h].root # h
  <2> DEFINE r == object[h].root
  <2>1. r \in Objects /\ h \in Range(items[r])
    BY <1>1, <1>3 DEF RootsInv
  <2>2. items[r] # <<>>
    <3>1. Range(<<>>) = {}
      BY DEF Range
    <3> QED BY <2>1, <3>1
  <2>3. object[r].root = r
    BY <1>1, <2>1, <2>2 DEF LevelsInv, RootsInv
  <2> QED BY <2>1, <2>3
<1> QED BY <1>2, <1>3

\* What ledgers in use mention is still supported.
LEMMA SupportKept ==
  ASSUME LInv, VInv, nextId' \in Nat, nextId <= nextId', NEW G, G \subseteq Objects, NEW lat, NEW p, NEW sv,
         Touches(G, ledger, lat, p), Rightful(p), Joins(p), ClaimInv(p, sv, table', nextId'),
         \A h \in Objects : \A k : Claims(h, k, p, sv) => Claims(h, k, object, save) \/ ~ Known(k, nextId),
         \A h \in Objects : Claims(h, p[h].key, p, sv)
  PROVE  SupportInv(p, lat, sv, nextId')
<1> SUFFICES ASSUME NEW r \in Objects, NEW k, p[r].root = r, Mentions(lat[r], k)
             PROVE  /\ Known(k, nextId')
                    /\ (\E h \in Objects : Claims(h, k, p, sv)) =>
                         \E g \in Objects : p[g].root = r /\ Claims(g, k, p, sv)
  BY DEF SupportInv
<1>1. /\ KeysInv(object, save) /\ RootsInv(object) /\ SupportInv(object, ledger, save, nextId)
      /\ ClaimInv(object, save, table, nextId) /\ nextId \in Nat
  BY DEF LInv, VInv
<1>2. Known(k, nextId) => Known(k, nextId')
  BY <1>1, KnownGrows
<1>3. CASE SameAt(ledger[r], lat[r], k)
  <2>1. Mentions(ledger[r], k)
    BY <1>3, SameSays
  <2>2. object[r].root = r
    BY DEF Joins
  <2>3. Known(k, nextId)
    BY <1>1, <2>1, <2>2 DEF SupportInv
  <2>4. ASSUME NEW h \in Objects, Claims(h, k, p, sv)
        PROVE  \E g \in Objects : p[g].root = r /\ Claims(g, k, p, sv)
    <3>1. Claims(h, k, object, save)
      BY <2>3, <2>4
    <3>2. PICK g \in Objects : object[g].root = r /\ Claims(g, k, object, save)
      BY <1>1, <2>1, <2>2, <3>1 DEF SupportInv
    <3>3. p[g].root = r
      BY <3>2 DEF Joins
    <3>4. CASE g = h
      BY <2>4, <3>3, <3>4
    <3>5. CASE g # h
      <4>1. p[g].key = k
        BY <1>1, <3>1, <3>2, <3>5, SharedKey
      <4>2. Claims(g, k, p, sv)
        BY <4>1
      <4> QED BY <3>3, <4>2
    <3> QED BY <3>4, <3>5
  <2> QED BY <1>2, <2>3, <2>4
<1>4. CASE ~ SameAt(ledger[r], lat[r], k)
  <2>1. PICK g \in G : p[g].root = r /\ (Claims(g, k, object, save) \/ p[g].key = k \/ g = k)
    BY <1>4 DEF Touches
  <2>2. CASE p[g].key = k
    <3>1. Claims(g, k, p, sv)
      BY <2>1, <2>2
    <3>2. Known(k, nextId')
      BY <2>1, <3>1 DEF ClaimInv
    <3> QED BY <2>1, <3>1, <3>2
  <2>4. CASE g = k
    <3>1. Known(k, nextId) /\ Known(k, nextId')
      BY <2>4 DEF Known
    <3>2. ASSUME NEW h \in Objects, Claims(h, k, p, sv) PROVE h = g
      <4>1. Claims(h, k, object, save)
        BY <3>1, <3>2
      <4>2. k \in Ids \cup {h}
        BY <1>1, <4>1 DEF KeysInv
      <4> QED BY <2>4, <4>2, IdsAssumption DEF IdsAssumption
    <3> QED BY <2>1, <3>1, <3>2
  <2>3. CASE p[g].key # k /\ g # k
    <3>1. Claims(g, k, object, save)
      BY <2>1, <2>3
    <3>2. Known(k, nextId)
      BY <1>1, <2>1, <3>1 DEF ClaimInv
    <3>3. ASSUME NEW h \in Objects, Claims(h, k, p, sv) PROVE h = g
      <4>1. Claims(h, k, object, save)
        BY <3>2, <3>3
      <4>2. h # g => p[g].key = k
        BY <1>1, <2>1, <3>1, <4>1, SharedKey
      <4> QED BY <2>3, <4>2
    <3> QED BY <1>2, <2>1, <3>2, <3>3
  <2> QED BY <2>2, <2>3, <2>4
<1> QED BY <1>3, <1>4

-----------------------------------------------------------------------------
(* What a step of one call leaves of the invariant *)

\* The ledger of h is faithful, and was to what h was before c wrote it.
Truthful(c, h, obj, led, snap, bk) ==
  /\ ~ Wrote(c, h) => Faithful(obj[h], led[obj[h].root], snap[h], bk)
  /\ \A e \in Range(c.old) : e[1] = h => Faithful(e[2], led[obj[h].root], e[3], bk)

\* An object comes by a new key only by waiting for it.
NewClaims(s, p, sv) ==
  \A h \in Objects : \A k : Claims(h, k, p, sv) =>
    \/ Claims(h, k, object, save)
    \/ Waits(save[s], h) /\ k \in Ids /\ ~ Known(k, nextId)

LEMMA KeysKept ==
  ASSUME KeysInv(object, save), ClaimInv(object, save, table, nextId), NEW s \in Savers, NEW p, NEW sv,
         NewClaims(s, p, sv),
         \A t \in Savers : \A h \in Objects :
           Waits(sv[t], h) => Waits(save[t], h) \/ p[h].key = h
  PROVE  KeysInv(p, sv)
<1>1. ASSUME NEW h \in Objects, NEW k, Claims(h, k, p, sv) PROVE k \in Ids \cup {h}
  BY <1>1 DEF NewClaims, KeysInv
<1>2. ASSUME NEW g \in Objects, NEW h \in Objects, NEW k, g # h, Claims(g, k, p, sv), Claims(h, k, p, sv)
      PROVE  /\ \A j : Claims(h, j, p, sv) => j = k
             /\ \A t \in Savers : ~ Waits(sv[t], h)
  <2>1. Claims(g, k, object, save) /\ Claims(h, k, object, save)
    <3>1. ASSUME NEW o \in Objects, Claims(o, k, object, save) PROVE Known(k, nextId)
      BY <3>1 DEF ClaimInv
    <3>2. Waits(save[s], g) /\ Waits(save[s], h) => FALSE
      BY <1>2 DEF Waits
    <3> QED BY <1>2, <3>1, <3>2 DEF NewClaims
  <2>2. (\A j : Claims(h, j, object, save) => j = k) /\ \A t \in Savers : ~ Waits(save[t], h)
    BY <1>2, <2>1 DEF KeysInv
  <2>3. \A j : Claims(h, j, p, sv) => j = k
    BY <2>2 DEF NewClaims
  <2>4. k # h
    <3>1. k \in Ids \cup {g}
      BY <1>1, <1>2
    <3> QED BY <1>2, <3>1, IdsAssumption DEF IdsAssumption
  <2>5. p[h].key = k
    BY <2>3 DEF Claims
  <2> QED BY <2>2, <2>3, <2>4, <2>5
<1> QED BY <1>1, <1>2 DEF KeysInv

LEMMA RootsKept ==
  ASSUME RootsInv(object), NEW p, Joins(p)
  PROVE  RootsInv(p)
BY DEF RootsInv, Joins

\* A member of a list has no list.
LEMMA ListEmpty ==
  ASSUME LevelsInv, NEW g \in Objects, NEW h \in Objects, g \in Range(items[h])
  PROVE  items[g] = <<>> /\ Range(items[g]) = {} /\ Range(Graph(g)) = {g}
<1>1. items[g] = <<>>
  BY DEF LevelsInv
<1>2. Range(items[g]) = {}
  BY <1>1 DEF Range
<1>3. Graph(g) = <<g>>
  BY <1>1 DEF Graph
<1>4. Range(<<g>>) = {g}
  BY DEF Range
<1> QED BY <1>1, <1>2, <1>3, <1>4

LEMMA GraphRange ==
  ASSUME items \in [Objects -> Seq(Objects)], NEW h \in Objects
  PROVE  /\ Graph(h) \in Seq(Objects) /\ Graph(h) # <<>> /\ Head(Graph(h)) = h
         /\ Range(Graph(h)) = {h} \cup Range(items[h])
<1>1. items[h] \in Seq(Objects)
  OBVIOUS
<1> DEFINE q == items[h]
           g == <<h>> \o q
<1>2. g \in Seq(Objects) /\ g # <<>> /\ Head(g) = h /\ Tail(g) = q
  <2> HIDE DEF q
  <2> QED BY <1>1 DEF q
<1>3. Range(g) = {Head(g)} \cup Range(Tail(g))
  <2> HIDE DEF g
  <2> QED BY <1>2, HeadAndTail
<1> QED BY <1>2, <1>3 DEF Graph

LEMMA GraphKept ==
  ASSUME IInv, LevelsInv, RootsInv(object), NEW c, GraphInv(c, object), NEW p, Joins(p)
  PROVE  GraphInv(c, p)
<1> SUFFICES ASSUME c.pc \in {"write", "commit", "settle"}, NEW h \in Range(c.graph)
             PROVE  p[h].root = p[Head(c.graph)].root
  BY DEF GraphInv
<1>1. PICK o \in Objects : c.graph = Graph(o)
  BY DEF GraphInv
<1>2. Head(c.graph) = o /\ Range(c.graph) = {o} \cup Range(items[o]) /\ h \in Objects
  <2>1. items \in [Objects -> Seq(Objects)]
    BY DEF IInv
  <2>2. Range(items[o]) \subseteq Objects
    BY <2>1 DEF Range
  <2> QED BY <1>1, <2>1, <2>2, GraphRange
<1>3. object[h].root = object[o].root
  BY <1>2 DEF GraphInv
<1>4. CASE h = o
  BY <1>2, <1>4
<1>5. CASE h # o
  <2>1. h \in Range(items[o]) /\ items[h] = <<>> /\ Range(items[h]) = {}
    BY <1>2, <1>5, ListEmpty
  <2>2. object[o].root = o
    <3>1. object[o].root \in Objects /\ o \in Range(items[object[o].root]) => items[o] = <<>>
      BY ListEmpty
    <3>2. items[o] # <<>>
      <4>1. Range(<<>>) = {}
        BY DEF Range
      <4> QED BY <2>1, <4>1
    <3> QED BY <3>1, <3>2 DEF RootsInv
  <2>3. p[o].root = o
    <3>1. items[o] # <<>>
      <4>1. Range(<<>>) = {}
        BY DEF Range
      <4> QED BY <2>1, <4>1
    <3> QED BY <2>2, <3>1 DEF Joins
  <2>4. p[h].root = object[h].root
    BY <1>2, <1>3, <1>5, <2>2 DEF Joins
  <2> QED BY <1>2, <1>3, <2>2, <2>3, <2>4
<1> QED BY <1>4, <1>5

LEMMA WroteGraph ==
  ASSUME NEW c, NEW obj, NEW con, CallOK(c, obj, con), NEW h, Wrote(c, h)
  PROVE  h \in Range(c.graph)
<1>1. PICK e \in Range(c.old) : e[1] = h
  BY DEF Wrote
<1>2. PICK i \in DOMAIN c.old : c.old[i] = e
  BY DEF Range
<1>3. EntryOK(c.old[i], c.graph, obj, con)
  BY DEF CallOK, OldOK
<1> QED BY <1>1, <1>2, <1>3 DEF EntryOK

\* What the invariant says of call s and an object of its graph nobody touched.
LEMMA OwnTruthful ==
  ASSUME IInv, LInv, NEW s \in Savers, NEW h \in Range(save[s].graph), contested[h] = {}, Alone(h, object)
  PROVE  Truthful(save[s], h, object, ledger, snapshot, backed)
<1>1. h \in Objects
  <2>1. save[s].graph \in Seq(Objects)
    BY DEF IInv, CallOK, CallType
  <2> QED BY <2>1 DEF Range
<1>2. FaithInv(h, object, ledger, snapshot, backed, save, contested)
  BY <1>1 DEF LInv
<1>3. ASSUME NEW t \in Savers, t # s PROVE ~ Wrote(save[t], h)
  <2>1. h \in Range(save[t].graph) => Crossed(h, contested)
    BY <1>3 DEF IInv, Exclusive
  <2>2. Wrote(save[t], h) => h \in Range(save[t].graph)
    BY WroteGraph DEF IInv
  <2> QED BY <2>1, <2>2 DEF Crossed
<1> QED BY <1>2, <1>3 DEF FaithInv, Untouched, Truthful

\* A step of call s, which goes on as c.
Steps(s, c) ==
  /\ save' = [save EXCEPT ![s] = c] /\ items' = items /\ contested' = contested
  /\ c.graph = save[s].graph \/ c.graph = <<>>
  /\ nextId <= nextId' /\ backed \subseteq backed'
  /\ NewClaims(s, object', save') /\ Joins(object')
  /\ \A h \in Objects : Waits(c, h) => Waits(save[s], h) \/ object'[h].key = h
  /\ Touches(Range(save[s].graph), ledger, ledger', object')
  /\ \A h \in Objects \ Range(save[s].graph) : object'[h] = object[h] /\ snapshot'[h] = snapshot[h]
  /\ GraphInv(c, object')

LEMMA StepRightful ==
  ASSUME NEW s \in Savers, NEW c, Steps(s, c)
  PROVE  Rightful(object')
<1>1. \A g \in Objects : Claims(g, object'[g].key, object', save')
  BY DEF Claims
<1> QED BY <1>1 DEF Steps, NewClaims, Rightful

\* What a step leaves of an object outside its graph.
LEMMA StepOutside ==
  ASSUME LInv, NEW s \in Savers, NEW c, Steps(s, c), Range(save[s].graph) \subseteq Objects,
         NEW h \in Objects \ Range(save[s].graph), Alone(h, object')
  PROVE  /\ object'[h] = object[h] /\ snapshot'[h] = snapshot[h] /\ Alone(h, object)
         /\ object[h].root \in Objects
         /\ SameAt(ledger[object[h].root], ledger'[object[h].root], object[h].key)
<1> DEFINE p == object'
           lat == ledger'
           G == Range(save[s].graph)
<1>1. Rightful(p)
  BY StepRightful
<1>2. Joins(p) /\ Touches(G, ledger, lat, p) /\ object'[h] = object[h] /\ snapshot'[h] = snapshot[h]
  BY DEF Steps
<1> HIDE DEF p, lat, G
<1>3. Alone(h, object)
  BY <1>1, <1>2, AloneBefore DEF p
<1>4. object[h].root \in Objects
  BY RootOwn
<1>5. p[h] = object[h] /\ h \in Objects \ G /\ G \subseteq Objects /\ Alone(h, p)
  BY <1>2 DEF p, G
<1>6. KeysInv(object, save)
  BY DEF LInv
<1>7. SameAt(ledger[object[h].root], lat[object[h].root], object[h].key)
  BY <1>1, <1>2, <1>4, <1>5, <1>6, Frame
<1> QED BY <1>2, <1>3, <1>4, <1>7 DEF lat


\* Calls other than s do not have an untouched object of its graph.
LEMMA OthersGraph ==
  ASSUME IInv, NEW s \in Savers, NEW h \in Range(save[s].graph), contested[h] = {}, NEW t \in Savers \ {s}
  PROVE  h \notin Range(save[t].graph) /\ ~ Wrote(save[t], h)
<1>1. h \notin Range(save[t].graph)
  BY DEF IInv, Exclusive, Crossed
<1>2. CallOK(save[t], object, contested)
  BY DEF IInv
<1> QED BY <1>1, <1>2, WroteGraph

\* A call has nothing of an object outside its graph.
LEMMA OwnOutside ==
  ASSUME NEW c, NEW h, NEW obj, NEW led, NEW bk, NEW con, CallOK(c, obj, con), h \notin Range(c.graph)
  PROVE  OwnInv(c, h, obj, led, bk, con)
<1>1. ~ Wrote(c, h)
  BY WroteGraph
<1>2. c.pc \in {"write", "allocate"} => Head(c.todo) \in Range(c.graph)
  <2>1. c.pc \in {"write", "allocate"} => c.todo # <<>>
    BY DEF CallOK, WriteOK, AllocateOK
  <2>2. c.todo \in Seq(Objects) /\ Range(c.todo) \subseteq Range(c.graph)
    BY DEF CallOK, CallType
  <2>3. c.todo # <<>> => Head(c.todo) \in Range(c.todo)
    BY <2>2, HeadAndTail
  <2> QED BY <2>1, <2>2, <2>3
<1> QED BY <1>1, <1>2 DEF OwnInv, ShowsInv, HoldsInv, PassedInv, AsksInv, Waits

\* What call t has of an object outside the graph of s, after a step of s.
LEMMA OwnByStander ==
  ASSUME IInv, LInv, NEW s \in Savers, NEW c, Steps(s, c), Range(save[s].graph) \subseteq Objects,
         NEW h \in Objects \ Range(save[s].graph), NEW t \in Savers \ {s}
  PROVE  OwnInv(save[t], h, object', ledger', backed', contested)
<1> DEFINE d == save[t]
           p == object'
           lat == ledger'
           bk == backed'
           con == contested
<1>1. OwnInv(d, h, object, ledger, backed, con)
  BY DEF LInv
<1>2. p[h] = object[h] /\ backed \subseteq bk
  BY DEF Steps
<1>3. ASSUME Alone(h, p)
      PROVE  /\ Alone(h, object)
             /\ Fields(lat[p[h].root], p[h].key) = Fields(ledger[object[h].root], object[h].key)
             /\ HasPending(lat[p[h].root], p[h].key) <=> HasPending(ledger[object[h].root], object[h].key)
  <2>1. Alone(h, object) /\ SameAt(ledger[object[h].root], lat[object[h].root], object[h].key)
    BY <1>3, StepOutside
  <2> HIDE DEF p, lat
  <2> QED BY <1>2, <2>1, SameSays
<1>4. p[Head(d.graph)] = object[Head(d.graph)] \/ con[h] # {} \/ h \notin Range(d.graph)
  <2> SUFFICES ASSUME con[h] = {}, h \in Range(d.graph) PROVE p[Head(d.graph)] = object[Head(d.graph)]
    OBVIOUS
  <2>1. GraphInv(d, object) /\ items \in [Objects -> Seq(Objects)]
    BY DEF LInv, IInv
  <2>2. Range(<<>>) = {}
    BY DEF Range
  <2>3. PICK o \in Objects : d.graph = Graph(o)
    BY <2>1, <2>2 DEF GraphInv
  <2>4. Head(d.graph) = o /\ Range(d.graph) = {o} \cup Range(items[o])
    BY <2>1, <2>3, GraphRange
  <2>5. CASE o \in Range(save[s].graph)
    <3>1. Crossed(o, con)
      BY <2>4, <2>5 DEF IInv, Exclusive
    <3>2. h \in Range(items[o])
      BY <2>4, <2>5
    <3>3. con[o] \cap {"saved", "crossed"} \subseteq con[h]
      BY <3>2 DEF LInv, MarksInv
    <3> QED BY <3>1, <3>3 DEF Crossed
  <2>6. CASE o \notin Range(save[s].graph)
    BY <2>4, <2>6 DEF Steps
  <2> QED BY <2>5, <2>6
<1> HIDE DEF d, p, lat, bk, con
<1>5. ShowsInv(d, h, p, lat, bk, con)
  BY <1>1, <1>2, <1>3 DEF OwnInv, ShowsInv
<1>6. HoldsInv(d, h, p, lat, con)
  BY <1>1, <1>2, <1>3 DEF OwnInv, HoldsInv
<1>7. PassedInv(d, h, p, lat, con)
  BY <1>1, <1>2, <1>3, <1>4 DEF OwnInv, PassedInv, Untouched
<1>8. AsksInv(d, h, p, con)
  BY <1>1, <1>2 DEF OwnInv, AsksInv
<1> QED BY <1>5, <1>6, <1>7, <1>8 DEF OwnInv, d, p, lat, bk, con

\* The invariant after a step of call s, from what it is of the graph of s.
LEMMA SaverStep ==
  ASSUME IInv, VInv, LInv, IInv', VInv', NEW s \in Savers, NEW c, Steps(s, c),
         \A h \in Range(save[s].graph) :
           contested[h] = {} /\ Alone(h, object') /\ Alone(h, object)
             => Truthful(c, h, object', ledger', snapshot', backed'),
         \A h \in Range(save[s].graph) : OwnInv(c, h, object', ledger', backed', contested)
  PROVE  LInv'
<1> DEFINE p == object'
           lat == ledger'
           sv == save'
           G == Range(save[s].graph)
<1>1. /\ LInv /\ LevelsInv /\ RootsInv(object) /\ KeysInv(object, save)
      /\ ClaimInv(object, save, table, nextId) /\ ClaimInv(p, sv, table', nextId')
      /\ nextId \in Nat /\ nextId' \in Nat
      /\ \A t \in Savers : CallOK(save[t], object, contested)
      /\ \A t \in Savers : CallOK(sv[t], p, contested)
  BY DEF LInv, VInv, IInv, Steps
<1>2. /\ sv[s] = c /\ \A t \in Savers \ {s} : sv[t] = save[t]
  BY DEF Steps, IInv
<1>3. /\ items' = items /\ contested' = contested /\ nextId <= nextId' /\ backed \subseteq backed'
      /\ NewClaims(s, p, sv) /\ Joins(p) /\ Touches(G, ledger, lat, p) /\ GraphInv(c, p)
      /\ \A h \in Objects \ G : p[h] = object[h] /\ snapshot'[h] = snapshot[h]
      /\ \A h \in Objects : Waits(c, h) => Waits(save[s], h) \/ p[h].key = h
      /\ c.graph = save[s].graph \/ c.graph = <<>>
  BY DEF Steps
<1>4. Rightful(p)
  BY StepRightful
<1>5. G \subseteq Objects
  <2>1. save[s].graph \in Seq(Objects)
    BY <1>1 DEF CallOK, CallType
  <2> QED BY <2>1 DEF Range
<1>6. Range(c.graph) \subseteq G
  <2>1. Range(<<>>) = {}
    BY DEF Range
  <2> QED BY <1>3, <2>1
<1>7. ASSUME NEW h \in Objects \ G, Alone(h, p)
      PROVE  /\ p[h] = object[h] /\ snapshot'[h] = snapshot[h] /\ Alone(h, object)
             /\ object[h].root \in Objects
             /\ SameAt(ledger[object[h].root], lat[object[h].root], object[h].key)
  <2>1. Alone(h, object')
    BY <1>7
  <2> QED BY <1>5, <2>1, StepOutside
<1>8. \A h \in Objects \ G : ~ Wrote(save[s], h) /\ ~ Wrote(c, h)
  <2>1. CallOK(c, p, contested)
    BY <1>1, <1>2
  <2> QED BY <1>1, <1>6, <2>1, WroteGraph
<1>9. \A h \in G : contested[h] = {} => \A t \in Savers \ {s} : ~ Wrote(save[t], h)
  BY OthersGraph
<1>10. \A t \in Savers \ {s} : \A h \in G : contested[h] = {} => h \notin Range(save[t].graph)
  BY OthersGraph
<1> HIDE DEF p, lat, sv, G
<1>11. LedgersOK(lat)
  BY <1>3 DEF Touches
<1>12. KeysInv(p, sv)
  <2>1. \A t \in Savers : \A h \in Objects : Waits(sv[t], h) => Waits(save[t], h) \/ p[h].key = h
    BY <1>2, <1>3
  <2> QED BY <1>1, <1>3, <2>1, KeysKept
<1>13. RootsInv(p)
  BY <1>1, <1>3, RootsKept
<1>14. MarksInv(contested) /\ LevelsInv'
  BY <1>3 DEF LInv, LevelsInv
<1>15. \A t \in Savers : GraphInv(sv[t], p)
  <2>1. ASSUME NEW t \in Savers \ {s} PROVE GraphInv(save[t], p)
    <3>1. GraphInv(save[t], object)
      BY DEF LInv
    <3> QED BY <1>1, <1>3, <3>1, GraphKept
  <2> QED BY <1>2, <1>3, <2>1
<1>16. SupportInv(p, lat, sv, nextId')
  <2>1. \A h \in Objects : \A k : Claims(h, k, p, sv) => Claims(h, k, object, save) \/ ~ Known(k, nextId)
    BY <1>3 DEF NewClaims
  <2>2. \A h \in Objects : Claims(h, p[h].key, p, sv)
    BY DEF Claims
  <2> QED BY <1>1, <1>3, <1>4, <1>5, <2>1, <2>2, SupportKept
<1>17. ASSUME NEW h \in Objects PROVE FaithInv(h, p, lat, snapshot', backed', sv, contested)
  <2> SUFFICES ASSUME contested[h] = {}, Alone(h, p)
               PROVE  /\ (\A t \in Savers : ~ Wrote(sv[t], h)) =>
                           Faithful(p[h], lat[p[h].root], snapshot'[h], backed')
                      /\ \A t \in Savers : \A e \in Range(sv[t].old) :
                           e[1] = h => Faithful(e[2], lat[p[h].root], e[3], backed')
    BY DEF FaithInv, Untouched
  <2>1. CASE h \in G
    <3>1. Alone(h, object)
      BY <1>3, <1>4, AloneBefore
    <3>2. Truthful(c, h, p, lat, snapshot', backed')
      BY <2>1, <3>1 DEF p, lat, G
    <3>3. ASSUME NEW t \in Savers, NEW e \in Range(sv[t].old), e[1] = h
          PROVE  Faithful(e[2], lat[p[h].root], e[3], backed')
      <4>1. t = s
        BY <1>2, <1>9, <2>1, <3>3 DEF Wrote
      <4> QED BY <1>2, <3>2, <3>3, <4>1 DEF Truthful
    <3> QED BY <1>2, <3>2, <3>3 DEF Truthful
  <2>2. CASE h \notin G
    <3>1. /\ p[h] = object[h] /\ snapshot'[h] = snapshot[h] /\ Alone(h, object)
          /\ SameAt(ledger[object[h].root], lat[object[h].root], object[h].key)
      BY <1>7, <2>2
    <3>2. FaithInv(h, object, ledger, snapshot, backed, save, contested) /\ Untouched(h, object, contested)
      BY <3>1 DEF LInv, Untouched
    <3>3. ASSUME \A t \in Savers : ~ Wrote(sv[t], h)
          PROVE  Faithful(p[h], lat[p[h].root], snapshot'[h], backed')
      <4>1. \A t \in Savers : ~ Wrote(save[t], h)
        BY <1>2, <1>8, <2>2, <3>3
      <4>2. Faithful(object[h], ledger[object[h].root], snapshot[h], backed)
        BY <3>2, <4>1 DEF FaithInv
      <4>3. Faithful(object[h], lat[object[h].root], snapshot[h], backed')
        BY <1>3, <3>1, <4>2, SameFaithful
      <4> QED BY <3>1, <4>3
    <3>4. ASSUME NEW t \in Savers, NEW e \in Range(sv[t].old), e[1] = h
          PROVE  Faithful(e[2], lat[p[h].root], e[3], backed')
      <4>1. t # s /\ e \in Range(save[t].old)
        BY <1>2, <1>8, <2>2, <3>4 DEF Wrote
      <4>2. Faithful(e[2], ledger[object[h].root], e[3], backed)
        BY <3>2, <3>4, <4>1 DEF FaithInv
      <4>3. e[2].key = object[h].key
        <5>1. PICK i \in DOMAIN save[t].old : save[t].old[i] = e
          BY <4>1 DEF Range
        <5>2. EntryOK(e, save[t].graph, object, contested)
          BY <1>1, <5>1 DEF CallOK, OldOK
        <5> QED BY <3>4, <5>2 DEF EntryOK, Crossed
      <4>4. Faithful(e[2], lat[object[h].root], e[3], backed')
        BY <1>3, <3>1, <4>2, <4>3, SameFaithful
      <4> QED BY <3>1, <4>4
    <3> QED BY <3>3, <3>4
  <2> QED BY <2>1, <2>2
<1>18. ASSUME NEW t \in Savers, NEW h \in Objects PROVE OwnInv(sv[t], h, p, lat, backed', contested)
  <2>1. CASE t = s /\ h \in G
    BY <1>2, <2>1 DEF p, lat, G
  <2>2. CASE t = s /\ h \notin G
    <3>1. CallOK(c, p, contested) /\ h \notin Range(c.graph)
      BY <1>1, <1>2, <1>6, <2>2
    <3> QED BY <1>2, <2>2, <3>1, OwnOutside
  <2>3. CASE t # s /\ h \in G
    <3>1. CASE contested[h] = {}
      <4>1. h \notin Range(sv[t].graph) /\ CallOK(sv[t], p, contested)
        BY <1>1, <1>2, <1>10, <2>3, <3>1
      <4> QED BY <4>1, OwnOutside
    <3>2. CASE contested[h] # {}
      BY <3>2 DEF OwnInv, ShowsInv, HoldsInv, PassedInv, AsksInv, Untouched
    <3> QED BY <3>1, <3>2
  <2>4. CASE t # s /\ h \notin G
    <3>1. OwnInv(save[t], h, object', ledger', backed', contested)
      BY <1>5, <2>4, OwnByStander DEF G
    <3> QED BY <1>2, <2>4, <3>1 DEF p, lat
  <2> QED BY <2>1, <2>2, <2>3, <2>4
<1>19. RootsInv(object)' /\ MarksInv(contested)'
  BY <1>3, <1>13, <1>14 DEF RootsInv, MarksInv, p
<1>20. \A t \in Savers : GraphInv(save[t], object)'
  BY <1>3, <1>15 DEF GraphInv, Graph, p, sv
<1>21. LedgersOK(ledger)' /\ KeysInv(object, save)' /\ SupportInv(object, ledger, save, nextId)'
  BY <1>11, <1>12, <1>16 DEF p, lat, sv
<1>22. \A h \in Objects : FaithInv(h, object, ledger, snapshot, backed, save, contested)'
  BY <1>3, <1>17 DEF p, lat, sv
<1>23. \A t \in Savers : \A h \in Objects : OwnInv(save[t], h, object, ledger, backed, contested)'
  BY <1>3, <1>18 DEF p, lat, sv
<1> QED BY <1>14, <1>19, <1>20, <1>21, <1>22, <1>23 DEF LInv

-----------------------------------------------------------------------------
(* The application between and during saves *)

\* The application changes h and its ledger, and it shows.
Disturbs(h) ==
  /\ save' = save /\ items' = items /\ nextId' = nextId /\ backed' = backed /\ snapshot' = snapshot
  /\ object'[h].key = object[h].key /\ object'[h].root = object[h].root
  /\ object'[h].action \in {object[h].action, "Delete"}
  /\ \A g \in Objects \ {h} : object'[g] = object[g]
  /\ Touches({h}, ledger, ledger', object')
  /\ \A g \in Objects : contested[g] \subseteq contested'[g]
  /\ \A g \in Objects : contested'[g] \cap {"saved", "crossed"} \subseteq contested[g]
  /\ \A s \in Savers : h \in Range(save[s].graph) => contested'[h] # {}

LEMMA ItemObjects ==
  ASSUME IInv
  PROVE  \A o \in Objects : items[o] \in Seq(Objects) /\ Range(items[o]) \subseteq Objects
<1> SUFFICES ASSUME NEW o \in Objects PROVE items[o] \in Seq(Objects) /\ Range(items[o]) \subseteq Objects
  OBVIOUS
<1>1. items[o] \in Seq(Objects)
  BY DEF IInv
<1> QED BY <1>1 DEF Range

LEMMA DisturbKeeps ==
  ASSUME IInv, VInv, LInv, IInv', VInv', NEW h \in Objects, Disturbs(h),
         Faithful(object[h], ledger[object[h].root], snapshot[h], backed) =>
           Faithful(object'[h], ledger'[object[h].root], snapshot[h], backed)
  PROVE  LInv'
<1> DEFINE p == object'
           lat == ledger'
           don == contested'
<1>1. /\ LevelsInv /\ RootsInv(object) /\ KeysInv(object, save) /\ MarksInv(contested)
      /\ ClaimInv(p, save, table', nextId) /\ nextId \in Nat
      /\ \A t \in Savers : CallOK(save[t], object, contested)
      /\ \A t \in Savers : CallOK(save[t], p, don)
  BY DEF LInv, VInv, IInv, Disturbs
<1>2. /\ save' = save /\ items' = items /\ nextId' = nextId /\ backed' = backed /\ snapshot' = snapshot
      /\ p[h].key = object[h].key /\ p[h].root = object[h].root
      /\ p[h].action \in {object[h].action, "Delete"}
      /\ \A g \in Objects \ {h} : p[g] = object[g]
      /\ Touches({h}, ledger, lat, p)
      /\ \A g \in Objects : contested[g] \subseteq don[g]
      /\ \A g \in Objects : don[g] \cap {"saved", "crossed"} \subseteq contested[g]
      /\ \A s \in Savers : h \in Range(save[s].graph) => don[h] # {}
      /\ Faithful(object[h], ledger[object[h].root], snapshot[h], backed) =>
           Faithful(p[h], lat[object[h].root], snapshot[h], backed)
  BY DEF Disturbs
<1> HIDE DEF p, lat, don
<1>3. \A g \in Objects : p[g].key = object[g].key /\ p[g].root = object[g].root
  BY <1>2
<1>4. \A g \in Objects : \A k : Claims(g, k, p, save) <=> Claims(g, k, object, save)
  BY <1>3 DEF Claims
<1>5. Rightful(p) /\ Joins(p)
  BY <1>3, OwnClaim DEF Rightful, Joins
<1>6. KeysInv(p, save)
  BY <1>1, <1>4 DEF KeysInv
<1>7. SupportInv(p, lat, save, nextId)
  <2> DEFINE G == {h}
  <2>1. /\ \A g \in Objects : \A k : Claims(g, k, p, save) => Claims(g, k, object, save) \/ ~ Known(k, nextId)
        /\ \A g \in Objects : Claims(g, p[g].key, p, save)
        /\ nextId <= nextId
    BY <1>1, <1>4 DEF Claims
  <2>2. G \subseteq Objects /\ Touches(G, ledger, lat, p)
    BY <1>2
  <2>3. ClaimInv(p, save, table', nextId') /\ nextId' \in Nat /\ nextId <= nextId'
    BY <1>1, <1>2, <2>1
  <2> HIDE DEF G
  <2>4. SupportInv(p, lat, save, nextId')
    BY <1>5, <2>1, <2>2, <2>3, SupportKept
  <2> QED BY <1>2, <2>4
<1>8. \A g \in Objects : Alone(g, p) <=> Alone(g, object)
  BY <1>3 DEF Alone
<1>9. ASSUME NEW g \in Objects \ {h}, Alone(g, object)
      PROVE  SameAt(ledger[object[g].root], lat[object[g].root], object[g].key)
  <2> DEFINE G == {h}
  <2>1. G \subseteq Objects /\ Touches(G, ledger, lat, p) /\ g \in Objects \ G
    BY <1>2
  <2>2. object[g].root \in Objects /\ Alone(g, p) /\ p[g].key = object[g].key /\ p[g].root = object[g].root
    BY <1>3, <1>8, <1>9, RootOwn
  <2> HIDE DEF G
  <2> QED BY <1>1, <1>5, <2>1, <2>2, Frame
<1>10. ASSUME NEW g \in Objects PROVE FaithInv(g, p, lat, snapshot, backed, save, don)
  <2> SUFFICES ASSUME don[g] = {}, Alone(g, p)
               PROVE  /\ (\A t \in Savers : ~ Wrote(save[t], g)) =>
                           Faithful(p[g], lat[p[g].root], snapshot[g], backed)
                      /\ \A t \in Savers : \A e \in Range(save[t].old) :
                           e[1] = g => Faithful(e[2], lat[p[g].root], e[3], backed)
    BY DEF FaithInv, Untouched
  <2>1. /\ FaithInv(g, object, ledger, snapshot, backed, save, contested)
        /\ contested[g] = {} /\ Alone(g, object) /\ Untouched(g, object, contested)
    BY <1>2, <1>8 DEF LInv, Untouched
  <2>2. CASE g = h
    <3>1. \A t \in Savers : ~ Wrote(save[t], h)
      BY <1>1, <1>2, <2>2, WroteGraph
    <3>2. Faithful(object[h], ledger[object[h].root], snapshot[h], backed)
      BY <2>1, <2>2, <3>1 DEF FaithInv
    <3> QED BY <1>2, <2>2, <3>1, <3>2 DEF Wrote
  <2>3. CASE g # h
    <3>1. SameAt(ledger[object[g].root], lat[object[g].root], object[g].key) /\ p[g] = object[g]
      BY <1>2, <1>9, <2>1, <2>3
    <3>2. ASSUME \A t \in Savers : ~ Wrote(save[t], g)
          PROVE  Faithful(p[g], lat[p[g].root], snapshot[g], backed)
      <4>1. Faithful(object[g], ledger[object[g].root], snapshot[g], backed)
        BY <2>1, <3>2 DEF FaithInv
      <4> QED BY <3>1, <4>1, SameFaithful
    <3>3. ASSUME NEW t \in Savers, NEW e \in Range(save[t].old), e[1] = g
          PROVE  Faithful(e[2], lat[p[g].root], e[3], backed)
      <4>1. Faithful(e[2], ledger[object[g].root], e[3], backed)
        BY <2>1, <3>3 DEF FaithInv
      <4>2. e[2].key = object[g].key
        <5>1. PICK i \in DOMAIN save[t].old : save[t].old[i] = e
          BY DEF Range
        <5>2. EntryOK(e, save[t].graph, object, contested)
          BY <1>1, <5>1 DEF CallOK, OldOK
        <5> QED BY <2>1, <3>3, <5>2 DEF EntryOK, Crossed
      <4> QED BY <3>1, <4>1, <4>2, SameFaithful
    <3> QED BY <3>2, <3>3
  <2> QED BY <2>2, <2>3
<1>11. ASSUME NEW t \in Savers, NEW g \in Objects PROVE OwnInv(save[t], g, p, lat, backed, don)
  <2>1. CASE g = h
    <3>1. CASE h \notin Range(save[t].graph)
      BY <1>1, <2>1, <3>1, OwnOutside
    <3>2. CASE h \in Range(save[t].graph)
      BY <1>2, <2>1, <3>2 DEF OwnInv, ShowsInv, HoldsInv, PassedInv, AsksInv, Untouched
    <3> QED BY <3>1, <3>2
  <2>2. CASE g # h
    <3> DEFINE c == save[t]
    <3>1. OwnInv(c, g, object, ledger, backed, contested)
      BY DEF LInv
    <3>2. p[g] = object[g] /\ (don[g] = {} => contested[g] = {}) /\ (Alone(g, p) <=> Alone(g, object))
      BY <1>2, <1>8, <2>2
    <3>3. ASSUME Alone(g, p)
          PROVE  /\ Fields(lat[p[g].root], p[g].key) = Fields(ledger[object[g].root], object[g].key)
                 /\ HasPending(lat[p[g].root], p[g].key) <=> HasPending(ledger[object[g].root], object[g].key)
      <4>1. SameAt(ledger[object[g].root], lat[object[g].root], object[g].key)
        BY <1>9, <2>2, <3>2, <3>3
      <4> QED BY <3>2, <4>1, SameSays
    <3>4. object[Head(c.graph)].action = "Delete" /\ Head(c.graph) \in Objects => p[Head(c.graph)].action = "Delete"
      BY <1>2
    <3>5. g \in Range(c.graph) => Head(c.graph) \in Objects
      <4>1. c.graph \in Seq(Objects)
        BY <1>1 DEF CallOK, CallType
      <4>2. Range(<<>>) = {}
        BY DEF Range
      <4> QED BY <4>1, <4>2, HeadAndTail
    <3> HIDE DEF c
    <3>6. ShowsInv(c, g, p, lat, backed, don)
      BY <3>1, <3>2, <3>3 DEF OwnInv, ShowsInv
    <3>7. HoldsInv(c, g, p, lat, don)
      BY <3>1, <3>2, <3>3 DEF OwnInv, HoldsInv
    <3>8. PassedInv(c, g, p, lat, don)
      BY <3>1, <3>2, <3>3, <3>4, <3>5 DEF OwnInv, PassedInv, Untouched
    <3>9. AsksInv(c, g, p, don)
      BY <3>1, <3>2 DEF OwnInv, AsksInv
    <3> QED BY <3>6, <3>7, <3>8, <3>9 DEF OwnInv, c
  <2> QED BY <2>1, <2>2
<1>12. \A t \in Savers : GraphInv(save[t], p)
  <2>1. ASSUME NEW t \in Savers PROVE GraphInv(save[t], p)
    <3>1. GraphInv(save[t], object)
      BY DEF LInv
    <3> QED BY <1>1, <1>5, <3>1, GraphKept
  <2> QED BY <2>1
<1>13. MarksInv(don)
  BY <1>1, <1>2, ItemObjects DEF MarksInv
<1>14. LevelsInv' /\ RootsInv(object)' /\ MarksInv(contested)'
  <2>1. RootsInv(p)
    BY <1>1, <1>5, RootsKept
  <2> QED BY <1>1, <1>2, <1>13, <2>1 DEF LevelsInv, RootsInv, MarksInv, p, don
<1>15. \A t \in Savers : GraphInv(save[t], object)'
  BY <1>2, <1>12 DEF GraphInv, Graph, p
<1>16. LedgersOK(ledger)' /\ KeysInv(object, save)' /\ SupportInv(object, ledger, save, nextId)'
  BY <1>2, <1>6, <1>7 DEF p, lat, Touches
<1>17. \A g \in Objects : FaithInv(g, object, ledger, snapshot, backed, save, contested)'
  BY <1>2, <1>10 DEF p, lat, don
<1>18. \A t \in Savers : \A g \in Objects : OwnInv(save[t], g, object, ledger, backed, contested)'
  BY <1>2, <1>11 DEF p, lat, don
<1> QED BY <1>14, <1>15, <1>16, <1>17, <1>18 DEF LInv

\* A ledger changed at the key of one object of it.
LEMMA TouchOwn ==
  ASSUME LedgersOK(ledger), NEW h \in Objects, object[h].root \in Objects, NEW l,
         Only(ledger[object[h].root], l, {object[h].key}),
         NEW p, p[h].root = object[h].root
  PROVE  Touches({h}, ledger, [ledger EXCEPT ![object[h].root] = l], p)
<1> DEFINE r == object[h].root
           K == {object[h].key}
           lat == [ledger EXCEPT ![r] = l]
<1>1. Within(ledger, lat, {<<r, k>> : k \in K})
  <2>1. Only(ledger[r], l, K) /\ r \in Objects
    OBVIOUS
  <2> HIDE DEF r, K
  <2> QED BY <2>1, WithinOne
<1>2. LedgersOK(lat)
  BY <1>1 DEF Within
<1>3. Claims(h, object[h].key, object, save)
  BY OwnClaim
<1> HIDE DEF lat
<1>4. ASSUME NEW q \in Objects, NEW k, p[h].root = q => ~ Claims(h, k, object, save)
      PROVE  SameAt(ledger[q], lat[q], k)
  <2>1. <<q, k>> \notin {<<r, j>> : j \in K}
    BY <1>3, <1>4
  <2> QED BY <1>1, <2>1 DEF Within
<1>5. Touches({h}, ledger, lat, p)
  BY <1>2, <1>4 DEF Touches
<1> QED BY <1>5 DEF lat

\* Disturb(h) marks h if a save reaches it.
LEMMA DisturbMarks ==
  ASSUME IInv, NEW h \in Objects, Disturb(h)
  PROVE  /\ \A g \in Objects : contested[g] \subseteq contested'[g]
         /\ \A g \in Objects : contested'[g] \cap {"saved", "crossed"} \subseteq contested[g]
         /\ \A s \in Savers : h \in Range(save[s].graph) => contested'[h] # {}
<1>1. /\ \A g \in Objects \ {h} : contested'[g] = contested[g]
      /\ contested'[h] = IF \E s \in Savers : Reaches(s, h) THEN contested[h] \cup {"edited"} ELSE contested[h]
  BY DEF Disturb, IInv
<1>2. \A s \in Savers : h \in Range(save[s].graph) => Reaches(s, h)
  <2> SUFFICES ASSUME NEW s \in Savers, h \in Range(save[s].graph) PROVE save[s].pc # "idle"
    BY DEF Reaches
  <2>1. Range(<<>>) = {}
    BY DEF Range
  <2> QED BY <2>1 DEF IInv, CallOK, CallType
<1> QED BY <1>1, <1>2

-----------------------------------------------------------------------------
(* Values, IDs and stages                                                    *)

\* What l has of fields is what was edited.
FieldsIn(led, n) ==
  \A r \in Objects : \A k :
    "val" \in DOMAIN Fields(led[r], k) => Fields(led[r], k)["val"] \in -n .. n
RowsIn(f, n) == DOMAIN f \subseteq Ids /\ \A k \in DOMAIN f : f[k].val \in -n .. n
ObjectIn(o, n) == o.val \in -n .. n /\ (o.ver = {} \/ \E v \in Int : o.ver = {v})
EntriesIn(c, n) ==
  \A e \in Range(c.old) : ObjectIn(e[2], n) /\ Ready(e[2], e[1]) /\ e[3] \subseteq -n .. n
CommandIn(c, n) ==
  c.pc = "write" =>
    /\ "val" \in DOMAIN c.command.values => c.command.values["val"] \in -n .. n
    /\ c.command.kind = "Create" => "val" \in DOMAIN c.command.values /\ c.command.key # Head(c.todo)
ReadyIn(c, obj) ==
  \A h \in Range(c.graph) :
    /\ c.pc \in {"reserve", "allocate"} => h \in Range(c.todo) \/ Ready(obj[h], h)
    /\ c.pc \in {"begin", "write"} => Ready(obj[h], h)
StageIn(c) == c.pc \in Stages /\ (c.staged # <<>> => c.pc \in {"write", "commit"})
CallIn(c, obj, n) ==
  /\ RowsIn(c.staged, n) /\ EntriesIn(c, n) /\ CommandIn(c, n) /\ ReadyIn(c, obj) /\ StageIn(c)

\* The values are those of edits, rows have IDs, and an object that has got an
\* ID keeps having one.
TInv ==
  /\ edits \in 0 .. MaxEdits
  /\ \A h \in Objects : ObjectIn(object[h], edits) /\ snapshot[h] \subseteq -edits .. edits
  /\ FieldsIn(ledger, edits) /\ RowsIn(table, edits)
  /\ \A s \in Savers : CallIn(save[s], object, edits)

-----------------------------------------------------------------------------
(* The application between and during saves *)

LEMMA EditLedgers ==
  ASSUME IInv, VInv, LInv, TInv, IInv', VInv', NEW h \in Objects, Edit(h)
  PROVE  LInv'
<1> DEFINE r == object[h].root
           k == object[h].key
           values == [f \in {"val"} |-> edits']
           l == SetFields(ledger[r], k, values)
           p == object'
<1>1. LedgersOK(ledger) /\ r \in Objects /\ IsLedger(ledger[r])
  BY RootOwn DEF LInv, LedgersOK
<1>2. /\ object' = [object EXCEPT ![h] = [object[h] EXCEPT !.val = edits']]
      /\ ledger' = [ledger EXCEPT ![r] = l]
      /\ save' = save /\ items' = items /\ nextId' = nextId /\ backed' = backed /\ snapshot' = snapshot
      /\ Disturb(h) /\ edits' = edits + 1
  BY DEF Edit, SetField, Root, Key, graph
<1>3. /\ p[h].key = k /\ p[h].root = r /\ p[h].action = object[h].action
      /\ p[h].val = edits' /\ p[h].ver = object[h].ver
      /\ \A g \in Objects \ {h} : p[g] = object[g]
  BY <1>2 DEF IInv, ObjectsOK, IsObject, ObjectFields
<1>4. Sets(ledger[r], l, k, values)
  <2> HIDE DEF values, r, k
  <2> QED BY <1>1, SetFieldsSays
<1>5. DOMAIN values = {"val"} /\ values["val"] = edits'
  OBVIOUS
<1> HIDE DEF p, l, values
<1>6. Touches({h}, ledger, ledger', p)
  <2>1. Only(ledger[r], l, {k})
    BY <1>4 DEF Sets
  <2> HIDE DEF l
  <2> QED BY <1>1, <1>2, <1>3, <2>1, TouchOwn
<1>7. Disturbs(h)
  BY <1>2, <1>3, <1>6, DisturbMarks DEF Disturbs, p
<1>8. ledger'[r] = l
  BY <1>1, <1>2 DEF LedgersOK
<1>9. ASSUME Faithful(object[h], ledger[r], snapshot[h], backed)
      PROVE  Faithful(p[h], l, snapshot[h], backed)
  <2>1. /\ l.new = ledger[r].new /\ l.deleted = ledger[r].deleted /\ l.orig = ledger[r].orig
        /\ Holding(Fields(l, k), edits')
    BY <1>4, <1>5 DEF Sets, Holding
  <2>2. OriginalVersion(l, k) = OriginalVersion(ledger[r], k)
    BY <2>1 DEF OriginalVersion
  <2>3. Changed(p[h], snapshot[h])
    <3>1. edits \in Nat /\ snapshot[h] \subseteq -edits .. edits
      BY DEF TInv
    <3>2. edits' \notin snapshot[h] /\ edits' # 0
      BY <1>2, <3>1
    <3> QED BY <1>3, <3>2 DEF Changed
  <2> QED BY <1>3, <1>9, <2>1, <2>2, <2>3 DEF Faithful
<1> QED BY <1>7, <1>8, <1>9, DisturbKeeps DEF p

LEMMA MarkLedgers ==
  ASSUME IInv, VInv, LInv, IInv', VInv', NEW h \in Objects, MarkForDeletion(h)
  PROVE  LInv'
<1> DEFINE r == object[h].root
           k == object[h].key
           l == MarkAsDeleted(ledger[r], k)
           p == object'
<1>1. LedgersOK(ledger) /\ r \in Objects /\ IsLedger(ledger[r])
  BY RootOwn DEF LInv, LedgersOK
<1>2. /\ object' = [object EXCEPT ![h] = [object[h] EXCEPT !.action = "Delete"]]
      /\ ledger' = [ledger EXCEPT ![r] = l]
      /\ save' = save /\ items' = items /\ nextId' = nextId /\ backed' = backed /\ snapshot' = snapshot
      /\ Disturb(h)
  BY DEF MarkForDeletion, Root, Key, graph
<1>3. /\ p[h].key = k /\ p[h].root = r /\ p[h].action = "Delete" /\ p[h].ver = object[h].ver
      /\ \A g \in Objects \ {h} : p[g] = object[g]
  BY <1>2 DEF IInv, ObjectsOK, IsObject, ObjectFields
<1>4. Only(ledger[r], l, {k}) /\ k \in l.deleted /\ l.orig = ledger[r].orig
  <2> HIDE DEF r, k
  <2> QED BY <1>1, DeletedSays
<1> HIDE DEF p, l
<1>6. Touches({h}, ledger, ledger', p)
  BY <1>1, <1>2, <1>3, <1>4, TouchOwn
<1>7. Disturbs(h)
  BY <1>2, <1>3, <1>6, DisturbMarks DEF Disturbs, p
<1>8. ledger'[r] = l
  BY <1>1, <1>2 DEF LedgersOK
<1>9. ASSUME Faithful(object[h], ledger[r], snapshot[h], backed)
      PROVE  Faithful(p[h], l, snapshot[h], backed)
  <2>1. OriginalVersion(l, k) = OriginalVersion(ledger[r], k)
    BY <1>4 DEF OriginalVersion
  <2> QED BY <1>3, <1>4, <1>9, <2>1 DEF Faithful
<1> QED BY <1>7, <1>8, <1>9, DisturbKeeps DEF p

\* A step that touches nothing of it.
LEMMA LedgersSame ==
  ASSUME LInv, UNCHANGED <<items, object, ledger, snapshot, nextId, save, contested, backed>>
  PROVE  LInv'
<1>1. LevelsInv' /\ RootsInv(object)' /\ MarksInv(contested)'
  BY DEF LInv, LevelsInv, RootsInv, MarksInv
<1>2. \A t \in Savers : GraphInv(save[t], object)'
  BY DEF LInv, GraphInv, Graph
<1>3. LedgersOK(ledger)' /\ KeysInv(object, save)' /\ SupportInv(object, ledger, save, nextId)'
  BY DEF LInv
<1>4. \A h \in Objects : FaithInv(h, object, ledger, snapshot, backed, save, contested)'
  BY DEF LInv
<1>5. \A t \in Savers : \A h \in Objects : OwnInv(save[t], h, object, ledger, backed, contested)'
  BY DEF LInv
<1> QED BY <1>1, <1>2, <1>3, <1>4, <1>5 DEF LInv

LEMMA RecoverLedgers ==
  ASSUME LInv, NEW k \in Ids, Recover(k)
  PROVE  LInv'
BY LedgersSame DEF Recover, graph, memory

\* Who shares the owner of a list with a save shares the list with it.
LEMMA ReachesList ==
  ASSUME IInv, LInv, NEW s \in Savers, NEW o \in Objects, NEW h \in Objects, h \in Range(items[o]),
         o \in Range(save[s].graph)
  PROVE  h \in Range(save[s].graph)
<1>1. items \in [Objects -> Seq(Objects)] /\ GraphInv(save[s], object) /\ LevelsInv
  BY DEF IInv, LInv
<1>2. Range(<<>>) = {}
  BY DEF Range
<1>3. PICK g \in Objects : save[s].graph = Graph(g)
  BY <1>1, <1>2 DEF GraphInv
<1>4. Range(save[s].graph) = {g} \cup Range(items[g])
  BY <1>1, <1>3, GraphRange
<1>5. o \notin Range(items[g])
  BY <1>1, ListEmpty
<1> QED BY <1>4, <1>5

LEMMA SaveMarks ==
  ASSUME IInv, LInv, NEW s \in Savers, NEW h \in Objects, Save(s, h)
  PROVE  MarksInv(contested') /\ \A o \in Objects : contested[o] \subseteq contested'[o]
<1> DEFINE Met(o) == {t \in Savers : Reaches(t, o)}
           mark(t) == IF context[t] = context[s] THEN "saved" ELSE "crossed"
<1>1. \A o \in Objects : contested'[o] = contested[o] \cup
        (IF o \notin Range(Graph(h)) THEN {} ELSE {mark(t) : t \in Met(o)})
  BY DEF Save
<1>2. ASSUME NEW o \in Objects, NEW g \in Range(items[o])
      PROVE  contested'[o] \cap {"saved", "crossed"} \subseteq contested'[g]
  <2>1. g \in Objects
    BY ItemObjects
  <2>2. items[g] = <<>> /\ LevelsInv
    BY <2>1, ListEmpty DEF LInv
  <2>3. contested[o] \cap {"saved", "crossed"} \subseteq contested[g]
    BY DEF LInv, MarksInv
  <2>4. Range(Graph(h)) = {h} \cup Range(items[h])
    BY GraphRange DEF IInv
  <2>5. o \in Range(Graph(h)) => g \in Range(Graph(h))
    <3>1. o \notin Range(items[h])
      BY <2>2, ListEmpty
    <3> QED BY <2>4, <3>1
  <2>6. Met(o) \subseteq Met(g)
    BY <2>1, ReachesList DEF Reaches
  <2> HIDE DEF Met, mark
  <2> QED BY <1>1, <2>1, <2>3, <2>5, <2>6
<1> HIDE DEF Met, mark
<1> QED BY <1>1, <1>2 DEF MarksInv

LEMMA SaveLedgers ==
  ASSUME IInv, VInv, LInv, NEW s \in Savers, NEW h \in Objects, Save(s, h)
  PROVE  LInv'
<1> DEFINE c == [Idle EXCEPT !.pc = "reserve", !.graph = Graph(h), !.todo = Graph(h)]
           sv == save'
           don == contested'
<1>1. /\ sv[s] = c /\ \A t \in Savers \ {s} : sv[t] = save[t]
      /\ items' = items /\ object' = object /\ ledger' = ledger /\ snapshot' = snapshot
      /\ nextId' = nextId /\ backed' = backed
  BY DEF Save, graph, memory, IInv
<1>2. c.pc = "reserve" /\ c.graph = Graph(h) /\ c.command = NoCommand /\ c.written = <<>> /\ c.old = <<>>
  BY DEF Idle
<1>3. save[s].command = NoCommand /\ save[s].written = <<>> /\ save[s].old = <<>> /\ save[s].pc = "idle"
  BY DEF Save, VInv, CallInv, BlankInv, Holds, InWork
<1>4. MarksInv(don) /\ \A o \in Objects : contested[o] \subseteq don[o]
  BY SaveMarks
<1>5. Range(<<>>) = {} /\ \A g : NoCommand.object # {g}
  BY DEF Range, NoCommand
<1> HIDE DEF c, sv, don
<1>6. \A g \in Objects : \A k : Claims(g, k, object, sv) <=> Claims(g, k, object, save)
  <2>1. \A g, k : ~ Used(c, g, k) /\ ~ Used(save[s], g, k)
    BY <1>2, <1>3, <1>5 DEF Used, Marked
  <2> QED BY <1>1, <2>1 DEF Claims
<1>7. \A t \in Savers : \A g : Wrote(sv[t], g) => Wrote(save[t], g)
  BY <1>1, <1>2, <1>5 DEF Wrote
<1>8. KeysInv(object, sv) /\ SupportInv(object, ledger, sv, nextId)
  <2>1. \A t \in Savers : \A g : Waits(sv[t], g) => Waits(save[t], g)
    BY <1>1, <1>2 DEF Waits
  <2>2. KeysInv(object, save) /\ SupportInv(object, ledger, save, nextId)
    BY DEF LInv
  <2>3. KeysInv(object, sv)
    BY <1>6, <2>1, <2>2 DEF KeysInv
  <2>4. SupportInv(object, ledger, sv, nextId)
    BY <1>6, <2>2 DEF SupportInv
  <2> QED BY <2>3, <2>4
<1>9. ASSUME NEW g \in Objects PROVE FaithInv(g, object, ledger, snapshot, backed, sv, don)
  <2> SUFFICES ASSUME don[g] = {}, Alone(g, object)
               PROVE  /\ (\A t \in Savers : ~ Wrote(sv[t], g)) =>
                           Faithful(object[g], ledger[object[g].root], snapshot[g], backed)
                      /\ \A t \in Savers : \A e \in Range(sv[t].old) :
                           e[1] = g => Faithful(e[2], ledger[object[g].root], e[3], backed)
    BY DEF FaithInv, Untouched
  <2>1. FaithInv(g, object, ledger, snapshot, backed, save, contested) /\ Untouched(g, object, contested)
    BY <1>4 DEF LInv, Untouched
  <2>2. \A t \in Savers : Wrote(save[t], g) => Wrote(sv[t], g)
    BY <1>1, <1>3, <1>5 DEF Wrote
  <2>3. \A t \in Savers : Range(sv[t].old) = Range(save[t].old)
    BY <1>1, <1>2, <1>3
  <2> QED BY <2>1, <2>2, <2>3 DEF FaithInv
<1>10. ASSUME NEW t \in Savers, NEW g \in Objects PROVE OwnInv(sv[t], g, object, ledger, backed, don)
  <2>1. CASE t = s
    BY <1>1, <1>2, <2>1 DEF OwnInv, ShowsInv, HoldsInv, PassedInv, AsksInv, Waits
  <2>2. CASE t # s
    <3>1. OwnInv(save[t], g, object, ledger, backed, contested) /\ (don[g] = {} => contested[g] = {})
      BY <1>4 DEF LInv
    <3> QED BY <1>1, <2>2, <3>1 DEF OwnInv, ShowsInv, HoldsInv, PassedInv, AsksInv, Untouched
  <2> QED BY <2>1, <2>2
<1>11. ASSUME NEW t \in Savers PROVE GraphInv(sv[t], object)
  <2>1. CASE t = s
    BY <1>1, <1>2, <1>5, <2>1, GraphRange DEF GraphInv, IInv
  <2>2. CASE t # s
    BY <1>1, <2>2 DEF LInv
  <2> QED BY <2>1, <2>2
<1>12. LevelsInv' /\ RootsInv(object)' /\ MarksInv(contested)'
  BY <1>1, <1>4 DEF LInv, LevelsInv, RootsInv, MarksInv, don
<1>13. \A t \in Savers : GraphInv(save[t], object)'
  BY <1>1, <1>11 DEF GraphInv, Graph, sv
<1>14. LedgersOK(ledger)' /\ KeysInv(object, save)' /\ SupportInv(object, ledger, save, nextId)'
  BY <1>1, <1>8 DEF sv, LInv
<1>15. \A g \in Objects : FaithInv(g, object, ledger, snapshot, backed, save, contested)'
  BY <1>1, <1>9 DEF sv, don
<1>16. \A t \in Savers : \A g \in Objects : OwnInv(save[t], g, object, ledger, backed, contested)'
  BY <1>1, <1>10 DEF sv, don
<1> QED BY <1>12, <1>13, <1>14, <1>15, <1>16 DEF LInv

-----------------------------------------------------------------------------
(* Steps that leave the ledgers alone *)

\* A call goes on as c, with the memory as it is.
LEMMA StandStep ==
  ASSUME IInv, VInv, LInv, IInv', VInv', NEW s \in Savers, NEW c,
         save' = [save EXCEPT ![s] = c],
         UNCHANGED <<items, object, ledger, snapshot, nextId, contested>>, backed \subseteq backed',
         c.graph = save[s].graph \/ c.graph = <<>>, GraphInv(c, object),
         \A h, k : Used(c, h, k) => Used(save[s], h, k),
         c.pc # "allocate",
         Range(c.old) = Range(save[s].old),
         \A h \in Objects : OwnInv(save[s], h, object, ledger, backed, contested)
                              => OwnInv(c, h, object, ledger, backed', contested)
  PROVE  LInv'
<1> DEFINE G == Range(save[s].graph)
<1>1. G \subseteq Objects
  <2>1. save[s].graph \in Seq(Objects)
    BY DEF IInv, CallOK, CallType
  <2> QED BY <2>1 DEF Range
<1>2. save'[s] = c /\ \A t \in Savers \ {s} : save'[t] = save[t]
  BY DEF IInv
<1>3. NewClaims(s, object', save')
  <2>1. \A h, k : Claims(h, k, object', save') => Claims(h, k, object, save)
    BY <1>2 DEF Claims
  <2> QED BY <2>1 DEF NewClaims
<1>4. Touches(G, ledger, ledger', object')
  <2>1. \A r, k : SameAt(ledger[r], ledger'[r], k)
    BY DEF SameAt
  <2> QED BY <2>1 DEF Touches, LInv
<1>5. nextId <= nextId'
  BY DEF VInv
<1>6. Joins(object') /\ GraphInv(c, object')
  BY DEF Joins
<1>7. Steps(s, c)
  BY <1>1, <1>3, <1>4, <1>5, <1>6 DEF Steps, Waits
<1>8. ASSUME NEW h \in G, contested[h] = {}, Alone(h, object)
      PROVE  Truthful(c, h, object', ledger', snapshot', backed')
  <2>1. Truthful(save[s], h, object, ledger, snapshot, backed)
    BY <1>8, OwnTruthful
  <2>2. Wrote(save[s], h) <=> Wrote(c, h)
    BY DEF Wrote
  <2>3. \A o, l, sn : Faithful(o, l, sn, backed) => Faithful(o, l, sn, backed')
    BY DEF Faithful
  <2> QED BY <2>1, <2>2, <2>3 DEF Truthful
<1>9. ASSUME NEW h \in G PROVE OwnInv(c, h, object', ledger', backed', contested)
  <2>1. OwnInv(save[s], h, object, ledger, backed, contested)
    BY <1>1 DEF LInv
  <2> QED BY <1>1, <2>1
<1> QED BY <1>7, <1>8, <1>9, SaverStep

\* What a call that has ended has, and one whose work failed.
LEMMA IdleFields ==
  /\ Idle.pc = "idle" /\ Idle.graph = <<>> /\ Idle.todo = <<>> /\ Idle.command = NoCommand
  /\ Idle.staged = <<>> /\ Idle.back = {} /\ Idle.written = <<>> /\ Idle.old = <<>>
BY DEF Idle

LEMMA FailedFields ==
  ASSUME NEW c, DOMAIN c = SaveFields
  PROVE  /\ Failed(c).pc = "undo" /\ Failed(c).graph = c.graph /\ Failed(c).todo = <<>>
         /\ Failed(c).command = NoCommand /\ Failed(c).staged = <<>> /\ Failed(c).back = {}
         /\ Failed(c).written = c.written /\ Failed(c).old = c.old
BY DEF Failed, SaveFields

LEMMA NothingUsed ==
  ASSUME NEW c, c.command = NoCommand, NEW h, NEW k, Used(c, h, k)
  PROVE  Marked(c, h, k)
BY DEF Used, NoCommand

LEMMA IdleUsesNothing == \A h, k : ~ Used(Idle, h, k)
<1>1. Range(<<>>) = {}
  BY DEF Range
<1> QED BY <1>1, IdleFields DEF Used, Marked, NoCommand

LEMMA GiveUpLedgers ==
  ASSUME IInv, VInv, LInv, IInv', VInv', NEW s \in Savers, GiveUp(s)
  PROVE  LInv'
<1>1. save[s].old = <<>> /\ save[s].written = <<>> /\ Range(<<>>) = {}
  <2>1. ~ Holds(save[s])
    BY DEF GiveUp, Holds
  <2> QED BY <2>1 DEF VInv, CallInv, BlankInv, Range
<1>2. /\ save' = [save EXCEPT ![s] = Idle]
      /\ UNCHANGED <<items, object, ledger, snapshot, nextId, contested, backed>>
  BY DEF GiveUp, graph, memory
<1>3. GraphInv(Idle, object)
  BY <1>1, IdleFields DEF GraphInv
<1>4. \A h \in Objects : OwnInv(Idle, h, object, ledger, backed', contested)
  BY IdleFields DEF OwnInv, ShowsInv, HoldsInv, PassedInv, AsksInv, Waits
<1> QED BY <1>1, <1>2, <1>3, <1>4, IdleFields, IdleUsesNothing, StandStep

LEMMA WriteFailsLedgers ==
  ASSUME IInv, VInv, LInv, IInv', VInv', NEW s \in Savers, WriteFails(s)
  PROVE  LInv'
<1> DEFINE c == Failed(save[s])
<1>1. DOMAIN save[s] = SaveFields
  BY DEF IInv, CallOK, CallType
<1>2. /\ save' = [save EXCEPT ![s] = c] /\ save[s].pc = "write"
      /\ UNCHANGED <<items, object, ledger, snapshot, nextId, contested, backed>>
  BY DEF WriteFails, graph, memory
<1>3. c.pc = "undo" /\ c.graph = save[s].graph /\ c.command = NoCommand /\ c.written = save[s].written /\ c.old = save[s].old
  BY <1>1, FailedFields
<1> HIDE DEF c
<1>4. GraphInv(c, object)
  <2>1. GraphInv(save[s], object)
    BY DEF LInv
  <2> QED BY <1>2, <1>3, <2>1 DEF GraphInv
<1>5. \A h, k : Used(c, h, k) => Used(save[s], h, k)
  BY <1>3, NothingUsed DEF Used, Marked
<1>6. \A h \in Objects : OwnInv(c, h, object, ledger, backed', contested)
  BY <1>3 DEF OwnInv, ShowsInv, HoldsInv, PassedInv, AsksInv, Waits
<1> QED BY <1>2, <1>3, <1>4, <1>5, <1>6, StandStep

\* The transaction ends, one way or the other.
LEMMA EndLedgers ==
  ASSUME IInv, VInv, LInv, IInv', VInv', NEW s \in Savers, Commit(s) \/ CommitRaises(s)
  PROVE  LInv'
<1>1. PICK c : /\ save' = [save EXCEPT ![s] = c] /\ c.graph = save[s].graph /\ c.command = save[s].command
               /\ c.written = save[s].written /\ c.old = save[s].old
               /\ \/ c.pc = "settle" /\ backed' = backed \cup save[s].back
                  \/ c.pc = "undo" /\ backed \subseteq backed'
  <2> DEFINE a == [save[s] EXCEPT !.pc = "settle", !.staged = <<>>, !.back = {}]
             b == [save[s] EXCEPT !.pc = "undo", !.staged = <<>>, !.back = {}]
  <2>1. DOMAIN save[s] = SaveFields
    BY DEF IInv, CallOK, CallType
  <2>2. a.pc = "settle" /\ b.pc = "undo" /\ \A c \in {a, b} :
          c.graph = save[s].graph /\ c.command = save[s].command /\ c.written = save[s].written /\ c.old = save[s].old
    BY <2>1 DEF SaveFields
  <2>3. \/ save' = [save EXCEPT ![s] = a] /\ backed' = backed \cup save[s].back
        \/ save' = [save EXCEPT ![s] = b] /\ backed \subseteq backed'
    BY DEF Commit, CommitRaises, Apply
  <2> HIDE DEF a, b
  <2> QED BY <2>2, <2>3
<1>2. save[s].pc = "commit" /\ UNCHANGED <<items, object, ledger, snapshot, nextId, contested>>
  BY DEF Commit, CommitRaises, graph, memory
<1>3. backed \subseteq backed' /\ c.pc # "allocate"
  BY <1>1
<1>4. GraphInv(c, object)
  <2>1. GraphInv(save[s], object)
    BY DEF LInv
  <2> QED BY <1>1, <1>2, <2>1 DEF GraphInv
<1>5. \A h, k : Used(c, h, k) => Used(save[s], h, k)
  BY <1>1 DEF Used, Marked
<1>6. ASSUME NEW h \in Objects, OwnInv(save[s], h, object, ledger, backed, contested)
      PROVE  OwnInv(c, h, object, ledger, backed', contested)
  <2>1. (Wrote(c, h) <=> Wrote(save[s], h)) /\ c.pc # "write" /\ ~ Waits(c, h)
    BY <1>1 DEF Wrote, Waits
  <2>2. ShowsInv(c, h, object, ledger, backed', contested)
    BY <1>1, <1>2, <1>6, <2>1 DEF OwnInv, ShowsInv
  <2>3. PassedInv(c, h, object, ledger, contested)
    BY <1>1, <1>2, <1>6, <2>1 DEF OwnInv, PassedInv
  <2> QED BY <2>1, <2>2, <2>3 DEF OwnInv, HoldsInv, AsksInv
<1> QED BY <1>1, <1>2, <1>3, <1>4, <1>5, <1>6, StandStep

-----------------------------------------------------------------------------
(* Settling and undoing *)

\* What a call knows of the objects it wrote.
LEMMA WrittenFacts ==
  ASSUME IInv, VInv, NEW s \in Savers
  PROVE  LET c == save[s]
         IN  /\ c.graph \in Seq(Objects) /\ Range(c.graph) \subseteq Objects
             /\ c.old \in Seq(Range(c.old)) /\ c.written \in Seq(Range(c.written))
             /\ \A w \in Range(c.written) : Wrote(c, w[1]) /\ w[1] \in Range(c.graph)
             /\ \A h : Wrote(c, h) => h \in Range(c.graph) /\ \E w \in Range(c.written) : w[1] = h
             /\ \A e \in Range(c.old) :
                  /\ e[1] \in Range(c.graph) /\ IsObject(e[2])
                  /\ contested[e[1]] = {} => e[2].key = object[e[1]].key
<1> DEFINE c == save[s]
<1>1. c.graph \in Seq(Objects) /\ Range(c.graph) \subseteq Objects
  <2>1. c.graph \in Seq(Objects)
    BY DEF IInv, CallOK, CallType
  <2> QED BY <2>1 DEF Range
<1>2. CallOK(c, object, contested) /\ WorkInv(c, nextId)
  BY DEF IInv, VInv, CallInv
<1> HIDE DEF c
<1>3. \A e \in Range(c.old) : e[1] \in Range(c.graph) /\ IsObject(e[2])
                              /\ (contested[e[1]] = {} => e[2].key = object[e[1]].key)
  <2> SUFFICES ASSUME NEW e \in Range(c.old)
               PROVE  e[1] \in Range(c.graph) /\ IsObject(e[2])
                      /\ (contested[e[1]] = {} => e[2].key = object[e[1]].key)
    OBVIOUS
  <2>1. PICK i \in DOMAIN c.old : c.old[i] = e
    BY DEF Range
  <2>2. EntryOK(e, c.graph, object, contested)
    BY <1>2, <2>1 DEF CallOK, OldOK
  <2> QED BY <2>2 DEF EntryOK, Crossed
<1>4. \A h : Wrote(c, h) => h \in Range(c.graph) /\ \E w \in Range(c.written) : w[1] = h
  BY <1>2, <1>3 DEF WorkInv, Wrote
<1>5. \A w \in Range(c.written) : Wrote(c, w[1]) /\ w[1] \in Range(c.graph)
  BY <1>2, <1>4 DEF WorkInv
<1>6. c.old \in Seq(Range(c.old)) /\ c.written \in Seq(Range(c.written))
  BY <1>2 DEF WorkInv
<1> QED BY <1>1, <1>3, <1>4, <1>5, <1>6 DEF c

\* Another object of the key and the ledger of h would not leave it alone.
LEMMA AloneClaims ==
  ASSUME IInv, LInv, NEW p, Rightful(p), NEW h \in Objects, Alone(h, p), p[h].key = object[h].key,
         NEW g \in Objects \ {h}, p[g].root = p[h].root
  PROVE  ~ Claims(g, object[h].key, object, save) /\ p[g].key # object[h].key /\ g # object[h].key
<1>1. KeysInv(object, save) /\ Claims(h, object[h].key, object, save)
  BY OwnClaim DEF LInv
<1>2. p[g].key # object[h].key
  BY DEF Alone
<1>3. ~ Claims(g, object[h].key, object, save)
  BY <1>1, <1>2, SharedKey
<1>4. object[h].key \in Ids \cup {h}
  BY <1>1 DEF KeysInv
<1> QED BY <1>2, <1>3, <1>4, IdsAssumption DEF IdsAssumption

LEMMA SettleLedgers ==
  ASSUME IInv, VInv, LInv, IInv', VInv', NEW s \in Savers, Settle(s)
  PROVE  LInv'
<1> DEFINE c == save[s]
           G == Range(save[s].graph)
           W == Range(c.written)
           lat == ledger'
           snap == snapshot'
<1>1. /\ save' = [save EXCEPT ![s] = Idle] /\ c.pc = "settle" /\ lat = Settled(c.written)
      /\ items' = items /\ object' = object /\ nextId' = nextId
      /\ contested' = contested /\ backed' = backed
      /\ snap = [h \in Objects |-> IF \E w \in W : w[1] = h THEN {object[h].val} ELSE snapshot[h]]
  BY DEF Settle, graph
<1>2. /\ G \subseteq Objects /\ c.written \in Seq(W)
      /\ \A w \in W : Wrote(c, w[1]) /\ w[1] \in G
      /\ \A h : Wrote(c, h) => h \in G /\ \E w \in W : w[1] = h
  BY WrittenFacts
<1>3. c.back = {}
  <2>1. ~ InWork(c)
    BY <1>1 DEF InWork
  <2> QED BY <2>1 DEF VInv, CallInv, BlankInv
<1>4. save'[s] = Idle /\ \A t \in Savers \ {s} : save'[t] = save[t]
  BY <1>1 DEF IInv
<1>5. \A h, k : Claims(h, k, object', save') => Claims(h, k, object, save)
  BY <1>1, <1>4, IdleUsesNothing DEF Claims
<1>6. Settles(lat, c.written)
  <2>1. LedgersOK(ledger) /\ \A h \in Objects : Root(h) \in Objects
    BY RootOwn DEF LInv, Root
  <2>2. \A w \in W : w[1] \in Objects
    BY <1>2
  <2> HIDE DEF c, lat
  <2> QED BY <1>1, <1>2, <2>1, <2>2, SettledSays
<1>7. Within(ledger, lat, {<<object[w[1]].root, w[2]>> : w \in W})
  BY <1>6 DEF Settles, Root
<1>8. \A w \in W : Claims(w[1], w[2], object, save)
  <2>1. GraphInv(c, object)
    BY DEF LInv
  <2>2. \A w \in W : <<w[1], w[2]>> \in W
    BY <2>1 DEF GraphInv
  <2> QED BY <2>2 DEF Claims, Used, Marked
<1> HIDE DEF c, lat, snap, W, G
<1>9. Touches(G, ledger, lat, object')
  <2>1. ASSUME NEW r \in Objects, NEW k, \A g \in G : object[g].root = r => ~ Claims(g, k, object, save)
        PROVE  SameAt(ledger[r], lat[r], k)
    <3>1. <<r, k>> \notin {<<object[w[1]].root, w[2]>> : w \in W}
      BY <1>2, <1>8, <2>1
    <3> QED BY <1>7, <3>1 DEF Within
  <2> QED BY <1>1, <1>7, <2>1 DEF Touches, Within
<1>10. GraphInv(Idle, object')
  <2>1. Range(<<>>) = {}
    BY DEF Range
  <2> QED BY <2>1, IdleFields DEF GraphInv
<1>11. Steps(s, Idle)
  <2>1. NewClaims(s, object', save') /\ Joins(object')
    BY <1>1, <1>5 DEF NewClaims, Joins
  <2>2. \A h \in Objects \ G : snap[h] = snapshot[h]
    BY <1>1, <1>2
  <2>3. \A h : ~ Waits(Idle, h)
    BY IdleFields DEF Waits
  <2>4. nextId <= nextId' /\ backed \subseteq backed'
    BY <1>1 DEF VInv
  <2> QED BY <1>1, <1>9, <1>10, <2>1, <2>2, <2>3, <2>4, IdleFields DEF Steps, G, lat, snap, c
<1>12. ASSUME NEW h \in G, contested[h] = {}, Alone(h, object)
       PROVE  Truthful(Idle, h, object', lat, snap, backed')
  <2>1. ~ Wrote(Idle, h) /\ Range(Idle.old) = {}
    <3>1. Range(<<>>) = {}
      BY DEF Range
    <3> QED BY <3>1, IdleFields DEF Wrote
  <2>2. h \in Objects /\ object[h].root \in Objects
    BY <1>2, RootOwn
  <2>3. Rightful(object) /\ Claims(h, object[h].key, object, save)
    BY OwnClaim DEF Rightful
  <2>4. \A g \in Objects \ {h} : object[g].root = object[h].root => ~ Claims(g, object[h].key, object, save)
    BY <1>12, <2>2, <2>3, AloneClaims
  <2>5. Truthful(c, h, object, ledger, snapshot, backed) /\ ShowsInv(c, h, object, ledger, backed, contested)
    BY <1>12, <2>2, OwnTruthful DEF LInv, OwnInv, c, G
  <2>6. CASE ~ Wrote(c, h)
    <3>1. <<object[h].root, object[h].key>> \notin {<<object[w[1]].root, w[2]>> : w \in W}
      BY <1>2, <1>8, <2>4, <2>6
    <3>2. SameAt(ledger[object[h].root], lat[object[h].root], object[h].key)
      BY <1>7, <2>2, <3>1 DEF Within
    <3>3. snap[h] = snapshot[h]
      BY <1>1, <1>2, <2>2, <2>6
    <3>4. Faithful(object[h], ledger[object[h].root], snapshot[h], backed)
      BY <2>5, <2>6 DEF Truthful
    <3>5. Faithful(object[h], lat[object[h].root], snapshot[h], backed)
      BY <3>2, <3>4, SameFaithful
    <3> QED BY <1>1, <2>1, <3>3, <3>5 DEF Truthful
  <2>7. CASE Wrote(c, h)
    <3>1. /\ object[h].action \in {"Update", "Delete"}
          /\ object[h].action = "Delete" => object[h].key \in backed \/ \E v \in object[h].ver : v < 0
          /\ <<h, object[h].key>> \in W
      BY <1>1, <1>3, <1>12, <2>5, <2>7 DEF ShowsInv, W
    <3>2. PICK v \in Int : object[h].ver = {v}
      BY <1>1, <1>12, <2>5, <2>7 DEF ShowsInv
    <3>3. \A w \in W : Root(w[1]) = Root(h) /\ w[2] = Key(h) => object[w[1]].ver = {v}
      BY <1>2, <1>8, <2>4, <3>2 DEF Root, Key
    <3>4. \E w \in W : w[1] = h /\ w[2] = Key(h)
      BY <3>1 DEF Key
    <3>5. ~ HasPending(lat[Root(h)], Key(h)) /\ OriginalVersion(lat[Root(h)], Key(h)) = {v}
      <4> DEFINE k == Key(h)
      <4>1. \A j, u : (\E w \in W : w[1] = h /\ w[2] = j)
                        /\ (\A w \in W : Root(w[1]) = Root(h) /\ w[2] = j => object[w[1]].ver = {u}) =>
                      ~ HasPending(lat[Root(h)], j) /\ OriginalVersion(lat[Root(h)], j) = {u}
        BY <1>6, <2>2 DEF Settles, W
      <4>2. (\E w \in W : w[1] = h /\ w[2] = k)
              /\ (\A w \in W : Root(w[1]) = Root(h) /\ w[2] = k => object[w[1]].ver = {v})
        BY <3>3, <3>4
      <4> HIDE DEF k
      <4>3. ~ HasPending(lat[Root(h)], k) /\ OriginalVersion(lat[Root(h)], k) = {v}
        BY <4>1, <4>2
      <4> QED BY <4>3 DEF k
    <3>6. snap[h] = {object[h].val}
      BY <1>1, <2>2, <3>1
    <3>8. Faithful(object[h], lat[object[h].root], snap[h], backed)
      <4> DEFINE l == lat[object[h].root]
      <4>1. ~ Changed(object[h], snap[h])
        BY <3>6 DEF Changed
      <4>2. object[h].key \notin l.new \cup l.deleted /\ object[h].key \notin DOMAIN l.changes
        BY <3>5 DEF HasPending, Root, Key
      <4>3. OriginalVersion(l, object[h].key) = object[h].ver
        BY <3>2, <3>5 DEF Root, Key
      <4> DEFINE o == object[h]
                 sn == snap[h]
      <4> HIDE DEF l
      <4>4. o.key \notin DOMAIN l.changes
        BY <4>2
      <4>5. Faithful(o, l, sn, backed)
        <5>1. /\ ~ Changed(o, sn) /\ o.key \notin l.new \cup l.deleted /\ OriginalVersion(l, o.key) = o.ver
              /\ o.action \in {"Update", "Delete"}
              /\ o.action = "Delete" => o.key \in backed \/ \E u \in o.ver : u < 0
          BY <3>1, <4>1, <4>2, <4>3
        <5> HIDE DEF o, sn
        <5> QED BY <4>4, <5>1 DEF Faithful
      <4> QED BY <4>5 DEF l
    <3> QED BY <1>1, <2>1, <3>8 DEF Truthful
  <2> QED BY <2>6, <2>7
<1>13. \A h \in G : OwnInv(Idle, h, object', ledger', backed', contested)
  BY IdleFields DEF OwnInv, ShowsInv, HoldsInv, PassedInv, AsksInv, Waits
<1>14. \A h \in G : contested[h] = {} /\ Alone(h, object') /\ Alone(h, object)
          => Truthful(Idle, h, object', ledger', snapshot', backed')
  BY <1>12 DEF lat, snap
<1> QED BY <1>11, <1>13, <1>14, SaverStep DEF G

\* The places of the entries of h among old.
EntriesOf(old, h) == {i \in DOMAIN old : old[i][1] = h}

LEMMA FirstEntry ==
  ASSUME NEW old, old \in Seq(Range(old)), NEW h, \E e \in Range(old) : e[1] = h
  PROVE  EntriesOf(old, h) # {} /\ old[Min(EntriesOf(old, h))] \in Range(old)
         /\ old[Min(EntriesOf(old, h))][1] = h
<1> DEFINE entries == {i \in DOMAIN old : old[i][1] = h}
<1>1. DOMAIN old = 1 .. Len(old) /\ Len(old) \in Nat
  OBVIOUS
<1>2. entries # {}
  BY DEF Range
<1>3. entries \subseteq Nat
  BY <1>1
<1>4. Min(entries) \in entries
  <2> HIDE DEF entries
  <2> QED BY <1>2, <1>3, MinLeast
<1> QED BY <1>2, <1>4 DEF Range, EntriesOf

LEMMA UndoLedgers ==
  ASSUME IInv, VInv, LInv, IInv', VInv', NEW s \in Savers, Undo(s)
  PROVE  LInv'
<1> DEFINE c == save[s]
           G == Range(save[s].graph)
           old == c.old
           entries(h) == EntriesOf(old, h)
           first(h) == old[Min(entries(h))]
           p == object'
           lat == ledger'
           snap == snapshot'
           T == UNION {{Root(g)} \X OldKeys(g, old) : g \in Rekeyed(old)}
<1>1. /\ save' = [save EXCEPT ![s] = Idle] /\ c.pc = "undo" /\ lat = RestoredLedger(old)
      /\ items' = items /\ nextId' = nextId /\ contested' = contested /\ backed' = backed
      /\ p = [h \in Objects |-> IF entries(h) = {} THEN object[h] ELSE Earlier(object[h], first(h))]
      /\ snap = [h \in Objects |-> IF entries(h) = {} THEN snapshot[h] ELSE first(h)[3]]
  BY DEF Undo, graph, EntriesOf
<1>2. /\ G \subseteq Objects /\ old \in Seq(Range(old))
      /\ \A h : Wrote(c, h) => h \in G
      /\ \A e \in Range(old) :
           e[1] \in G /\ IsObject(e[2]) /\ (contested[e[1]] = {} => e[2].key = object[e[1]].key)
  BY WrittenFacts
<1>3. save'[s] = Idle /\ \A t \in Savers \ {s} : save'[t] = save[t]
  BY <1>1 DEF IInv
<1>4. \A h : Wrote(c, h) => entries(h) # {} /\ first(h) \in Range(old) /\ first(h)[1] = h
  <2> SUFFICES ASSUME NEW h, Wrote(c, h)
               PROVE  entries(h) # {} /\ first(h) \in Range(old) /\ first(h)[1] = h
    OBVIOUS
  <2>1. \E e \in Range(old) : e[1] = h
    BY DEF Wrote
  <2> HIDE DEF c, G, p, lat, snap, old
  <2> QED BY <1>2, <2>1, FirstEntry
<1>5. \A h : ~ Wrote(c, h) => entries(h) = {}
  BY DEF Wrote, Range, EntriesOf
<1> HIDE DEF entries, first
<1>6. ASSUME NEW h \in Objects, ~ Wrote(c, h) PROVE p[h] = object[h] /\ snap[h] = snapshot[h]
  BY <1>1, <1>5, <1>6
<1>7. ASSUME NEW h \in Objects, Wrote(c, h)
      PROVE  \E e \in Range(old) :
               /\ e[1] = h /\ snap[h] = e[3] /\ p[h].root = object[h].root /\ p[h].key = e[2].key
               /\ p[h].ver = e[2].ver /\ p[h].val = e[2].val /\ p[h].action = e[2].action
  <2> DEFINE e == first(h)
  <2>1. p[h] = [e[2] EXCEPT !.root = object[h].root] /\ snap[h] = e[3] /\ e \in Range(old) /\ e[1] = h
    BY <1>1, <1>4, <1>7 DEF Earlier
  <2>2. IsObject(e[2])
    BY <1>2, <2>1
  <2> HIDE DEF e, p, snap, old
  <2>3. /\ p[h].root = object[h].root /\ p[h].key = e[2].key /\ p[h].ver = e[2].ver
        /\ p[h].val = e[2].val /\ p[h].action = e[2].action
    BY <2>1, <2>2 DEF IsObject, ObjectFields
  <2> QED BY <2>1, <2>3
<1>8. \A h \in Objects : p[h].root = object[h].root /\ Claims(h, p[h].key, object, save)
  <2> SUFFICES ASSUME NEW h \in Objects
               PROVE  p[h].root = object[h].root /\ Claims(h, p[h].key, object, save)
    OBVIOUS
  <2>1. CASE Wrote(c, h)
    <3>1. PICK e \in Range(old) : e[1] = h /\ p[h].root = object[h].root /\ p[h].key = e[2].key
      BY <1>7, <2>1
    <3> QED BY <3>1 DEF Claims, Used, Marked
  <2>2. CASE ~ Wrote(c, h)
    BY <1>6, <2>2, OwnClaim
  <2> QED BY <2>1, <2>2
<1>9. \A h \in Objects : \A k : Claims(h, k, p, save') => Claims(h, k, object, save)
  <2> SUFFICES ASSUME NEW h \in Objects, NEW k, Claims(h, k, p, save')
               PROVE  Claims(h, k, object, save)
    OBVIOUS
  <2>1. CASE p[h].key = k
    BY <1>8, <2>1
  <2>2. CASE \E t \in Savers : Used(save'[t], h, k)
    BY <1>3, <2>2, IdleUsesNothing DEF Claims
  <2> QED BY <2>1, <2>2 DEF Claims
<1>10. Within(ledger, lat, T)
  <2>1. LedgersOK(ledger) /\ (\A h \in Objects : Root(h) \in Objects) /\ ObjectsOK(object)
    BY RootOwn DEF LInv, IInv, Root
  <2>2. \A e \in Range(old) : e[1] \in Objects /\ IsObject(e[2])
    BY <1>2
  <2> HIDE DEF old, lat
  <2> QED BY <1>1, <1>2, <2>1, <2>2, RestoredSays
<1>11. \A g \in Rekeyed(old) : \A k \in OldKeys(g, old) : g \in G /\ Claims(g, k, object, save) /\ contested[g] # {}
  <2> SUFFICES ASSUME NEW g \in Rekeyed(old), NEW k \in OldKeys(g, old)
               PROVE  g \in G /\ Claims(g, k, object, save) /\ contested[g] # {}
    OBVIOUS
  <2>1. g \in G /\ contested[g] # {}
    BY <1>2 DEF Rekeyed, Key
  <2>2. Claims(g, k, object, save)
    BY DEF OldKeys, Claims, Used, Marked, Key
  <2> QED BY <2>1, <2>2
<1>12. \A r, k : <<r, k>> \in T => \E g \in Rekeyed(old) : object[g].root = r /\ k \in OldKeys(g, old)
  BY DEF Root
<1> HIDE DEF c, lat, snap, p, G, T, old
<1>13. Touches(G, ledger, lat, p)
  <2>1. ASSUME NEW r \in Objects, NEW k, \A g \in G : p[g].root = r => ~ Claims(g, k, object, save)
        PROVE  SameAt(ledger[r], lat[r], k)
    <3>1. <<r, k>> \notin T
      BY <1>2, <1>8, <1>11, <1>12, <2>1
    <3> QED BY <1>10, <3>1 DEF Within
  <2> QED BY <1>10, <2>1 DEF Touches, Within
<1>14. GraphInv(Idle, p)
  <2>1. Range(<<>>) = {}
    BY DEF Range
  <2> QED BY <2>1, IdleFields DEF GraphInv
<1>15. Steps(s, Idle)
  <2>1. NewClaims(s, p, save') /\ Joins(p)
    BY <1>8, <1>9 DEF NewClaims, Joins
  <2>2. \A h \in Objects \ G : p[h] = object[h] /\ snap[h] = snapshot[h]
    BY <1>2, <1>6
  <2>3. \A h : ~ Waits(Idle, h)
    BY IdleFields DEF Waits
  <2>4. nextId <= nextId' /\ backed \subseteq backed'
    BY <1>1 DEF VInv
  <2> QED BY <1>1, <1>13, <1>14, <2>1, <2>2, <2>3, <2>4, IdleFields DEF Steps, G, lat, snap, p
<1>16. ASSUME NEW h \in G, contested[h] = {}, Alone(h, object)
       PROVE  Truthful(Idle, h, p, lat, snap, backed')
  <2>1. ~ Wrote(Idle, h) /\ Range(Idle.old) = {}
    <3>1. Range(<<>>) = {}
      BY DEF Range
    <3> QED BY <3>1, IdleFields DEF Wrote
  <2>2. h \in Objects /\ object[h].root \in Objects
    BY <1>2, RootOwn
  <2>3. Rightful(object)
    BY OwnClaim DEF Rightful
  <2>4. \A g \in Objects \ {h} : object[g].root = object[h].root => ~ Claims(g, object[h].key, object, save)
    BY <1>16, <2>2, <2>3, AloneClaims
  <2>5. Truthful(c, h, object, ledger, snapshot, backed)
    BY <1>16, <2>2, OwnTruthful DEF c, G
  <2>6. SameAt(ledger[object[h].root], lat[object[h].root], object[h].key)
    <3>1. <<object[h].root, object[h].key>> \notin T
      BY <1>2, <1>11, <1>12, <1>16, <2>4
    <3> QED BY <1>10, <2>2, <3>1 DEF Within
  <2>7. CASE ~ Wrote(c, h)
    <3>1. Faithful(object[h], ledger[object[h].root], snapshot[h], backed)
      BY <2>5, <2>7 DEF Truthful
    <3>2. Faithful(object[h], lat[object[h].root], snapshot[h], backed)
      BY <2>6, <3>1, SameFaithful
    <3> QED BY <1>1, <1>6, <2>1, <2>2, <2>7, <3>2 DEF Truthful
  <2>8. CASE Wrote(c, h)
    <3>1. PICK e \in Range(old) :
               /\ e[1] = h /\ snap[h] = e[3] /\ p[h].root = object[h].root /\ p[h].key = e[2].key
               /\ p[h].ver = e[2].ver /\ p[h].val = e[2].val /\ p[h].action = e[2].action
      BY <1>7, <2>2, <2>8
    <3>2. Faithful(e[2], ledger[object[h].root], e[3], backed)
      BY <2>5, <3>1 DEF Truthful, old
    <3>3. e[2].key = object[h].key
      BY <1>2, <1>16, <3>1
    <3>4. Faithful(e[2], lat[object[h].root], e[3], backed)
      BY <2>6, <3>2, <3>3, SameFaithful
    <3>5. Faithful(p[h], lat[p[h].root], snap[h], backed)
      BY <3>1, <3>4 DEF Faithful, Changed
    <3> QED BY <1>1, <2>1, <3>5 DEF Truthful
  <2> QED BY <2>7, <2>8
<1>17. \A h \in G : OwnInv(Idle, h, object', ledger', backed', contested)
  BY IdleFields DEF OwnInv, ShowsInv, HoldsInv, PassedInv, AsksInv, Waits
<1>18. \A h \in G : contested[h] = {} /\ Alone(h, object') /\ Alone(h, object)
          => Truthful(Idle, h, object', ledger', snapshot', backed')
  BY <1>16 DEF lat, snap, p
<1> QED BY <1>15, <1>17, <1>18, SaverStep DEF G

-----------------------------------------------------------------------------
(* Attaching the objects of a graph *)

\* Memory n is the memory with the objects of hs, of graph s, attached to r.
Brings(n, hs, r) ==
  /\ MemoryOK(n)
  /\ \A h \in Objects :
       /\ n.object[h].key = object[h].key /\ n.object[h].action = object[h].action
       /\ n.object[h].ver = object[h].ver /\ n.object[h].val = object[h].val
       /\ n.object[h].root = IF h \in Range(hs) THEN r ELSE object[h].root
       /\ h \notin Range(hs) => n.object[h] = object[h]
  /\ Joins(n.object)
  /\ Within(ledger, n.ledger, {<<r, object[h].key>> : h \in {g \in Range(hs) : object[g].root # r}})
  /\ \A h \in Objects : \A snap, bk :
       Alone(h, n.object) /\ Faithful(object[h], ledger[object[h].root], snap, bk)
         => Faithful(n.object[h], n.ledger[n.object[h].root], snap, bk)

\* The objects of a graph are in their own ledgers or in that of the first.
LEMMA GraphRoots ==
  ASSUME IInv, LInv, NEW s \in Savers, save[s].pc # "idle"
  PROVE  /\ save[s].graph # <<>> /\ Head(save[s].graph) \in Objects
         /\ object[Head(save[s].graph)].root \in Objects
         /\ object[object[Head(save[s].graph)].root].root = object[Head(save[s].graph)].root
         /\ \A h \in Range(save[s].graph) :
              /\ h \in Objects
              /\ h = Head(save[s].graph) \/ h \in Range(items[Head(save[s].graph)])
              /\ h # Head(save[s].graph) =>
                   object[Head(save[s].graph)].root = Head(save[s].graph)
              /\ object[h].root # object[Head(save[s].graph)].root =>
                   /\ object[h].root = h /\ items[h] = <<>>
                   /\ object[Head(save[s].graph)].root = Head(save[s].graph)
                   /\ h \in Range(items[Head(save[s].graph)])
<1> DEFINE c == save[s]
<1>1. GraphInv(c, object) /\ LevelsInv /\ RootsInv(object) /\ items \in [Objects -> Seq(Objects)]
  BY DEF LInv, IInv
<1>2. c.graph # <<>>
  BY <1>1 DEF GraphInv
<1>3. PICK o \in Objects : c.graph = Graph(o)
  BY <1>1, <1>2 DEF GraphInv
<1>4. Head(c.graph) = o /\ Range(c.graph) = {o} \cup Range(items[o]) /\ Range(items[o]) \subseteq Objects
  BY <1>1, <1>3, GraphRange, ItemObjects
<1>5. object[o].root \in Objects /\ object[object[o].root].root = object[o].root
  BY RootOwn
<1> HIDE DEF c
<1>6. ASSUME NEW h \in Range(items[o])
      PROVE  /\ items[h] = <<>> /\ object[o].root = o /\ (object[h].root # o => object[h].root = h)
  <2>1. h \in Objects /\ items[h] = <<>>
    BY <1>1, <1>4, ListEmpty
  <2>2. items[o] # <<>>
    <3>1. Range(<<>>) = {}
      BY DEF Range
    <3> QED BY <3>1
  <2>3. object[o].root = o
    BY <1>1, <2>2, ListEmpty DEF RootsInv
  <2>4. object[h].root # o => object[h].root = h
    BY <1>1, <2>1 DEF RootsInv, LevelsInv
  <2> QED BY <2>1, <2>3, <2>4
<1> QED BY <1>2, <1>4, <1>5, <1>6 DEF c

LEMMA MemoryIs ==
  ASSUME IInv, LInv
  PROVE  MemoryOK(Memory) /\ Memory.object = object /\ Memory.ledger = ledger
<1>1. \A h \in Objects : object[h].root \in Objects
  BY RootOwn
<1> QED BY <1>1 DEF MemoryOK, Memory, IInv, LInv

LEMMA AttachBrings ==
  ASSUME IInv, LInv, NEW s \in Savers, save[s].pc # "idle", NEW hs \in Seq(Objects),
         Range(hs) \subseteq Range(save[s].graph)
  PROVE  Brings(AttachAll(Memory, hs, object[Head(save[s].graph)].root), hs, object[Head(save[s].graph)].root)
<1> DEFINE r == object[Head(save[s].graph)].root
           n == AttachAll(Memory, hs, r)
           m == Memory
           lat == AttachedLedger(Memory, hs, r)
           o == Head(save[s].graph)
<1>1. MemoryOK(m) /\ m.object = object /\ m.ledger = ledger
  BY MemoryIs
<1>2. /\ r \in Objects /\ object[r].root = r
      /\ \A h \in Range(hs) : h \in Objects /\ (object[h].root # r =>
           object[h].root = h /\ items[h] = <<>> /\ r = o /\ h \in Range(items[o]))
  BY GraphRoots
<1>3. /\ DOMAIN n = {"object", "ledger"} /\ n.ledger = lat
      /\ n.object = [h \in Objects |-> IF h \in Range(hs) THEN [object[h] EXCEPT !.root = r] ELSE object[h]]
  BY <1>1 DEF AttachAll
<1>4. Attached(m, lat, hs, r)
  <2> HIDE DEF r
  <2> QED BY <1>1, <1>2, AttachedSays
<1> HIDE DEF n, lat, m, r
<1>5. /\ Within(ledger, lat, {<<r, object[h].key>> : h \in {g \in Range(hs) : object[g].root # r}})
      /\ \A h \in Range(hs) : object[h].root # r => LET k == object[h].key IN
           ~ Mentions(ledger[r], k) /\ (\A g \in Range(hs) : object[g].root # r /\ object[g].key = k => g = h) =>
             Carries(ledger[object[h].root], k, lat[r], k)
  BY <1>1, <1>4 DEF Attached, Comers
<1>6. \A h \in Objects :
       /\ n.object[h].key = object[h].key /\ n.object[h].action = object[h].action
       /\ n.object[h].ver = object[h].ver /\ n.object[h].val = object[h].val
       /\ n.object[h].root = IF h \in Range(hs) THEN r ELSE object[h].root
       /\ h \notin Range(hs) => n.object[h] = object[h]
       /\ IsObject(n.object[h])
  <2> SUFFICES ASSUME NEW h \in Objects
       PROVE
       /\ n.object[h].key = object[h].key /\ n.object[h].action = object[h].action
       /\ n.object[h].ver = object[h].ver /\ n.object[h].val = object[h].val
       /\ n.object[h].root = IF h \in Range(hs) THEN r ELSE object[h].root
       /\ h \notin Range(hs) => n.object[h] = object[h]
       /\ IsObject(n.object[h])
    OBVIOUS
  <2>1. IsObject(object[h])
    BY DEF IInv, ObjectsOK
  <2>2. n.object[h] = IF h \in Range(hs) THEN [object[h] EXCEPT !.root = r] ELSE object[h]
    BY <1>3
  <2> QED BY <2>1, <2>2 DEF IsObject, ObjectFields
<1>7. MemoryOK(n)
  <2>1. \A h \in Objects : object[h].root \in Objects
    BY RootOwn
  <2> QED BY <1>2, <1>3, <1>5, <1>6, <2>1 DEF MemoryOK, ObjectsOK, Within
<1>8. Joins(n.object)
  BY <1>2, <1>6 DEF Joins
<1>9. ASSUME NEW h \in Objects, NEW snap, NEW bk, Alone(h, n.object),
             Faithful(object[h], ledger[object[h].root], snap, bk)
      PROVE  Faithful(n.object[h], n.ledger[n.object[h].root], snap, bk)
  <2> DEFINE k == object[h].key
  <2>1. Rightful(n.object)
    BY <1>6, OwnClaim DEF Rightful
  <2>2. ASSUME NEW g \in Objects \ {h}, n.object[g].root = n.object[h].root
        PROVE  ~ Claims(g, k, object, save) /\ object[g].key # k
    BY <1>6, <1>9, <2>1, <2>2, AloneClaims
  <2>3. object[h].root \in Objects
    BY RootOwn
  <2>4. CASE h \in Range(hs) /\ object[h].root # r
    <3>1. n.object[h].root = r
      BY <1>6, <2>4
    <3>2. ~ Mentions(ledger[r], k)
      <4>1. SUFFICES ASSUME Mentions(ledger[r], k) PROVE FALSE
        OBVIOUS
      <4>2. Claims(h, k, object, save)
        BY OwnClaim
      <4>3. PICK g \in Objects : object[g].root = r /\ Claims(g, k, object, save)
        BY <1>2, <4>1, <4>2 DEF LInv, SupportInv
      <4>4. g # h /\ n.object[g].root = r
        BY <1>6, <2>4, <4>3
      <4> QED BY <2>2, <3>1, <4>3, <4>4
    <3>3. \A g \in Range(hs) : object[g].root # r /\ object[g].key = k => g = h
      <4> SUFFICES ASSUME NEW g \in Range(hs), object[g].key = k, g # h PROVE FALSE
        OBVIOUS
      <4>1. g \in Objects /\ n.object[g].root = r
        BY <1>2, <1>6
      <4> QED BY <2>2, <3>1, <4>1
    <3>4. Carries(ledger[object[h].root], k, lat[r], k)
      BY <1>5, <2>4, <3>2, <3>3
    <3> DEFINE l2 == lat[r]
               l1 == ledger[object[h].root]
               o1 == object[h]
               o2 == n.object[h]
    <3>5. Faithful(o2, l2, snap, bk)
      <4>1. /\ o2.ver = o1.ver /\ o2.val = o1.val /\ o2.action = o1.action /\ o2.key = o1.key
            /\ Carries(l1, o1.key, l2, o2.key) /\ Faithful(o1, l1, snap, bk)
        BY <1>6, <1>9, <3>4
      <4> HIDE DEF o1, o2, l1, l2, k
      <4> QED BY <4>1, CarriesFaithful
    <3> QED BY <1>3, <3>1, <3>5
  <2>5. CASE ~ (h \in Range(hs) /\ object[h].root # r)
    <3>1. n.object[h].root = object[h].root
      BY <1>6, <2>5
    <3>2. <<object[h].root, k>> \notin {<<r, object[g].key>> : g \in {f \in Range(hs) : object[f].root # r}}
      <4> SUFFICES ASSUME NEW g \in Range(hs), object[g].root # r, object[h].root = r, object[g].key = k
                   PROVE  FALSE
        OBVIOUS
      <4>1. g # h /\ g \in Objects /\ n.object[g].root = r
        BY <1>2, <1>6
      <4> QED BY <2>2, <3>1, <4>1
    <3>3. SameAt(ledger[object[h].root], lat[object[h].root], k)
      BY <1>5, <2>3, <3>2 DEF Within
    <3>4. Faithful(object[h], lat[object[h].root], snap, bk)
      BY <1>9, <3>3, SameFaithful
    <3>5. Faithful(n.object[h], lat[object[h].root], snap, bk)
      BY <1>6, <3>4 DEF Faithful, Changed
    <3> QED BY <1>3, <3>1, <3>5
  <2> QED BY <2>4, <2>5
<1> QED BY <1>3, <1>5, <1>6, <1>7, <1>8, <1>9 DEF Brings, n, r

-----------------------------------------------------------------------------
(* The steps before the transaction *)

\* A bounded set of numbers has a greatest.
LEMMA MaxIn ==
  ASSUME NEW N \in Nat, NEW T, T \subseteq 0 .. N, T # {}
  PROVE  Max(T) \in T
<1> DEFINE U == {N - x : x \in T}
<1>1. U \subseteq Nat /\ U # {}
  <2>1. PICK x : x \in T
    OBVIOUS
  <2>2. N - x \in U
    BY <2>1
  <2>3. \A y \in T : N - y \in Nat
    OBVIOUS
  <2> QED BY <2>2, <2>3
<1>2. Min(U) \in U /\ \A y \in U : Min(U) <= y
  <2> HIDE DEF U
  <2> QED BY <1>1, MinLeast
<1>3. PICK x \in T : Min(U) = N - x
  BY <1>2
<1>4. \A y \in T : x >= y
  <2>1. ASSUME NEW y \in T PROVE x >= y
    <3>1. N - y \in U
      OBVIOUS
    <3>2. N - x <= N - y
      BY <1>2, <1>3, <3>1
    <3>3. x \in 0 .. N /\ y \in 0 .. N
      OBVIOUS
    <3> QED BY <3>2, <3>3
  <2> QED BY <2>1
<1> QED BY <1>4 DEF Max

\* The places of a sequence up to n.
LEMMA UpToPlace ==
  ASSUME NEW S, NEW q \in Seq(S), NEW n \in 0 .. Len(q)
  PROVE  /\ SubSeq(q, 1, n) \in Seq(S) /\ Len(SubSeq(q, 1, n)) = n
         /\ \A i \in 1 .. n : SubSeq(q, 1, n)[i] = q[i]
         /\ Range(SubSeq(q, 1, n)) \subseteq Range(q)
         /\ n = Len(q) => SubSeq(q, 1, n) = q
<1>1. /\ SubSeq(q, 1, n) \in Seq(S) /\ Len(SubSeq(q, 1, n)) = n
      /\ \A i \in 1 .. n : SubSeq(q, 1, n)[i] = q[i]
  BY SubSeqProperties
<1>2. Range(SubSeq(q, 1, n)) \subseteq Range(q)
  BY <1>1 DEF Range
<1>3. n = Len(q) => SubSeq(q, 1, n) = q
  BY <1>1
<1> QED BY <1>1, <1>2, <1>3

\* What is attached of a sequence of objects are the first of them.
LEMMA AttachableFirst ==
  ASSUME NEW m, NEW hs \in Seq(Objects), NEW r
  PROVE  Attachable(m, hs, r) \in Seq(Objects) /\ Range(Attachable(m, hs, r)) \subseteq Range(hs)
<1> DEFINE clean == {n \in 0 .. Len(hs) : \A i \in 1 .. n :
                       ~Clashes(AttachAll(m, SubSeq(hs, 1, i - 1), r), hs[i], r)}
<1>1. clean \subseteq 0 .. Len(hs) /\ Len(hs) \in Nat /\ 0 \in clean
  OBVIOUS
<1>2. Attachable(m, hs, r) = SubSeq(hs, 1, Max(clean))
  BY DEF Attachable
<1> HIDE DEF clean
<1>3. Max(clean) \in 0 .. Len(hs)
  BY <1>1, MaxIn
<1> QED BY <1>2, <1>3, UpToPlace

\* The ledgers that change are those of objects of the graph, at their keys.
LEMMA BringsTouches ==
  ASSUME NEW n, NEW hs, NEW r, Brings(n, hs, r), NEW G, Range(hs) \subseteq G, G \subseteq Objects
  PROVE  Touches(G, ledger, n.ledger, n.object)
<1> DEFINE T == {<<r, object[h].key>> : h \in {g \in Range(hs) : object[g].root # r}}
<1>1. /\ Within(ledger, n.ledger, T) /\ \A h \in Range(hs) : n.object[h].root = r
  BY DEF Brings
<1>2. ASSUME NEW q \in Objects, NEW k,
             \A g \in G : n.object[g].root = q => ~ Claims(g, k, object, save) /\ n.object[g].key # k /\ g # k
      PROVE  SameAt(ledger[q], n.ledger[q], k)
  <2>1. <<q, k>> \notin T
    <3> SUFFICES ASSUME NEW h \in Range(hs), q = r, k = object[h].key PROVE FALSE
      OBVIOUS
    <3> QED BY <1>1, <1>2, OwnClaim
  <2> HIDE DEF T
  <2> QED BY <1>1, <2>1 DEF Within
<1> QED BY <1>1, <1>2 DEF Touches, Within

\* A call that goes on using what it used brings no claims.
LEMMA OldClaims ==
  ASSUME IInv, NEW s \in Savers, NEW c, save' = [save EXCEPT ![s] = c], NEW p,
         \A h \in Objects : p[h].key = object[h].key,
         \A h, k : Used(c, h, k) => Used(save[s], h, k)
  PROVE  NewClaims(s, p, save')
<1>1. \A t \in Savers : save'[t] = IF t = s THEN c ELSE save[t]
  BY DEF IInv
<1> QED BY <1>1 DEF NewClaims, Claims

LEMMA ReserveLedgers ==
  ASSUME IInv, VInv, LInv, IInv', VInv', NEW s \in Savers, Reserve(s)
  PROVE  LInv'
<1> DEFINE todo == save[s].todo
           r == object[Head(save[s].graph)].root
           waiting == {i \in 1 .. Len(todo) : NeedsId(todo[i])}
           n == IF waiting = {} THEN Len(todo) ELSE Min(waiting)
           reached == SubSeq(todo, 1, n)
           attached == Attachable(Memory, reached, r)
           begins == [save[s] EXCEPT !.pc = "begin", !.todo = <<>>]
           waits == [save[s] EXCEPT !.pc = "allocate", !.todo = SubSeq(todo, n, Len(todo))]
           c == IF attached # reached THEN Idle ELSE IF waiting = {} THEN begins ELSE waits
           m == AttachAll(Memory, attached, r)
<1>1. /\ save[s].pc = "reserve" /\ save' = [save EXCEPT ![s] = c]
      /\ UNCHANGED <<items, snapshot, nextId, contested, backed>>
      /\ object' = m.object /\ ledger' = m.ledger
  BY DEF Reserve, Remember, graph, Root
<1>2. /\ DOMAIN save[s] = SaveFields /\ Range(save[s].graph) \subseteq Objects
      /\ todo \in Seq(Objects) /\ Range(todo) \subseteq Range(save[s].graph)
  BY CallGraph
<1>3. waiting # {} => n \in 1 .. Len(todo) /\ NeedsId(todo[n])
  <2>1. waiting \subseteq Nat
    BY <1>2
  <2>2. waiting # {} => n \in waiting
    <3> HIDE DEF waiting
    <3> QED BY <2>1, MinLeast
  <2> HIDE DEF n
  <2> QED BY <2>2
<1>4. n \in 0 .. Len(todo)
  <2>1. Len(todo) \in Nat
    BY <1>2
  <2>2. waiting = {} => n = Len(todo)
    OBVIOUS
  <2> HIDE DEF n, waiting
  <2> QED BY <1>3, <2>1, <2>2
<1>5. reached \in Seq(Objects) /\ Range(reached) \subseteq Range(todo)
  <2> HIDE DEF n
  <2> QED BY <1>2, <1>4, UpToPlace
<1>6. attached \in Seq(Objects) /\ Range(attached) \subseteq Range(save[s].graph)
  <2> HIDE DEF reached
  <2> QED BY <1>2, <1>5, AttachableFirst
<1>7. Brings(m, attached, r)
  <2> HIDE DEF attached
  <2> QED BY <1>1, <1>6, AttachBrings
<1>8. /\ c = Idle \/ /\ c.graph = save[s].graph /\ c.command = save[s].command /\ c.old = save[s].old
                     /\ c.written = save[s].written /\ c.pc \in {"begin", "allocate"}
      /\ c.pc = "allocate" => NeedsId(Head(c.todo))
  <2>1. /\ begins.graph = save[s].graph /\ begins.command = save[s].command /\ begins.old = save[s].old
        /\ begins.written = save[s].written /\ begins.pc = "begin"
    BY <1>2 DEF SaveFields
  <2>2. /\ waits.graph = save[s].graph /\ waits.command = save[s].command /\ waits.old = save[s].old
        /\ waits.written = save[s].written /\ waits.pc = "allocate" /\ waits.todo = SubSeq(todo, n, Len(todo))
    <3> HIDE DEF n
    <3> QED BY <1>2 DEF SaveFields
  <2>3. waiting # {} => Head(SubSeq(todo, n, Len(todo))) = todo[n]
    <3> HIDE DEF n, todo
    <3> QED BY <1>2, <1>3, FromPlace
  <2>4. Idle.pc # "allocate"
    BY IdleFields
  <2> HIDE DEF n, waiting, waits, begins, attached, reached
  <2> QED BY <1>3, <2>1, <2>2, <2>3, <2>4
<1> HIDE DEF c, m, attached, waiting, n, reached, waits, begins, todo, r
<1>9. \A h \in Objects : object'[h].key = object[h].key /\ object'[h].action = object[h].action
  BY <1>1, <1>7 DEF Brings
<1>10. \A h, k : Used(c, h, k) => Used(save[s], h, k)
  BY <1>8, IdleUsesNothing DEF Used, Marked
<1>11. save[s].old = <<>> /\ c.old = <<>> /\ Range(<<>>) = {}
  <2>1. save[s].old = <<>>
    BY <1>1 DEF VInv, CallInv, BlankInv, Holds
  <2> QED BY <1>8, <2>1, IdleFields DEF Range
<1>12. \A h \in Objects : Waits(c, h) => NeedsId(h)
  BY <1>8 DEF Waits
<1>13. GraphInv(c, object')
  <2>1. GraphInv(save[s], object')
    BY <1>1, <1>7, GraphKept DEF LInv, Brings
  <2>2. Range(Idle.written) = {}
    BY IdleFields DEF Range
  <2> QED BY <1>1, <1>8, <2>1, <2>2, IdleFields DEF GraphInv
<1>14. Steps(s, c)
  <2>1. NewClaims(s, object', save')
    BY <1>1, <1>9, <1>10, OldClaims
  <2>2. Touches(Range(save[s].graph), ledger, ledger', object')
    BY <1>1, <1>2, <1>6, <1>7, BringsTouches
  <2>3. \A h \in Objects \ Range(save[s].graph) : object'[h] = object[h] /\ snapshot'[h] = snapshot[h]
    BY <1>1, <1>6, <1>7 DEF Brings
  <2>4. nextId <= nextId'
    BY <1>1 DEF VInv
  <2> QED BY <1>1, <1>7, <1>8, <1>9, <1>12, <1>13, <2>1, <2>2, <2>3, <2>4, IdleFields DEF Steps, Brings, NeedsId, Key
<1>15. ASSUME NEW h \in Range(save[s].graph), contested[h] = {}, Alone(h, object'), Alone(h, object)
       PROVE  Truthful(c, h, object', ledger', snapshot', backed')
  <2>1. h \in Objects /\ ~ Wrote(save[s], h)
    BY <1>2, <1>11 DEF Wrote
  <2>2. Faithful(object[h], ledger[object[h].root], snapshot[h], backed)
    BY <1>15, <2>1, OwnTruthful DEF Truthful
  <2>3. Faithful(object'[h], ledger'[object'[h].root], snapshot[h], backed)
    BY <1>1, <1>7, <1>15, <2>1, <2>2 DEF Brings
  <2> QED BY <1>1, <1>11, <2>3 DEF Truthful
<1>16. ASSUME NEW h \in Range(save[s].graph)
       PROVE  OwnInv(c, h, object', ledger', backed', contested)
  <2>1. c.pc \notin {"write", "commit", "settle"}
    BY <1>8, IdleFields
  <2>2. AsksInv(c, h, object', contested)
    BY <1>2, <1>9, <1>12 DEF AsksInv, NeedsId
  <2> QED BY <2>1, <2>2 DEF OwnInv, ShowsInv, HoldsInv, PassedInv
<1> QED BY <1>14, <1>15, <1>16, SaverStep

\* More objects may be touched.
LEMMA TouchesMore ==
  ASSUME NEW F, NEW led, NEW lat, NEW p, Touches(F, led, lat, p), NEW G, F \subseteq G
  PROVE  Touches(G, led, lat, p)
BY DEF Touches

\* What is pending for a temporary key becomes pending for a new one.
LEMMA AllocateTells ==
  ASSUME NEW l, IsLedger(l), NEW a, NEW b
  PROVE  LET m == SetField(Rekey(l, a, b), b, "id", b)
         IN  /\ Only(l, m, {a, b})
             /\ ~ Mentions(l, b) => Tells(l, a, m, b)
<1> DEFINE n == Rekey(l, a, b)
           values == [f \in {"id"} |-> b]
           m == SetFields(n, b, values)
<1>1. Moved(l, n, a, b)
  BY RekeySays
<1>2. IsLedger(n)
  BY <1>1 DEF Moved, Only
<1> HIDE DEF n
<1>3. Sets(n, m, b, values)
  BY <1>2, SetFieldsSays
<1>4. DOMAIN values = {"id"} /\ "val" \notin DOMAIN values
  OBVIOUS
<1> HIDE DEF m, values
<1>5. Only(l, m, {a, b} \cup {b})
  BY <1>1, <1>3, OnlyTrans DEF Moved, Sets
<1>6. Only(l, m, {a, b})
  <2>1. {a, b} \cup {b} = {a, b}
    OBVIOUS
  <2> QED BY <1>5, <2>1
<1>7. ASSUME ~ Mentions(l, b) PROVE Tells(l, a, m, b)
  <2>1. Tells(l, a, n, b)
    BY <1>1, <1>7 DEF Moved, Carries
  <2>2. OriginalVersion(m, b) = OriginalVersion(n, b)
    BY <1>3 DEF Sets, OriginalVersion
  <2>3. "val" \in DOMAIN Fields(m, b) <=> "val" \in DOMAIN Fields(n, b)
    BY <1>3, <1>4 DEF Sets
  <2>4. "val" \in DOMAIN Fields(n, b) => Fields(m, b)["val"] = Fields(n, b)["val"]
    BY <1>3, <1>4 DEF Sets
  <2>5. m.new = n.new /\ m.deleted = n.deleted
    BY <1>3 DEF Sets
  <2> QED BY <2>1, <2>2, <2>3, <2>4, <2>5 DEF Tells
<1> QED BY <1>6, <1>7 DEF m, n, values, SetField

LEMMA AllocateLedgers ==
  ASSUME IInv, VInv, LInv, IInv', VInv', NEW s \in Savers, Allocate(s)
  PROVE  LInv'
<1> DEFINE h == Head(save[s].todo)
           c == [save[s] EXCEPT !.pc = "reserve", !.todo = Tail(@)]
           r == object[h].root
           l == SetField(Rekey(ledger[r], h, nextId), nextId, "id", nextId)
<1>1. /\ CallOK(save[s], object, contested) /\ DOMAIN save[s] = SaveFields
      /\ save[s].todo \in Seq(Objects) /\ Range(save[s].todo) \subseteq Range(save[s].graph)
      /\ Range(save[s].graph) \subseteq Objects
  BY CallGraph DEF IInv
<1>2. /\ save[s].pc = "allocate" /\ UNCHANGED <<items, snapshot, contested, backed>>
      /\ nextId \in Ids /\ nextId' = nextId + 1
      /\ object' = [object EXCEPT ![h].key = nextId]
      /\ ledger' = [ledger EXCEPT ![r] = l]
  BY DEF Allocate, graph, Root
<1>3. save' = [save EXCEPT ![s] = c]
  BY <1>1 DEF Allocate, SaveFields, IInv
<1>4. h \in Objects /\ h \in Range(save[s].graph)
  <2>1. save[s].todo # <<>>
    BY <1>1, <1>2 DEF CallOK, AllocateOK
  <2> QED BY <1>1, <2>1, HeadAndTail
<1>5. /\ c.pc = "reserve" /\ c.graph = save[s].graph /\ c.command = save[s].command
      /\ c.old = save[s].old /\ c.written = save[s].written
  BY <1>1 DEF SaveFields
<1>6. Waits(save[s], h) /\ (contested[h] = {} => object[h].key = h)
  BY <1>1, <1>2 DEF Waits, CallOK, AllocateOK, Crossed
<1>7. nextId \in Nat /\ ~ Known(nextId, nextId) /\ nextId # h
  BY <1>2, <1>4, IdsAssumption DEF VInv, IdsAssumption, Known
<1>8. r \in Objects /\ object[r].root = r /\ IsLedger(ledger[r]) /\ LedgersOK(ledger)
  <2>1. r \in Objects /\ object[r].root = r /\ LedgersOK(ledger)
    BY <1>4, RootOwn DEF LInv
  <2> QED BY <2>1 DEF LedgersOK
<1>9. Only(ledger[r], l, {h, nextId}) /\ (~ Mentions(ledger[r], nextId) => Tells(ledger[r], h, l, nextId))
  <2> HIDE DEF h, r
  <2> QED BY <1>8, AllocateTells
<1> HIDE DEF h, c, r, l
<1>10. /\ object'[h].key = nextId /\ object'[h].ver = object[h].ver /\ object'[h].val = object[h].val
       /\ object'[h].action = object[h].action /\ object'[h].root = r
       /\ \A g \in Objects \ {h} : object'[g] = object[g]
  <2>1. DOMAIN object = Objects /\ IsObject(object[h])
    BY <1>4 DEF IInv, ObjectsOK
  <2> QED BY <1>2, <1>4, <2>1 DEF IsObject, ObjectFields, r
<1>11. Touches({h}, ledger, ledger', object')
  <2>1. Within(ledger, ledger', {<<r, k>> : k \in {h, nextId}})
    BY <1>2, <1>8, <1>9, WithinOne
  <2>2. ASSUME NEW q \in Objects, NEW k,
               \A g \in {h} : object'[g].root = q => ~ Claims(g, k, object, save) /\ object'[g].key # k /\ g # k
        PROVE  SameAt(ledger[q], ledger'[q], k)
    <3>1. <<q, k>> \notin {<<r, j>> : j \in {h, nextId}}
      BY <1>10, <2>2
    <3> QED BY <2>1, <3>1 DEF Within
  <2> QED BY <2>1, <2>2 DEF Touches, Within
<1>12. Joins(object')
  BY <1>10 DEF Joins, r
<1>13. NewClaims(s, object', save')
  <2>1. \A t \in Savers : \A g, k : Used(save'[t], g, k) => Used(save[t], g, k)
    <3>1. \A t \in Savers : save'[t] = IF t = s THEN c ELSE save[t]
      BY <1>3 DEF IInv
    <3> QED BY <1>5, <3>1 DEF Used, Marked
  <2>2. ASSUME NEW g \in Objects, NEW k, object'[g].key = k
        PROVE  Claims(g, k, object, save) \/ (Waits(save[s], g) /\ k \in Ids /\ ~ Known(k, nextId))
    BY <1>2, <1>6, <1>7, <1>10, <2>2 DEF Claims
  <2> QED BY <2>1, <2>2 DEF NewClaims, Claims
<1>14. Steps(s, c)
  <2>1. GraphInv(c, object')
    <3>1. GraphInv(save[s], object')
      BY <1>12, GraphKept DEF LInv
    <3> QED BY <1>2, <1>5, <3>1 DEF GraphInv
  <2>2. Touches(Range(save[s].graph), ledger, ledger', object')
    BY <1>4, <1>11, TouchesMore
  <2>3. nextId <= nextId'
    BY <1>2, <1>7
  <2>4. \A g : ~ Waits(c, g)
    BY <1>5 DEF Waits
  <2> QED BY <1>2, <1>3, <1>4, <1>5, <1>10, <1>12, <1>13, <2>1, <2>2, <2>3, <2>4 DEF Steps
<1>15. ASSUME NEW g \in Range(save[s].graph), contested[g] = {}, Alone(g, object'), Alone(g, object)
       PROVE  Truthful(c, g, object', ledger', snapshot', backed')
  <2>1. /\ g \in Objects /\ save[s].old = <<>> /\ Range(<<>>) = {}
    BY <1>1, <1>2 DEF VInv, CallInv, BlankInv, Holds, Range
  <2>2. Faithful(object[g], ledger[object[g].root], snapshot[g], backed)
    BY <1>15, <2>1, OwnTruthful DEF Truthful, Wrote
  <2>3. Faithful(object'[g], ledger'[object'[g].root], snapshot[g], backed)
    <3>1. CASE g = h
      <4>1. object[h].action = "Create" /\ object[h].key = h
        BY <1>4, <1>6, <1>15, <3>1 DEF LInv, OwnInv, AsksInv
      <4>2. ~ Mentions(ledger[r], nextId)
        BY <1>7, <1>8 DEF LInv, SupportInv
      <4>3. Tells(ledger[r], h, l, nextId) /\ ledger'[r] = l
        BY <1>2, <1>8, <1>9, <4>2 DEF LedgersOK
      <4> QED BY <1>10, <2>2, <3>1, <4>1, <4>3 DEF r, Faithful, Tells
    <3>2. CASE g # h
      <4>1. object'[g] = object[g] /\ object[g].root \in Objects
        BY <1>10, <2>1, <3>2, RootOwn
      <4>2. Rightful(object') /\ KeysInv(object, save)
        BY <1>14, StepRightful DEF LInv
      <4>3. SameAt(ledger[object[g].root], ledger'[object[g].root], object[g].key)
        <5> DEFINE p == object'
                   lat == ledger'
        <5>1. g \in Objects \ {h} /\ {h} \subseteq Objects
          BY <1>4, <2>1, <3>2
        <5>2. /\ Rightful(p) /\ Touches({h}, ledger, lat, p) /\ Alone(g, p)
              /\ p[g].key = object[g].key /\ p[g].root = object[g].root
          BY <1>11, <1>15, <4>1, <4>2
        <5>3. SameAt(ledger[object[g].root], lat[object[g].root], object[g].key)
          <6> HIDE DEF p, lat
          <6> QED BY <4>1, <4>2, <5>1, <5>2, Frame
        <5> QED BY <5>3
      <4> QED BY <2>2, <4>1, <4>3, SameFaithful
    <3> QED BY <3>1, <3>2
  <2> QED BY <1>2, <1>5, <2>1, <2>3 DEF Truthful
<1>16. ASSUME NEW g \in Range(save[s].graph)
       PROVE  OwnInv(c, g, object', ledger', backed', contested)
  BY <1>5 DEF OwnInv, ShowsInv, HoldsInv, PassedInv, AsksInv, Waits
<1> QED BY <1>14, <1>15, <1>16, SaverStep

-----------------------------------------------------------------------------
(* Going on with the work *)

\* The same memory, but for who holds it.
Alikes(m, n, hs) ==
  /\ MemoryOK(n)
  /\ \A h \in Objects : /\ Same(m.object[h], n.object[h]) /\ n.object[h].root = m.object[h].root
                        /\ h \notin Range(hs) => n.object[h] = m.object[h]

\* Attaching what is attached changes nothing.
LEMMA AttachAgain ==
  ASSUME NEW m, MemoryOK(m), NEW hs \in Seq(Objects), NEW r \in Objects,
         \A h \in Range(hs) : m.object[h].root = r
  PROVE  /\ Alikes(m, AttachAll(m, hs, r), hs)
         /\ Within(m.ledger, AttachAll(m, hs, r).ledger, {})
<1> DEFINE n == AttachAll(m, hs, r)
           lat == AttachedLedger(m, hs, r)
<1>1. /\ DOMAIN n = {"object", "ledger"} /\ n.ledger = lat
      /\ n.object = [h \in Objects |-> IF h \in Range(hs) THEN [m.object[h] EXCEPT !.root = r] ELSE m.object[h]]
  BY DEF AttachAll
<1>2. Attached(m, lat, hs, r)
  BY AttachedSays
<1> HIDE DEF n, lat
<1>3. {<<r, m.object[h].key>> : h \in Comers(m, hs, r)} = {}
  BY DEF Comers
<1>4. Within(m.ledger, lat, {})
  BY <1>2, <1>3 DEF Attached
<1>5. ASSUME NEW h \in Objects
      PROVE  /\ Same(m.object[h], n.object[h]) /\ n.object[h].root = m.object[h].root
             /\ IsObject(n.object[h])
             /\ h \notin Range(hs) => n.object[h] = m.object[h]
  <2>1. IsObject(m.object[h])
    BY DEF MemoryOK, ObjectsOK
  <2>2. n.object[h] = IF h \in Range(hs) THEN [m.object[h] EXCEPT !.root = r] ELSE m.object[h]
    BY <1>1
  <2> QED BY <2>1, <2>2 DEF IsObject, ObjectFields, Same
<1>6. MemoryOK(n)
  BY <1>1, <1>4, <1>5 DEF MemoryOK, ObjectsOK, Within
<1> QED BY <1>1, <1>4, <1>5, <1>6 DEF n, Alikes

\* The command of an object holds what its ledger has of it.
Held(c, o, l) ==
  /\ c.kind = o.action /\ c.key = o.key
  /\ c.kind = "Create" => "val" \in DOMAIN c.values
  /\ c.kind # "Delete" =>
       LET fields == Fields(l, o.key)
       IN  "val" \in DOMAIN fields => "val" \in DOMAIN c.values /\ c.values["val"] = fields["val"]

LEMMA CheckHolds ==
  ASSUME NEW m, MemoryOK(m), NEW h \in Objects, Pending(m, h)
  PROVE  Held(Command(m, h), m.object[h], Check(m, h).ledger[m.object[h].root])
<1> DEFINE o == m.object[h]
           r == o.root
           l == m.ledger[r]
           values == Command(m, h).values
           n == Check(m, h)
           l2 == SetFields(l, o.key, values)
<1>1. r \in Objects /\ IsLedger(l) /\ LedgersOK(m.ledger) /\ DOMAIN m = {"object", "ledger"} /\ IsObject(o)
  BY DEF MemoryOK, LedgersOK, ObjectsOK
<1>2. n = [m EXCEPT !.ledger[m.object[h].root] = SetFields(@, m.object[h].key, values)]
  BY DEF Check
<1>3. n.ledger = [m.ledger EXCEPT ![r] = l2]
  <2> HIDE DEF n, values
  <2> QED BY <1>1, <1>2
<1>4. Sets(l, l2, o.key, values)
  <2> HIDE DEF l, o, values
  <2> QED BY <1>1, SetFieldsSays
<1>5. /\ o.action = "Create" => "val" \in DOMAIN values
      /\ o.action = "Update" => DOMAIN values = DOMAIN Fields(l, o.key) \cup Stamps
      /\ Command(m, h).kind = o.action /\ Command(m, h).key = o.key
  <2>1. \A fs : DOMAIN Fixed(fs) = DOMAIN fs \cup Stamps
    BY DEF Fixed
  <2>2. /\ o.action = "Create" => values = Fixed([f \in {"val"} |-> o.val])
        /\ o.action = "Update" => values = Fixed(Fields(l, o.key))
        /\ Command(m, h).kind = o.action /\ Command(m, h).key = o.key
    BY DEF Command
  <2> HIDE DEF values, l, o
  <2> QED BY <2>1, <2>2
<1> HIDE DEF n, l2, values
<1>6. n.ledger[r] = l2
  <2> HIDE DEF l2, r
  <2> QED BY <1>1, <1>3 DEF LedgersOK
<1>7. o.action = "Create" => "val" \in DOMAIN values
  BY <1>5
<1>8. o.action # "Delete" /\ "val" \in DOMAIN Fields(l2, o.key) =>
        "val" \in DOMAIN values /\ values["val"] = Fields(l2, o.key)["val"]
  <2> HIDE DEF o, l
  <2>1. o.action \in {"Create", "Update", "Delete"}
    BY <1>1 DEF IsObject, Actions
  <2> QED BY <1>4, <1>5, <1>7, <2>1, CheckersAssumption DEF Sets
<1> HIDE DEF o, l
<1> QED BY <1>5, <1>6, <1>7, <1>8 DEF values, Held, n, r, o

\* Call d and memory n are what the work of c proceeds to in memory m.
Proceeds(c, m, todo, d, n) ==
  /\ Alikes(m, n, todo)
  /\ Within(m.ledger, n.ledger, {<<m.object[h].root, m.object[h].key>> : h \in Range(todo)})
  /\ \A h \in Objects : Alone(h, m.object) =>
       Like(m.object[h], m.ledger[m.object[h].root], n.ledger[m.object[h].root])
  /\ History(c, d)
  /\ \/ Fails(d)
     \/ d.pc = "commit" /\ d.back = c.back /\ d.command = NoCommand
     \/ /\ d.pc = "write" /\ d.back = c.back /\ d.command.object = {Head(d.todo)}
        /\ \E k \in 1 .. Len(todo) : d.todo = SubSeq(todo, k, Len(todo))
        /\ Held(d.command, m.object[Head(d.todo)], n.ledger[m.object[Head(d.todo)].root])
  /\ \A h \in Range(todo) :
       d.pc # "undo" /\ Alone(h, m.object) /\ HasPending(n.ledger[m.object[h].root], m.object[h].key)
         => d.pc = "write" /\ h \in Range(d.todo)

LEMMA AlikesTrans ==
  ASSUME NEW m, NEW n, NEW q, NEW hs, NEW gs, Range(hs) \subseteq Range(gs), Alikes(m, n, hs),
         q.object = n.object, MemoryOK(q)
  PROVE  Alikes(m, q, gs)
BY DEF Alikes

\* Attaching changes nothing that is pending.
LEMMA PendingSame ==
  ASSUME NEW m, MemoryOK(m), NEW n, NEW hs, Alikes(m, n, hs), Within(m.ledger, n.ledger, {}), NEW h \in Objects
  PROVE  Pending(n, h) <=> Pending(m, h)
<1>1. SameAt(m.ledger[m.object[h].root], n.ledger[m.object[h].root], m.object[h].key)
  BY DEF Within, MemoryOK
<1>2. HasPending(n.ledger[m.object[h].root], m.object[h].key) <=> HasPending(m.ledger[m.object[h].root], m.object[h].key)
  BY <1>1, SameSays
<1>3. n.object[h].root = m.object[h].root /\ n.object[h].key = m.object[h].key
  BY DEF Alikes, Same
<1> QED BY <1>2, <1>3 DEF Pending

LEMMA ProceedSays ==
  ASSUME NEW c, DOMAIN c = SaveFields, NEW m, MemoryOK(m), NEW todo \in Seq(Objects),
         m.object[Head(c.graph)].root \in Objects,
         \A h \in Range(todo) : m.object[h].root = m.object[Head(c.graph)].root
  PROVE  Proceeds(c, m, todo, Proceed(c, m, todo).save, Proceed(c, m, todo).memory)
<1> DEFINE r == m.object[Head(c.graph)].root
           pending == {i \in 1 .. Len(todo) : Pending(AttachAll(m, SubSeq(todo, 1, i), r), todo[i])}
           n == IF pending = {} THEN Len(todo) ELSE Min(pending)
           reached == SubSeq(todo, 1, n)
           attached == Attachable(m, reached, r)
           after == AttachAll(m, attached, r)
           done == [c EXCEPT !.pc = "commit", !.todo = <<>>, !.command = NoCommand]
           goes == [c EXCEPT !.pc = "write", !.todo = SubSeq(todo, n, Len(todo)),
                             !.command = Command(after, todo[n])]
           next == Proceed(c, m, todo)
<1>1. pending # {} => n \in 1 .. Len(todo) /\ n \in pending /\ \A i \in pending : n <= i
  <2>1. pending \subseteq Nat /\ pending \subseteq 1 .. Len(todo)
    OBVIOUS
  <2>2. pending # {} => Min(pending) \in pending /\ \A i \in pending : Min(pending) <= i
    <3> HIDE DEF pending
    <3> QED BY <2>1, MinLeast
  <2> HIDE DEF pending
  <2> QED BY <2>1, <2>2
<1>2. \/ attached # reached /\ next = [save |-> Failed(c), memory |-> after]
      \/ attached = reached /\ pending = {} /\ next = [save |-> done, memory |-> after]
      \/ attached = reached /\ pending # {} /\ next = [save |-> goes, memory |-> Check(after, todo[n])]
  <2>1. next = CASE attached # reached -> [save |-> Failed(c), memory |-> after]
                 [] attached = reached /\ pending = {} -> [save |-> done, memory |-> after]
                 [] OTHER -> [save |-> goes, memory |-> Check(after, todo[n])]
    BY DEF Proceed
  <2> HIDE DEF next, attached, reached, done, goes, after, pending, n
  <2> QED BY <2>1
<1>3. n \in 0 .. Len(todo) /\ Len(todo) \in Nat
  <2>1. Len(todo) \in Nat /\ (pending = {} => n = Len(todo))
    OBVIOUS
  <2> HIDE DEF n, pending
  <2> QED BY <1>1, <2>1
<1>4. reached \in Seq(Objects) /\ Range(reached) \subseteq Range(todo)
  <2> HIDE DEF n
  <2> QED BY <1>3, UpToPlace
<1>5. attached \in Seq(Objects) /\ Range(attached) \subseteq Range(todo)
  <2> HIDE DEF reached, r
  <2> QED BY <1>4, AttachableFirst
<1>6. Alikes(m, after, attached) /\ Within(m.ledger, after.ledger, {})
  <2> HIDE DEF attached, r
  <2> QED BY <1>5, AttachAgain DEF r
<1>7. ASSUME NEW i \in 1 .. Len(todo)
      PROVE  Pending(AttachAll(m, SubSeq(todo, 1, i), r), todo[i]) <=> Pending(m, todo[i])
  <2> DEFINE q == SubSeq(todo, 1, i)
  <2>1. q \in Seq(Objects) /\ Range(q) \subseteq Range(todo) /\ todo[i] \in Objects
    BY UpToPlace
  <2> HIDE DEF q, r
  <2>2. Alikes(m, AttachAll(m, q, r), q) /\ Within(m.ledger, AttachAll(m, q, r).ledger, {})
    BY <2>1, AttachAgain DEF r
  <2>3. Pending(AttachAll(m, q, r), todo[i]) <=> Pending(m, todo[i])
    <3> DEFINE b == AttachAll(m, q, r)
               h == todo[i]
    <3> HIDE DEF b, h
    <3>1. Alikes(m, b, q) /\ Within(m.ledger, b.ledger, {}) /\ h \in Objects
      BY <2>1, <2>2 DEF b, h
    <3>2. Pending(b, h) <=> Pending(m, h)
      BY <3>1, PendingSame
    <3> QED BY <3>2 DEF b, h
  <2> QED BY <2>3 DEF q
<1>8. \A i \in 1 .. Len(todo) : i \in pending <=> Pending(m, todo[i])
  BY <1>7
<1> HIDE DEF pending
<1>9. /\ DOMAIN c = SaveFields /\ History(c, done) /\ History(c, Failed(c)) /\ Fails(Failed(c))
      /\ done.pc = "commit" /\ done.back = c.back /\ done.command = NoCommand
  BY FailedShape DEF History, Fails, SaveFields
<1>10. /\ History(c, goes) /\ goes.pc = "write" /\ goes.back = c.back /\ goes.todo = SubSeq(todo, n, Len(todo))
       /\ goes.command = Command(after, todo[n])
  <2> HIDE DEF n, after
  <2> QED BY DEF History, SaveFields
<1> HIDE DEF n, after, attached, reached, done, goes, r, next
<1>11. ASSUME NEW T PROVE Within(m.ledger, after.ledger, T)
  BY <1>6, WithinMore
<1>12. ASSUME NEW h \in Objects
       PROVE  Like(m.object[h], m.ledger[m.object[h].root], after.ledger[m.object[h].root])
  <2>1. SameAt(m.ledger[m.object[h].root], after.ledger[m.object[h].root], m.object[h].key)
    BY <1>6 DEF Within, MemoryOK
  <2> QED BY <2>1, SameLike
<1>13. CASE attached # reached /\ next = [save |-> Failed(c), memory |-> after]
  <2>1. Alikes(m, after, todo)
    BY <1>5, <1>6, AlikesTrans DEF Alikes
  <2>2. next.save.pc = "undo"
    BY <1>9, <1>13 DEF Fails
  <2> QED BY <1>9, <1>11, <1>12, <1>13, <2>1, <2>2 DEF Proceeds, next
<1>14. CASE attached = reached /\ pending = {} /\ next = [save |-> done, memory |-> after]
  <2>1. Alikes(m, after, todo)
    BY <1>5, <1>6, AlikesTrans DEF Alikes
  <2>2. ASSUME NEW h \in Range(todo)
        PROVE  ~ HasPending(after.ledger[m.object[h].root], m.object[h].key)
    <3>1. PICK i \in DOMAIN todo : todo[i] = h
      BY DEF Range
    <3>2. h \in Objects /\ ~ Pending(m, h)
      BY <1>8, <1>14, <3>1
    <3>3. ~ Pending(after, h)
      BY <1>6, <3>2, PendingSame
    <3> QED BY <1>6, <3>2, <3>3 DEF Pending, Alikes, Same
  <2> QED BY <1>9, <1>11, <1>12, <1>14, <2>1, <2>2 DEF Proceeds, next
<1>15. CASE attached = reached /\ pending # {} /\ next = [save |-> goes, memory |-> Check(after, todo[n])]
  <2> DEFINE h == todo[n]
             q == Check(after, h)
             U == {<<m.object[g].root, m.object[g].key>> : g \in Range(todo)}
  <2>1. n \in 1 .. Len(todo) /\ h \in Objects /\ h \in Range(todo) /\ Pending(m, h)
    BY <1>1, <1>8, <1>15 DEF Range
  <2>2. Pending(after, h)
    BY <1>6, <2>1, PendingSame
  <2>3. Checks(after, q, h) /\ MemoryOK(after)
    BY <1>6, <2>1, CheckOne DEF Alikes
  <2>4. Held(Command(after, h), after.object[h], q.ledger[after.object[h].root])
    <3> HIDE DEF h
    <3> QED BY <2>1, <2>2, <2>3, CheckHolds
  <2> HIDE DEF h, q
  <2>5. /\ after.object[h].root = m.object[h].root /\ after.object[h].key = m.object[h].key
        /\ after.object[h].action = m.object[h].action
    BY <1>6, <2>1 DEF Alikes, Same
  <2>6. Alikes(m, q, todo)
    BY <1>5, <1>6, <2>3, AlikesTrans DEF Checks
  <2>7. Within(m.ledger, q.ledger, U)
    <3>1. Within(after.ledger, q.ledger, {<<m.object[h].root, m.object[h].key>>})
      BY <2>3, <2>5 DEF Checks
    <3>2. Within(m.ledger, q.ledger, {} \cup {<<m.object[h].root, m.object[h].key>>})
      BY <1>6, <3>1, WithinTrans
    <3>3. {} \cup {<<m.object[h].root, m.object[h].key>>} \subseteq U
      BY <2>1
    <3> HIDE DEF U
    <3> QED BY <3>2, <3>3, WithinMore
  <2>8. ASSUME NEW g \in Objects, Alone(g, m.object)
        PROVE  /\ Like(m.object[g], m.ledger[m.object[g].root], q.ledger[m.object[g].root])
               /\ g # h => SameAt(after.ledger[m.object[g].root], q.ledger[m.object[g].root], m.object[g].key)
    <3>1. Like(m.object[g], m.ledger[m.object[g].root], after.ledger[m.object[g].root])
      BY <1>12
    <3>2. CASE g = h
      <4>1. Like(after.object[h], after.ledger[m.object[h].root], q.ledger[m.object[h].root])
        BY <2>3, <2>5 DEF Checks
      <4>2. Like(m.object[h], after.ledger[m.object[h].root], q.ledger[m.object[h].root])
        BY <2>5, <4>1 DEF Like
      <4> QED BY <3>1, <3>2, <4>2, LikeTrans
    <3>3. CASE g # h
      <4>1. <<m.object[g].root, m.object[g].key>> # <<m.object[h].root, m.object[h].key>>
        BY <2>1, <2>8, <3>3 DEF Alone
      <4>2. SameAt(after.ledger[m.object[g].root], q.ledger[m.object[g].root], m.object[g].key)
        <5>1. m.object[g].root \in Objects
          BY DEF MemoryOK
        <5>2. Within(after.ledger, q.ledger, {<<m.object[h].root, m.object[h].key>>})
          BY <2>3, <2>5 DEF Checks
        <5> QED BY <4>1, <5>1, <5>2 DEF Within
      <4>3. Like(m.object[g], after.ledger[m.object[g].root], q.ledger[m.object[g].root])
        BY <4>2, SameLike
      <4> QED BY <3>1, <3>3, <4>2, <4>3, LikeTrans
    <3> QED BY <3>2, <3>3
  <2>9. /\ goes.todo = SubSeq(todo, n, Len(todo)) /\ Head(goes.todo) = h
        /\ Range(goes.todo) = {todo[i] : i \in n .. Len(todo)}
    BY <1>10, <2>1, FromPlace DEF h
  <2>10. ASSUME NEW g \in Range(todo), Alone(g, m.object), HasPending(q.ledger[m.object[g].root], m.object[g].key)
         PROVE  g \in Range(goes.todo)
    <3>1. PICK i \in DOMAIN todo : todo[i] = g
      BY DEF Range
    <3>2. CASE g = h
      BY <2>1, <2>9, <3>2 DEF h
    <3>3. CASE g # h
      <4>1. g \in Objects /\ i \in 1 .. Len(todo)
        BY <3>1
      <4>2. HasPending(after.ledger[m.object[g].root], m.object[g].key)
        <5>1. SameAt(after.ledger[m.object[g].root], q.ledger[m.object[g].root], m.object[g].key)
          BY <2>8, <2>10, <3>3, <4>1
        <5> QED BY <2>10, <5>1, SameSays
      <4>3. Pending(after, g)
        BY <1>6, <4>1, <4>2 DEF Pending, Alikes, Same
      <4>4. Pending(m, g)
        BY <1>6, <4>1, <4>3, PendingSame
      <4>5. n <= i
        BY <1>1, <1>8, <1>15, <3>1, <4>1, <4>4
      <4> QED BY <1>3, <2>9, <3>1, <4>1, <4>5
    <3> QED BY <3>2, <3>3
  <2>11. goes.command = Command(after, h) /\ goes.command.object = {h}
    BY <1>10 DEF Command, h
  <2>12. Held(goes.command, m.object[h], q.ledger[m.object[h].root])
    BY <2>4, <2>5, <2>11 DEF Held
  <2>13. next.save = goes /\ next.memory = q
    BY <1>15 DEF q, h
  <2> HIDE DEF U
  <2> QED BY <1>10, <2>1, <2>6, <2>7, <2>8, <2>9, <2>10, <2>11, <2>12, <2>13 DEF Proceeds, next, U
<1> QED BY <1>2, <1>13, <1>14, <1>15

\* Memory n is the memory with objects of G attached and their values checked.
Leads(n, G) ==
  /\ MemoryOK(n)
  /\ \A h \in Objects : /\ Same(object[h], n.object[h])
                        /\ h \notin G => n.object[h] = object[h]
  /\ Joins(n.object)
  /\ Touches(G, ledger, n.ledger, n.object)
  /\ \A h \in Objects : \A snap, bk :
       Alone(h, n.object) /\ Faithful(object[h], ledger[object[h].root], snap, bk)
         => Faithful(n.object[h], n.ledger[n.object[h].root], snap, bk)

LEMMA BringsLeads ==
  ASSUME NEW n, NEW hs, NEW r, Brings(n, hs, r), NEW G, Range(hs) \subseteq G, G \subseteq Objects
  PROVE  Leads(n, G)
<1>1. Touches(G, ledger, n.ledger, n.object)
  BY BringsTouches
<1> QED BY <1>1 DEF Brings, Leads, Same

\* Of what is alone in one memory, the next says what that one says.
Likens(m, n) ==
  \A h \in Objects : Alone(h, m.object) =>
    Like(m.object[h], m.ledger[m.object[h].root], n.ledger[m.object[h].root])

LEMMA LeadsOn ==
  ASSUME NEW m, NEW G, Leads(m, G), NEW n, NEW hs, Range(hs) \subseteq G, Alikes(m, n, hs), Likens(m, n),
         Within(m.ledger, n.ledger, {<<m.object[h].root, m.object[h].key>> : h \in Range(hs)}),
         G \subseteq Objects
  PROVE  Leads(n, G)
<1> DEFINE T == {<<m.object[h].root, m.object[h].key>> : h \in Range(hs)}
<1>1. /\ MemoryOK(n) /\ MemoryOK(m)
      /\ \A h \in Objects : /\ Same(m.object[h], n.object[h]) /\ n.object[h].root = m.object[h].root
                            /\ h \notin G => n.object[h] = m.object[h]
  BY DEF Alikes, Leads
<1>2. \A h \in Objects : /\ Same(object[h], n.object[h])
                         /\ h \notin G => n.object[h] = object[h]
  BY <1>1 DEF Leads, Same
<1>3. Joins(n.object)
  BY <1>1 DEF Leads, Joins
<1>4. Touches(G, ledger, n.ledger, n.object)
  <2>1. ASSUME NEW q \in Objects, NEW k,
               \A g \in G : n.object[g].root = q => ~ Claims(g, k, object, save) /\ n.object[g].key # k /\ g # k
        PROVE  SameAt(ledger[q], n.ledger[q], k)
    <3>1. SameAt(ledger[q], m.ledger[q], k)
      <4>1. \A g \in G : m.object[g].root = q => ~ Claims(g, k, object, save) /\ m.object[g].key # k /\ g # k
        BY <1>1, <2>1 DEF Same
      <4> QED BY <4>1 DEF Leads, Touches
    <3>2. SameAt(m.ledger[q], n.ledger[q], k)
      <4>1. <<q, k>> \notin T
        <5> SUFFICES ASSUME NEW g \in Range(hs), q = m.object[g].root, k = m.object[g].key PROVE FALSE
          OBVIOUS
        <5> QED BY <1>1, <2>1 DEF Same
      <4>2. Within(m.ledger, n.ledger, T)
        OBVIOUS
      <4> HIDE DEF T
      <4> QED BY <4>1, <4>2 DEF Within
    <3> QED BY <3>1, <3>2 DEF SameAt
  <2> QED BY <1>1, <2>1 DEF Touches, MemoryOK
<1>5. ASSUME NEW h \in Objects, NEW snap, NEW bk, Alone(h, n.object),
             Faithful(object[h], ledger[object[h].root], snap, bk)
      PROVE  Faithful(n.object[h], n.ledger[n.object[h].root], snap, bk)
  <2>1. Alone(h, m.object)
    BY <1>1, <1>5 DEF Alone, Same
  <2>2. Faithful(m.object[h], m.ledger[m.object[h].root], snap, bk)
    BY <1>5, <2>1 DEF Leads
  <2>3. Like(m.object[h], m.ledger[m.object[h].root], n.ledger[m.object[h].root])
    BY <2>1 DEF Likens
  <2>4. Faithful(m.object[h], n.ledger[m.object[h].root], snap, bk)
    BY <2>2, <2>3, LikeFaithful
  <2> QED BY <1>1, <2>4 DEF Faithful, Changed, Same
<1> QED BY <1>1, <1>2, <1>3, <1>4, <1>5 DEF Leads

LEMMA Preflights ==
  ASSUME IInv, LInv, NEW s \in Savers, save[s].pc # "idle",
         NEW reached \in Seq(Objects), Range(reached) \subseteq Range(save[s].graph),
         NEW checked \in Seq(Objects), Range(checked) \subseteq Range(save[s].graph),
         NEW r, r = object[Head(save[s].graph)].root
  PROVE  /\ Leads(Preflight(r, reached, checked), Range(save[s].graph))
         /\ \A h \in Range(reached) : Preflight(r, reached, checked).object[h].root = r
<1> DEFINE G == Range(save[s].graph)
           after == AttachAll(Memory, reached, r)
           lat == CheckedLedger(after, checked)
           m == Preflight(r, reached, checked)
<1>0. m = [after EXCEPT !.ledger = lat]
  BY DEF Preflight
<1> HIDE DEF m
<1>1. Brings(after, reached, r)
  BY AttachBrings
<1> HIDE DEF after
<1>2. G \subseteq Objects
  BY CallGraph
<1>12. (\A g \in Range(checked) : g \in Objects) /\ \A g \in Range(reached) : g \in Objects
  BY <1>2
<1>3. Leads(after, G)
  BY <1>1, <1>2, BringsLeads
<1>4. MemoryOK(after)
  BY <1>1 DEF Brings
<1>5. Checked(after, lat, checked)
  BY <1>4, CheckedSays
<1>6. DOMAIN m = {"object", "ledger"} /\ m.object = after.object /\ m.ledger = lat
  <2> HIDE DEF lat
  <2> QED BY <1>0, <1>4 DEF MemoryOK
<1> HIDE DEF lat, G
<1>7. Within(after.ledger, m.ledger, {<<after.object[h].root, after.object[h].key>> : h \in Range(checked)})
  BY <1>5, <1>6 DEF Checked
<1>8. Likens(after, m)
  <2> SUFFICES ASSUME NEW h \in Objects, Alone(h, after.object)
               PROVE  Like(after.object[h], after.ledger[after.object[h].root], m.ledger[after.object[h].root])
    BY DEF Likens
  <2>1. \A g \in Range(checked) \ {h} :
          ~ (after.object[g].key = after.object[h].key /\ after.object[g].root = after.object[h].root)
    BY <1>12 DEF Alone
  <2> QED BY <1>5, <1>6, <2>1 DEF Checked
<1>9. Alikes(after, m, checked)
  BY <1>4, <1>6, <1>7 DEF Alikes, MemoryOK, Within, Same
<1>10. Leads(m, G)
  BY <1>2, <1>3, <1>7, <1>8, <1>9, LeadsOn DEF G
<1>11. \A h \in Range(reached) : m.object[h].root = r
  BY <1>1, <1>6, <1>12 DEF Brings
<1> QED BY <1>10, <1>11 DEF G, m

\* A step of a call that has written nothing and leads to memory n.
LEMMA LeadsStep ==
  ASSUME IInv, VInv, LInv, IInv', VInv', NEW s \in Savers, NEW c, save' = [save EXCEPT ![s] = c],
         UNCHANGED <<items, snapshot, nextId, contested, backed>>,
         NEW n, Leads(n, Range(save[s].graph)), object' = n.object, ledger' = n.ledger,
         c.graph = save[s].graph, save[s].old = <<>>, c.old = <<>>, c.written = save[s].written,
         c.pc \notin {"allocate", "settle"},
         \A h, k : Used(c, h, k) => Claims(h, k, object, save),
         GraphInv(c, object'),
         \A h \in Range(save[s].graph) : HoldsInv(c, h, object', ledger', contested)
                                         /\ PassedInv(c, h, object', ledger', contested)
  PROVE  LInv'
<1>1. Range(save[s].graph) \subseteq Objects /\ Range(<<>>) = {}
  BY CallGraph DEF Range
<1>2. \A h \in Objects : object'[h].key = object[h].key
  BY DEF Leads, Same
<1>3. Steps(s, c)
  <2>1. NewClaims(s, object', save')
    <3>1. \A t \in Savers : save'[t] = IF t = s THEN c ELSE save[t]
      BY DEF IInv
    <3> QED BY <1>2, <3>1 DEF NewClaims, Claims
  <2>2. nextId <= nextId'
    BY DEF VInv
  <2>3. \A h \in Objects \ Range(save[s].graph) : object'[h] = object[h] /\ snapshot'[h] = snapshot[h]
    BY DEF Leads
  <2> QED BY <2>1, <2>2, <2>3 DEF Steps, Leads, Waits
<1>4. ASSUME NEW h \in Range(save[s].graph), contested[h] = {}, Alone(h, object'), Alone(h, object)
      PROVE  Truthful(c, h, object', ledger', snapshot', backed')
  <2>1. h \in Objects /\ ~ Wrote(save[s], h)
    BY <1>1 DEF Wrote
  <2>2. Faithful(object[h], ledger[object[h].root], snapshot[h], backed)
    BY <1>4, <2>1, OwnTruthful DEF Truthful
  <2>3. Faithful(object'[h], ledger'[object'[h].root], snapshot[h], backed)
    BY <1>4, <2>1, <2>2 DEF Leads
  <2> QED BY <1>1, <2>3 DEF Truthful
<1>5. ASSUME NEW h \in Range(save[s].graph)
      PROVE  OwnInv(c, h, object', ledger', backed', contested)
  <2>1. ~ Wrote(c, h)
    BY <1>1 DEF Wrote
  <2> QED BY <2>1 DEF OwnInv, ShowsInv, AsksInv, Waits
<1> QED BY <1>3, <1>4, <1>5, SaverStep

\* Where the work goes on in a list without repetitions.
LEMMA GoesFromTop ==
  ASSUME NEW q \in Seq(Objects), IsInjective(q), NEW k \in 1 .. Len(q), Head(q) \in Range(SubSeq(q, k, Len(q)))
  PROVE  SubSeq(q, k, Len(q)) = q
<1>1. PICK i \in k .. Len(q) : Head(q) = q[i]
  <2>1. Range(SubSeq(q, k, Len(q))) = {q[i] : i \in k .. Len(q)}
    BY FromPlace
  <2> QED BY <2>1
<1>2. Head(q) = q[1] /\ 1 \in DOMAIN q /\ i \in DOMAIN q /\ Len(q) \in Nat
  OBVIOUS
<1>3. i = 1
  BY <1>1, <1>2 DEF IsInjective
<1>4. k = 1
  BY <1>1, <1>3
<1>5. SubSeq(q, 1, Len(q)) = q
  OBVIOUS
<1> QED BY <1>4, <1>5

\* The preflight raises.
LEMMA RefusedLedgers ==
  ASSUME IInv, VInv, LInv, IInv', VInv', NEW s \in Savers, save[s].pc = "begin",
         UNCHANGED <<items, snapshot, nextId, contested, backed>>,
         NEW m, Leads(m, Range(save[s].graph)), object' = m.object, ledger' = m.ledger,
         save' = [save EXCEPT ![s] = Failed(@)]
  PROVE  LInv'
<1> DEFINE c == Failed(save[s])
<1>1. DOMAIN save[s] = SaveFields /\ save[s].old = <<>> /\ save[s].written = <<>>
  BY CallGraph, CallBlank DEF Holds
<1>2. /\ c.pc = "undo" /\ c.graph = save[s].graph /\ c.command = NoCommand /\ c.old = <<>>
      /\ c.written = save[s].written /\ save' = [save EXCEPT ![s] = c]
  BY <1>1, FailedFields
<1> HIDE DEF c
<1>3. \A h, k : Used(c, h, k) => Claims(h, k, object, save)
  <2>1. \A h, k : Used(c, h, k) => Used(save[s], h, k)
    BY <1>1, <1>2, NothingUsed DEF Used, Marked
  <2> QED BY <2>1 DEF Claims
<1>4. GraphInv(c, object')
  <2>1. GraphInv(save[s], object')
    BY GraphKept DEF LInv, Leads
  <2> QED BY <1>2, <2>1 DEF GraphInv
<1>5. \A h \in Range(save[s].graph) : HoldsInv(c, h, object', ledger', contested)
                                      /\ PassedInv(c, h, object', ledger', contested)
  BY <1>2 DEF HoldsInv, PassedInv
<1> QED BY <1>1, <1>2, <1>3, <1>4, <1>5, LeadsStep

LEMMA CheckRaisesLedgers ==
  ASSUME IInv, VInv, LInv, IInv', VInv', NEW s \in Savers, CheckRaises(s)
  PROVE  LInv'
<1> DEFINE gs == save[s].graph
           r == object[Head(save[s].graph)].root
<1>1. PICK n \in 1 .. Len(gs) : Remember(Preflight(r, SubSeq(gs, 1, n), SubSeq(gs, 1, n)))
  BY DEF CheckRaises, Root
<1>2. /\ save[s].pc = "begin" /\ UNCHANGED <<items, snapshot, nextId, contested, backed>>
      /\ save' = [save EXCEPT ![s] = Failed(@)]
  BY DEF CheckRaises, graph
<1> DEFINE hs == SubSeq(gs, 1, n)
           m == Preflight(r, hs, hs)
<1>3. hs \in Seq(Objects) /\ Range(hs) \subseteq Range(save[s].graph)
  <2>1. gs \in Seq(Objects) /\ n \in 0 .. Len(gs)
    BY <1>1, CallGraph
  <2> QED BY <2>1, UpToPlace
<1>4. object' = m.object /\ ledger' = m.ledger
  BY <1>1 DEF Remember
<1> HIDE DEF hs, r
<1>5. Leads(m, Range(save[s].graph))
  BY <1>2, <1>3, Preflights DEF r
<1> HIDE DEF m
<1> QED BY <1>2, <1>4, <1>5, RefusedLedgers

LEMMA BeginLedgers ==
  ASSUME IInv, VInv, LInv, IInv', VInv', NEW s \in Savers, Begin(s)
  PROVE  LInv'
<1> DEFINE hs == save[s].graph
           r == object[Head(save[s].graph)].root
           attached == Attachable(Memory, hs, r)
           refused == {i \in 1 .. Len(attached) :
                         Incomplete(AttachAll(Memory, SubSeq(hs, 1, i), r), hs[i])}
           reached == IF refused = {} THEN attached ELSE SubSeq(hs, 1, Min(refused))
           checked == IF refused = {} THEN attached ELSE SubSeq(hs, 1, Min(refused) - 1)
           m == Preflight(r, reached, checked)
           next == Proceed(save[s], m, hs)
<1>1. /\ save[s].pc = "begin" /\ UNCHANGED <<items, snapshot, nextId, contested, backed>>
      /\ \/ checked # hs /\ Remember(m) /\ save' = [save EXCEPT ![s] = Failed(@)]
         \/ checked = hs /\ Remember(next.memory) /\ save' = [save EXCEPT ![s] = next.save]
  BY DEF Begin, graph, Root
<1>2. /\ DOMAIN save[s] = SaveFields /\ hs \in Seq(Objects) /\ Range(hs) \subseteq Objects
      /\ save[s].old = <<>> /\ save[s].written = <<>> /\ IsInjective(hs)
  BY <1>1, CallGraph, CallBlank DEF Holds
<1>3. Attachable(Memory, hs, r) = SubSeq(hs, 1, Len(attached)) /\ Len(attached) \in 0 .. Len(hs)
  <2> DEFINE clean == {n \in 0 .. Len(hs) : \A i \in 1 .. n :
                         ~Clashes(AttachAll(Memory, SubSeq(hs, 1, i - 1), r), hs[i], r)}
  <2>1. clean \subseteq 0 .. Len(hs) /\ Len(hs) \in Nat /\ 0 \in clean
    BY <1>2
  <2>2. Attachable(Memory, hs, r) = SubSeq(hs, 1, Max(clean))
    BY DEF Attachable
  <2> HIDE DEF clean
  <2>3. Max(clean) \in 0 .. Len(hs)
    BY <2>1, MaxIn
  <2>4. Len(SubSeq(hs, 1, Max(clean))) = Max(clean)
    <3> HIDE DEF hs
    <3> QED BY <1>2, <2>3, UpToPlace
  <2> QED BY <2>2, <2>3, <2>4
<1>4. refused # {} => Min(refused) \in 1 .. Len(attached)
  <2>1. refused \subseteq Nat /\ refused \subseteq 1 .. Len(attached)
    <3>1. Len(attached) \in Nat
      <4>1. Len(hs) \in Nat
        BY <1>2
      <4> HIDE DEF attached, hs
      <4> QED BY <1>3, <4>1
    <3>2. refused \subseteq 1 .. Len(attached)
      <4> HIDE DEF attached, hs
      <4> QED OBVIOUS
    <3> HIDE DEF attached, refused
    <3> QED BY <3>1, <3>2
  <2> HIDE DEF refused
  <2> QED BY <2>1, MinLeast
<1>5. /\ reached \in Seq(Objects) /\ Range(reached) \subseteq Range(hs)
      /\ checked \in Seq(Objects) /\ Range(checked) \subseteq Range(hs)
      /\ checked = hs => reached = hs
  <2>1. CASE refused = {}
    <3>1. reached = attached /\ checked = attached
      BY <2>1
    <3>2. attached \in Seq(Objects) /\ Range(attached) \subseteq Range(hs)
      <4> HIDE DEF hs, r
      <4> QED BY <1>2, AttachableFirst
    <3> HIDE DEF attached, reached, checked
    <3> QED BY <3>1, <3>2
  <2>2. CASE refused # {}
    <3> DEFINE k == Min(refused)
    <3>1. reached = SubSeq(hs, 1, k) /\ checked = SubSeq(hs, 1, k - 1)
      BY <2>2
    <3>2. k \in 1 .. Len(hs) /\ Len(hs) \in Nat
      <4> HIDE DEF k, attached, hs
      <4>1. k \in 1 .. Len(attached)
        BY <1>4, <2>2 DEF k
      <4> QED BY <1>2, <1>3, <4>1
    <3> HIDE DEF k, reached, checked, hs
    <3>3. k \in 0 .. Len(hs) /\ k - 1 \in 0 .. Len(hs) /\ k - 1 # Len(hs)
      BY <3>2
    <3>4. reached \in Seq(Objects) /\ Range(reached) \subseteq Range(hs)
      BY <1>2, <3>1, <3>3, UpToPlace
    <3>5. checked \in Seq(Objects) /\ Range(checked) \subseteq Range(hs) /\ Len(checked) = k - 1
      BY <1>2, <3>1, <3>3, UpToPlace
    <3> QED BY <3>3, <3>4, <3>5
  <2> QED BY <2>1, <2>2
<1> HIDE DEF reached, checked, refused, attached
<1>6. Leads(m, Range(hs)) /\ \A h \in Range(reached) : m.object[h].root = r
  <2>1. m = Preflight(r, reached, checked)
    OBVIOUS
  <2> HIDE DEF m
  <2>2. save[s].pc # "idle" /\ r = object[Head(save[s].graph)].root
    BY <1>1
  <2> HIDE DEF r
  <2>3. /\ Leads(Preflight(r, reached, checked), Range(save[s].graph))
        /\ \A h \in Range(reached) : Preflight(r, reached, checked).object[h].root = r
    BY <1>5, <2>2, Preflights
  <2> QED BY <2>1, <2>3
<1> HIDE DEF m, next
<1>7. CASE checked # hs /\ Remember(m) /\ save' = [save EXCEPT ![s] = Failed(@)]
  <2>1. object' = m.object /\ ledger' = m.ledger
    BY <1>7 DEF Remember
  <2> HIDE DEF hs
  <2> QED BY <1>1, <1>6, <1>7, <2>1, RefusedLedgers DEF hs
<1>8. CASE checked = hs /\ Remember(next.memory) /\ save' = [save EXCEPT ![s] = next.save]
  <2> DEFINE c == next.save
             n == next.memory
  <2>1. object' = n.object /\ ledger' = n.ledger /\ save' = [save EXCEPT ![s] = c]
    BY <1>8 DEF Remember
  <2>2. hs # <<>> /\ Head(hs) \in Range(hs) /\ r \in Objects
    <3>1. save[s].pc # "idle"
      BY <1>1
    <3>2. hs # <<>> /\ r \in Objects
      BY <3>1, GraphRoots
    <3> HIDE DEF hs
    <3> QED BY <1>2, <3>2, HeadAndTail
  <2>3. \A h \in Range(hs) : m.object[h].root = r
    BY <1>5, <1>6, <1>8
  <2>4. Proceeds(save[s], m, hs, c, n)
    <3>1. m.object[Head(save[s].graph)].root = r
      BY <2>2, <2>3
    <3>2. MemoryOK(m)
      BY <1>6 DEF Leads
    <3> HIDE DEF r
    <3> QED BY <1>2, <2>2, <2>3, <3>1, <3>2, ProceedSays DEF next
  <2> HIDE DEF c, n, r
  <2>5. Leads(n, Range(hs))
    <3>1. Likens(m, n)
      BY <2>4 DEF Proceeds, Likens
    <3>2. Alikes(m, n, hs) /\ Within(m.ledger, n.ledger, {<<m.object[h].root, m.object[h].key>> : h \in Range(hs)})
      BY <2>4 DEF Proceeds
    <3> QED BY <1>2, <1>6, <3>1, <3>2, LeadsOn
  <2>6. /\ c.graph = hs /\ c.old = <<>> /\ c.written = <<>> /\ Range(<<>>) = {}
        /\ c.pc \in {"undo", "commit", "write"}
    <3>1. History(save[s], c) /\ c.pc \in {"undo", "commit", "write"}
      BY <2>4 DEF Proceeds, Fails
    <3>2. Range(<<>>) = {}
      BY DEF Range
    <3> QED BY <1>2, <3>1, <3>2 DEF History
  <2>7. c.pc = "write" =>
          /\ Head(c.todo) \in Range(hs) /\ Range(c.todo) \subseteq Range(hs)
          /\ Head(hs) \in Range(c.todo) => c.todo = hs
    <3> SUFFICES ASSUME c.pc = "write"
                 PROVE  /\ Head(c.todo) \in Range(hs) /\ Range(c.todo) \subseteq Range(hs)
                        /\ Head(hs) \in Range(c.todo) => c.todo = hs
      OBVIOUS
    <3>1. PICK k \in 1 .. Len(hs) : c.todo = SubSeq(hs, k, Len(hs))
      BY <2>4 DEF Proceeds, Fails
    <3> HIDE DEF hs
    <3>2. Head(c.todo) = hs[k] /\ Range(c.todo) = {hs[i] : i \in k .. Len(hs)}
      BY <1>2, <3>1, FromPlace
    <3>3. Head(c.todo) \in Range(hs) /\ Range(c.todo) \subseteq Range(hs)
      <4>1. DOMAIN hs = 1 .. Len(hs) /\ Len(hs) \in Nat /\ k \in DOMAIN hs /\ \A i \in k .. Len(hs) : i \in DOMAIN hs
        BY <1>2
      <4> QED BY <3>2, <4>1 DEF Range
    <3> QED BY <1>2, <3>1, <3>3, GoesFromTop
  <2>8. \A h \in Objects : /\ n.object[h].key = object[h].key /\ n.object[h].action = m.object[h].action
                           /\ n.object[h].key = m.object[h].key /\ n.object[h].root = m.object[h].root
    BY <2>4, <2>5 DEF Leads, Same, Proceeds, Alikes
  <2>9. \A h, k : Used(c, h, k) => Claims(h, k, object, save)
    <3> SUFFICES ASSUME NEW h, NEW k, Used(c, h, k) PROVE Claims(h, k, object, save)
      OBVIOUS
    <3>1. c.command.object = {h} /\ c.command.key = k
      BY <2>6 DEF Used, Marked
    <3>2. c.pc = "write" /\ h = Head(c.todo) /\ k = m.object[h].key
      <4>1. c.command # NoCommand
        BY <3>1 DEF NoCommand
      <4>2. c.pc = "write" /\ c.command.object = {Head(c.todo)} /\ Held(c.command, m.object[Head(c.todo)], n.ledger[m.object[Head(c.todo)].root])
        BY <2>4, <4>1 DEF Proceeds, Fails
      <4> QED BY <3>1, <4>2 DEF Held
    <3> QED BY <1>2, <2>7, <2>8, <3>2, OwnClaim
  <2>10. GraphInv(c, object')
    <3>1. GraphInv(save[s], object')
      BY <1>1, <1>6, <2>1, <2>5, GraphKept DEF LInv, Leads
    <3>2. \A h \in Range(hs) : object'[h].root = object'[Head(hs)].root
      BY <1>2, <2>1, <2>2, <2>3, <2>8
    <3> QED BY <1>1, <2>6, <2>7, <3>1, <3>2 DEF GraphInv
  <2>11. ASSUME NEW h \in Range(save[s].graph)
         PROVE  HoldsInv(c, h, object', ledger', contested) /\ PassedInv(c, h, object', ledger', contested)
    <3>1. h \in Objects
      BY <1>2
    <3>2. HoldsInv(c, h, object', ledger', contested)
      <4> SUFFICES ASSUME c.pc = "write", h = Head(c.todo) PROVE HoldsInv(c, h, object', ledger', contested)
        BY DEF HoldsInv
      <4>1. Held(c.command, m.object[h], n.ledger[m.object[h].root])
        BY <2>4 DEF Proceeds, Fails
      <4> QED BY <2>1, <2>8, <3>1, <4>1 DEF HoldsInv, Held
    <3>3. PassedInv(c, h, object', ledger', contested)
      <4> SUFFICES ASSUME c.pc # "undo", Alone(h, object'), HasPending(ledger'[object'[h].root], object'[h].key)
                   PROVE  c.pc = "write" /\ h \in Range(c.todo)
        BY <2>6 DEF PassedInv, Untouched
      <4>1. Alone(h, m.object)
        BY <2>1, <2>8, <3>1 DEF Alone
      <4>2. HasPending(n.ledger[m.object[h].root], m.object[h].key)
        BY <2>1, <2>8, <3>1
      <4> QED BY <2>4, <4>1, <4>2 DEF Proceeds
    <3> QED BY <3>2, <3>3
  <2> QED BY <1>1, <1>2, <2>1, <2>5, <2>6, <2>9, <2>10, <2>11, LeadsStep
<1> QED BY <1>1, <1>7, <1>8

-----------------------------------------------------------------------------
(* A statement *)

\* What a row is after the statement.
LEMMA RowSays ==
  ASSUME NEW c, NEW rows, c.kind \in Actions, Affects(c, rows),
         c.key \in DOMAIN rows => rows[c.key].ver \in Int /\ DOMAIN rows[c.key] = RowFields,
         NEW row, row = Statement(c, rows)[c.key]
  PROVE  /\ c.kind = "Create" \/ (c.kind = "Update" /\ "val" \in DOMAIN c.values) => row.val = c.values["val"]
         /\ c.kind # "Create" => c.key \in DOMAIN rows
         /\ c.kind # "Create" /\ ~ (c.kind = "Update" /\ "val" \in DOMAIN c.values) => row.val = rows[c.key].val
         /\ c.kind = "Delete" => row.ver < 0 \/ c.key \in SetBack(c.key, row, rows)
<1>1. CASE c.kind = "Create"
  <2>1. Statement(c, rows) = InsertRow(rows, c.key, c.values["val"], CHOOSE g \in c.object : TRUE)
    BY <1>1 DEF Statement
  <2>2. row.val = c.values["val"]
    BY <2>1 DEF InsertRow, WithRow, Over
  <2> QED BY <1>1, <2>2
<1>2. CASE c.kind # "Create"
  <2>1. c.key \in DOMAIN rows /\ rows[c.key].ver \in Int /\ DOMAIN rows[c.key] = RowFields
    BY <1>2 DEF Affects, Matches
  <2>2. \/ c.kind = "Update" /\ Statement(c, rows) = UpdateRow(rows, c.key, c.expected, c.values)
        \/ c.kind = "Delete" /\ Statement(c, rows) = DeleteRow(rows, c.key, c.expected)
    BY <1>2 DEF Statement, Actions
  <2>3. CASE c.kind = "Update" /\ Statement(c, rows) = UpdateRow(rows, c.key, c.expected, c.values)
    <3>1. row.val = IF "val" \in DOMAIN c.values THEN c.values["val"] ELSE rows[c.key].val
      <4> DEFINE val == IF "val" \in DOMAIN c.values THEN c.values["val"] ELSE rows[c.key].val
                 ver == IF c.expected = {} THEN rows[c.key].ver ELSE rows[c.key].ver + 1
      <4>1. UpdateRow(rows, c.key, c.expected, c.values) = [rows EXCEPT ![c.key] = [rows[c.key] EXCEPT !.ver = ver, !.val = val]]
        BY <2>1 DEF UpdateRow, RowFields
      <4>2. row = [rows[c.key] EXCEPT !.ver = ver, !.val = val]
        <5> HIDE DEF val, ver
        <5> QED BY <2>1, <2>3, <4>1
      <4>3. row.val = val
        <5> HIDE DEF val, ver
        <5> QED BY <2>1, <4>2 DEF RowFields
      <4> QED BY <4>3
    <3> QED BY <2>1, <2>3, <3>1
  <2>4. CASE c.kind = "Delete" /\ Statement(c, rows) = DeleteRow(rows, c.key, c.expected)
    <3>1. /\ row.val = rows[c.key].val
          /\ row.ver = IF c.expected = {} THEN -1 ELSE -(rows[c.key].ver + 1)
      BY <2>1, <2>4 DEF DeleteRow, RowFields
    <3>2. row.ver < 0 \/ c.key \in SetBack(c.key, row, rows)
      BY <2>1, <3>1 DEF SetBack, Size
    <3> QED BY <2>1, <2>4, <3>1, <3>2
  <2> QED BY <2>2, <2>3, <2>4
<1> QED BY <1>1, <1>2

\* Call s writes row k for h, which is then called a, and proceeds from memory m
\* to n as d.
Written(s, h, k, row, m, a, rest, d, n) ==
  /\ save[s].pc = "write" /\ h = Head(save[s].todo) /\ h \in Objects /\ h \in Range(save[s].graph)
  /\ k = save[s].command.key /\ Claims(h, k, object, save)
  /\ Writes(save[s], a, h, k, row, <<h, object[h], snapshot[h]>>, View(s))
  /\ UNCHANGED <<items, snapshot, nextId, contested, backed>>
  /\ save' = [save EXCEPT ![s] = d] /\ object' = n.object /\ ledger' = n.ledger
  /\ MemoryOK(m)
  /\ \A g \in Objects \ {h} : m.object[g] = object[g]
  /\ m.object[h].key = k /\ m.object[h].root = object[h].root
  /\ m.object[h].ver = {row.ver} /\ m.object[h].val = row.val
  /\ m.object[h].action = IF save[s].command.kind = "Delete" THEN object[h].action ELSE "Update"
  /\ Within(ledger, m.ledger, {<<object[h].root, j>> : j \in {object[h].key, k}})
  /\ object[h].key = k => Within(ledger, m.ledger, {})
  /\ rest \in Seq(Objects)
  /\ \A g \in Range(rest) : g # h /\ g \in Range(save[s].todo) /\ g \in Range(save[s].graph) /\ ~ Wrote(save[s], g)
  /\ Head(save[s].graph) \in Range(save[s].todo) => save[s].todo = save[s].graph
  /\ Head(save[s].graph) \notin Range(rest)
  /\ \A g \in Range(save[s].todo) :
       \/ g = h \/ g \in Range(rest)
       \/ save[s].command.kind = "Delete" /\ h = Head(save[s].graph)
  /\ ~ Wrote(save[s], h)
  /\ row.ver \in Int
  /\ Proceeds(a, m, rest, d, n)

LEMMA WriteSays ==
  ASSUME IInv, VInv, LInv, NEW s \in Savers, Write(s)
  PROVE  \E m, a, rest, d, n :
           Written(s, Head(save[s].todo), save[s].command.key,
                   Statement(save[s].command, View(s))[save[s].command.key], m, a, rest, d, n)
<1> DEFINE c == save[s].command
           h == Head(save[s].todo)
           k == c.key
           row == Statement(c, View(s))[c.key]
           shown == [object[h] EXCEPT !.key = c.key, !.ver = {row.ver}, !.val = row.val,
                                      !.action = IF c.kind = "Delete" THEN @ ELSE "Update"]
           l == Rekey(ledger[object[h].root], object[h].key, k)
           m == [object |-> [object EXCEPT ![h] = shown],
                 ledger |-> [ledger EXCEPT ![object[h].root] = l]]
           rest == IF c.kind = "Delete" /\ h = Head(save[s].graph) THEN <<>> ELSE Tail(save[s].todo)
           a == [save[s] EXCEPT !.staged = WithRow(@, c.key, row),
                                !.back = @ \cup SetBack(c.key, row, View(s)),
                                !.written = Append(@, <<h, c.key>>),
                                !.old = Append(@, <<h, object[h], snapshot[h]>>)]
           next == Proceed(a, m, rest)
<1>1. /\ save[s].pc = "write" /\ UNCHANGED <<items, snapshot, nextId, contested, backed>>
      /\ Affects(c, View(s))
      /\ object' = next.memory.object /\ ledger' = next.memory.ledger /\ save' = [save EXCEPT ![s] = next.save]
  BY DEF Write, Remember, graph, Root, Key
<1>2. /\ save[s].todo \in Seq(Objects) /\ save[s].todo # <<>> /\ IsInjective(save[s].todo)
      /\ h \in Range(save[s].todo) /\ h \in Objects /\ h \in Range(save[s].graph)
      /\ c.object = {h} /\ c.kind \in Actions /\ Claims(h, k, object, save)
      /\ \A g \in Range(save[s].todo) : g \in Objects /\ g \in Range(save[s].graph) /\ ~ Wrote(save[s], g)
  BY <1>1, NextObject
<1>3. row.ver \in Int
  <2>1. RowsOK(View(s), object, contested)
    <3>1. CallOK(save[s], object, contested) /\ RowsOK(table, object, contested)
      BY DEF IInv
    <3> QED BY <3>1, OverRows DEF View, CallOK
  <2>2. c.key \in DOMAIN View(s) => View(s)[c.key].ver \in Int /\ DOMAIN View(s)[c.key] = RowFields
    BY <2>1, ViewRows DEF RowsOK, RowOK
  <2> HIDE DEF c
  <2> QED BY <1>1, <1>2, <2>2, StatementVersion
<1>4. Writes(save[s], a, h, k, row, <<h, object[h], snapshot[h]>>, View(s)) /\ DOMAIN a = SaveFields
  <2>1. DOMAIN save[s] = SaveFields
    BY CallGraph
  <2>2. save[s].old \in Seq(Range(save[s].old)) /\ save[s].written \in Seq(Range(save[s].written))
    BY DEF VInv, CallInv, WorkInv
  <2>3. DOMAIN a = SaveFields
    BY <2>1
  <2> HIDE DEF h, c, row
  <2> QED BY <2>1, <2>2, <2>3, WritesShape
<1>5. /\ save[s].graph # <<>> /\ Head(save[s].graph) \in Objects
      /\ Head(save[s].graph) \in Range(save[s].todo) => save[s].todo = save[s].graph
      /\ \A g \in Range(save[s].graph) : g \in Objects /\ object[g].root = object[Head(save[s].graph)].root
  <2>1. GraphInv(save[s], object)
    BY DEF LInv
  <2>2. save[s].pc # "idle"
    BY <1>1
  <2> QED BY <1>1, <2>1, <2>2, GraphRoots DEF GraphInv
<1>6. /\ rest \in Seq(Objects)
      /\ \A g \in Range(rest) : g # h /\ g \in Range(save[s].todo)
      /\ \A g \in Range(save[s].todo) :
           \/ g = h \/ g \in Range(rest)
           \/ c.kind = "Delete" /\ h = Head(save[s].graph)
  <2>1. /\ Tail(save[s].todo) \in Seq(Objects)
        /\ Range(save[s].todo) = {h} \cup Range(Tail(save[s].todo))
    BY <1>2, HeadAndTail
  <2>2. h \notin Range(Tail(save[s].todo))
    BY <1>2, TailInjective
  <2>3. <<>> \in Seq(Objects) /\ Range(<<>>) = {}
    BY DEF Range
  <2> HIDE DEF h, c
  <2> QED BY <2>1, <2>2, <2>3
<1>7. Head(save[s].graph) \notin Range(rest)
  BY <1>5, <1>6
<1>8. /\ IsObject(object[h]) /\ DOMAIN object = Objects /\ \A g \in Objects : IsObject(object[g])
      /\ LedgersOK(ledger) /\ object[h].root \in Objects /\ IsLedger(ledger[object[h].root])
      /\ \A g \in Objects : object[g].root \in Objects
  <2>1. \A g \in Objects : object[g].root \in Objects
    BY RootOwn
  <2>2. LedgersOK(ledger) /\ ObjectsOK(object)
    BY DEF LInv, IInv
  <2> HIDE DEF h
  <2> QED BY <1>2, <2>1, <2>2 DEF LedgersOK, ObjectsOK
<1> HIDE DEF h, c, row, a, rest
<1>9. /\ IsObject(shown) /\ shown.key = k /\ shown.ver = {row.ver} /\ shown.val = row.val
      /\ shown.action = IF c.kind = "Delete" THEN object[h].action ELSE "Update"
      /\ shown.root = object[h].root
  BY <1>8 DEF IsObject, ObjectFields, Actions
<1>10. Moved(ledger[object[h].root], l, object[h].key, k)
  BY <1>8, RekeySays
<1> HIDE DEF shown, l, k
<1>11. /\ DOMAIN m = {"object", "ledger"} /\ DOMAIN m.object = Objects /\ m.object[h] = shown
       /\ \A g \in Objects \ {h} : m.object[g] = object[g]
       /\ m.ledger = [ledger EXCEPT ![object[h].root] = l]
  BY <1>2, <1>8
<1> HIDE DEF m
<1>12. Within(ledger, m.ledger, {<<object[h].root, j>> : j \in {object[h].key, k}})
  <2> DEFINE K == {object[h].key, k}
             r == object[h].root
  <2>1. Only(ledger[r], l, K) /\ LedgersOK(ledger) /\ r \in Objects
    BY <1>8, <1>10 DEF Moved
  <2> HIDE DEF K, r
  <2>2. Within(ledger, [ledger EXCEPT ![r] = l], {<<r, j>> : j \in K})
    BY <2>1, WithinOne
  <2> QED BY <1>11, <2>2 DEF K, r
<1>13. ASSUME object[h].key = k PROVE Within(ledger, m.ledger, {})
  <2>1. l = ledger[object[h].root]
    BY <1>10, <1>13 DEF Moved
  <2>2. Only(ledger[object[h].root], l, {})
    BY <1>8, <2>1, OnlySelf
  <2>3. Within(ledger, m.ledger, {<<object[h].root, j>> : j \in {}})
    <3> DEFINE K == {}
               r == object[h].root
    <3>1. Only(ledger[r], l, K) /\ LedgersOK(ledger) /\ r \in Objects
      BY <1>8, <2>2
    <3> HIDE DEF K, r
    <3>2. Within(ledger, [ledger EXCEPT ![r] = l], {<<r, j>> : j \in K})
      BY <3>1, WithinOne
    <3> QED BY <1>11, <3>2 DEF K, r
  <2>4. {<<object[h].root, j>> : j \in {}} = {}
    OBVIOUS
  <2> QED BY <2>3, <2>4
<1>14. MemoryOK(m)
  BY <1>8, <1>9, <1>11, <1>12 DEF MemoryOK, ObjectsOK, Within
<1>15. Proceeds(a, m, rest, next.save, next.memory)
  <2>1. a.graph = save[s].graph /\ DOMAIN a = SaveFields
    BY <1>4 DEF Writes
  <2>2. \A g \in Objects : m.object[g].root = object[g].root
    BY <1>9, <1>11
  <2>3. m.object[Head(a.graph)].root \in Objects
    BY <1>5, <1>8, <2>1, <2>2
  <2>4. \A g \in Range(rest) : m.object[g].root = m.object[Head(a.graph)].root
    BY <1>2, <1>5, <1>6, <2>1, <2>2
  <2> QED BY <1>6, <1>14, <2>1, <2>3, <2>4, ProceedSays
<1> DEFINE d == next.save
           n == next.memory
<1>16. save' = [save EXCEPT ![s] = d] /\ object' = n.object /\ ledger' = n.ledger /\ Proceeds(a, m, rest, d, n)
  BY <1>1, <1>15
<1> HIDE DEF d, n, next
<1>17. h = Head(save[s].todo) /\ k = save[s].command.key /\ c.kind = save[s].command.kind
  BY DEF h, k, c
<1>18. Claims(h, k, object, save) /\ Writes(save[s], a, h, k, row, <<h, object[h], snapshot[h]>>, View(s))
  BY <1>2, <1>4 DEF k
<1>19. Written(s, h, k, row, m, a, rest, d, n)
  BY <1>1, <1>2, <1>3, <1>5, <1>6, <1>7, <1>9, <1>11, <1>12, <1>13, <1>14, <1>16, <1>17, <1>18 DEF Written
<1>20. \E u, v, w, x, y : Written(s, h, k, row, u, v, w, x, y)
  BY <1>19
<1> QED BY <1>20 DEF h, k, row, c

LEMMA WriteShape ==
  ASSUME IInv, LInv, NEW s \in Savers, NEW h, NEW k, NEW row, NEW m, NEW a, NEW rest, NEW d, NEW n,
         Written(s, h, k, row, m, a, rest, d, n)
  PROVE  /\ MemoryOK(n)
         /\ \A g \in Objects : /\ n.object[g].root = object[g].root /\ n.object[g].key = m.object[g].key
                               /\ m.object[g].root = object[g].root /\ n.object[g].action = m.object[g].action
                               /\ Claims(g, n.object[g].key, object, save)
         /\ \A g \in Objects \ {h} : Same(object[g], n.object[g]) /\ m.object[g] = object[g]
         /\ \A g \in Objects \ Range(save[s].graph) : n.object[g] = object[g]
         /\ n.object[h].key = k /\ n.object[h].ver = {row.ver} /\ n.object[h].val = row.val
         /\ n.object[h].action = IF save[s].command.kind = "Delete" THEN object[h].action ELSE "Update"
         /\ d.graph = save[s].graph
         /\ Range(d.old) = Range(save[s].old) \cup {<<h, object[h], snapshot[h]>>}
         /\ Range(d.written) = Range(save[s].written) \cup {<<h, k>>}
         /\ d.pc \in {"undo", "commit", "write"}
         /\ d.pc # "undo" => d.back = save[s].back \cup SetBack(k, row, View(s))
         /\ \A g : Wrote(d, g) <=> Wrote(save[s], g) \/ g = h
<1>1. /\ h \in Objects /\ Proceeds(a, m, rest, d, n) /\ Writes(save[s], a, h, k, row, <<h, object[h], snapshot[h]>>, View(s))
      /\ \A g \in Objects \ {h} : m.object[g] = object[g]
      /\ m.object[h].key = k /\ m.object[h].root = object[h].root
      /\ m.object[h].ver = {row.ver} /\ m.object[h].val = row.val
      /\ m.object[h].action = IF save[s].command.kind = "Delete" THEN object[h].action ELSE "Update"
      /\ Claims(h, k, object, save) /\ h \in Range(save[s].graph)
      /\ \A g \in Range(rest) : g \in Range(save[s].graph)
  BY DEF Written
<1>2. MemoryOK(n) /\ \A g \in Objects : /\ Same(m.object[g], n.object[g]) /\ n.object[g].root = m.object[g].root
                                        /\ g \notin Range(rest) => n.object[g] = m.object[g]
  BY <1>1 DEF Proceeds, Alikes
<1>3. \A g \in Objects : m.object[g].root = object[g].root
  BY <1>1
<1>4. \A g \in Objects : Claims(g, n.object[g].key, object, save)
  BY <1>1, <1>2, OwnClaim DEF Same
<1>5. \A g \in Objects \ Range(save[s].graph) : n.object[g] = object[g]
  BY <1>1, <1>2
<1>6. /\ d.graph = save[s].graph /\ Range(d.old) = Range(save[s].old) \cup {<<h, object[h], snapshot[h]>>}
      /\ Range(d.written) = Range(save[s].written) \cup {<<h, k>>}
  BY <1>1 DEF Proceeds, History, Writes
<1>7. d.pc \in {"undo", "commit", "write"} /\ (d.pc # "undo" => d.back = save[s].back \cup SetBack(k, row, View(s)))
  BY <1>1 DEF Proceeds, Fails, Writes
<1>8. \A g : Wrote(d, g) <=> Wrote(save[s], g) \/ g = h
  <2>1. \A g : Wrote(d, g) => Wrote(save[s], g) \/ g = h
    BY <1>6 DEF Wrote
  <2>2. \A g : Wrote(save[s], g) => Wrote(d, g)
    BY <1>6 DEF Wrote
  <2>3. Wrote(d, h)
    <3>1. <<h, object[h], snapshot[h]>> \in Range(d.old)
      BY <1>6
    <3> QED BY <3>1 DEF Wrote
  <2> QED BY <2>1, <2>2, <2>3
<1>9. \A g \in Objects : n.object[g].key = m.object[g].key /\ n.object[g].action = m.object[g].action
                         /\ n.object[g].ver = m.object[g].ver /\ n.object[g].val = m.object[g].val
                         /\ n.object[g].root = object[g].root
  BY <1>2, <1>3 DEF Same
<1>10. \A g \in Objects \ {h} : Same(object[g], n.object[g]) /\ m.object[g] = object[g]
  BY <1>1, <1>2
<1> QED BY <1>1, <1>2, <1>3, <1>4, <1>5, <1>6, <1>7, <1>8, <1>9, <1>10

\* What the ledgers say of an object that keeps its key.
LEMMA WriteMemory ==
  ASSUME IInv, LInv, NEW s \in Savers, NEW h, NEW k, NEW row, NEW m, NEW a, NEW rest, NEW d, NEW n,
         Written(s, h, k, row, m, a, rest, d, n), Rightful(n.object),
         NEW g \in Objects, Alone(g, n.object), g = h => object[h].key = k
  PROVE  /\ Alone(g, m.object) /\ m.object[g].key = object[g].key
         /\ SameAt(ledger[object[g].root], m.ledger[object[g].root], object[g].key)
         /\ g \notin Range(rest) => SameAt(ledger[object[g].root], n.ledger[object[g].root], object[g].key)
<1>1. /\ \A f \in Objects : /\ n.object[f].root = object[f].root /\ n.object[f].key = m.object[f].key
                            /\ m.object[f].root = object[f].root
      /\ \A f \in Objects \ {h} : Same(object[f], n.object[f]) /\ m.object[f] = object[f]
      /\ n.object[h].key = k
  BY WriteShape
<1>2. /\ h \in Objects /\ Claims(h, k, object, save) /\ Claims(h, object[h].key, object, save)
      /\ Within(ledger, m.ledger, {<<object[h].root, j>> : j \in {object[h].key, k}})
      /\ object[h].key = k => Within(ledger, m.ledger, {})
      /\ Within(m.ledger, n.ledger, {<<m.object[f].root, m.object[f].key>> : f \in Range(rest)})
      /\ rest \in Seq(Objects)
  BY OwnClaim DEF Written, Proceeds
<1>3. Alone(g, m.object)
  BY <1>1 DEF Alone
<1>4. m.object[g].key = object[g].key /\ n.object[g].key = object[g].key
  BY <1>1 DEF Same
<1>5. object[g].root \in Objects
  BY RootOwn
<1>6. SameAt(ledger[object[g].root], m.ledger[object[g].root], object[g].key)
  <2>1. CASE object[h].key = k
    BY <1>2, <1>5, <2>1 DEF Within
  <2>2. CASE g # h
    <3> DEFINE T == {<<object[h].root, j>> : j \in {object[h].key, k}}
    <3>1. object[g].root = object[h].root => ~ Claims(h, object[g].key, object, save)
      BY <1>1, <1>2, <1>4, <2>2, AloneClaims
    <3>2. <<object[g].root, object[g].key>> \notin T
      BY <1>2, <3>1
    <3>3. Within(ledger, m.ledger, T)
      BY <1>2
    <3> HIDE DEF T
    <3> QED BY <1>5, <3>2, <3>3 DEF Within
  <2> QED BY <2>1, <2>2
<1>7. ASSUME g \notin Range(rest)
      PROVE  SameAt(ledger[object[g].root], n.ledger[object[g].root], object[g].key)
  <2> DEFINE T == {<<m.object[f].root, m.object[f].key>> : f \in Range(rest)}
  <2>1. <<object[g].root, object[g].key>> \notin T
    <3> SUFFICES ASSUME NEW f \in Range(rest), m.object[f].root = object[g].root, m.object[f].key = object[g].key
                 PROVE  FALSE
      OBVIOUS
    <3>1. f \in Objects /\ f # g
      BY <1>2, <1>7 DEF Range
    <3> QED BY <1>1, <1>3, <1>4, <3>1 DEF Alone
  <2>2. Within(m.ledger, n.ledger, T)
    BY <1>2
  <2> HIDE DEF T
  <2>3. SameAt(m.ledger[object[g].root], n.ledger[object[g].root], object[g].key)
    BY <1>5, <2>1, <2>2 DEF Within
  <2> QED BY <1>6, <2>3 DEF SameAt
<1> QED BY <1>3, <1>4, <1>6, <1>7

LEMMA WriteSteps ==
  ASSUME IInv, VInv, LInv, NEW s \in Savers, NEW h, NEW k, NEW row, NEW m, NEW a, NEW rest, NEW d, NEW n,
         Written(s, h, k, row, m, a, rest, d, n)
  PROVE  Steps(s, d)
<1>1. /\ MemoryOK(n)
      /\ \A g \in Objects : /\ n.object[g].root = object[g].root /\ n.object[g].key = m.object[g].key
                            /\ m.object[g].root = object[g].root
                            /\ Claims(g, n.object[g].key, object, save)
      /\ \A g \in Objects \ {h} : Same(object[g], n.object[g]) /\ m.object[g] = object[g]
      /\ \A g \in Objects \ Range(save[s].graph) : n.object[g] = object[g]
      /\ d.graph = save[s].graph
      /\ Range(d.old) = Range(save[s].old) \cup {<<h, object[h], snapshot[h]>>}
      /\ Range(d.written) = Range(save[s].written) \cup {<<h, k>>}
      /\ d.pc \in {"undo", "commit", "write"}
      /\ n.object[h].key = k
  BY WriteShape
<1>2. /\ save[s].pc = "write" /\ h = Head(save[s].todo) /\ h \in Objects /\ h \in Range(save[s].graph)
      /\ Claims(h, k, object, save) /\ Claims(h, object[h].key, object, save)
      /\ UNCHANGED <<items, snapshot, nextId, contested, backed>>
      /\ save' = [save EXCEPT ![s] = d] /\ object' = n.object /\ ledger' = n.ledger
      /\ Within(ledger, m.ledger, {<<object[h].root, j>> : j \in {object[h].key, k}})
      /\ Within(m.ledger, n.ledger, {<<m.object[f].root, m.object[f].key>> : f \in Range(rest)})
      /\ rest \in Seq(Objects) /\ Proceeds(a, m, rest, d, n)
      /\ \A g \in Range(rest) : g # h /\ g \in Range(save[s].graph)
      /\ Head(save[s].graph) \notin Range(rest)
  BY OwnClaim DEF Written, Proceeds
<1>3. Joins(object')
  BY <1>1, <1>2 DEF Joins
<1>4. \A g, j : Used(d, g, j) => Claims(g, j, object, save)
  <2> SUFFICES ASSUME NEW g, NEW j, Used(d, g, j) PROVE Claims(g, j, object, save)
    OBVIOUS
  <2>1. CASE \E e \in Range(d.old) : e[1] = g /\ e[2].key = j
    <3>1. PICK e \in Range(d.old) : e[1] = g /\ e[2].key = j
      BY <2>1
    <3>2. CASE e \in Range(save[s].old)
      BY <3>1, <3>2 DEF Claims, Used, Marked
    <3>3. CASE e = <<h, object[h], snapshot[h]>>
      BY <1>2, <3>1, <3>3
    <3> QED BY <1>1, <3>2, <3>3
  <2>2. CASE <<g, j>> \in Range(d.written)
    <3>1. CASE <<g, j>> \in Range(save[s].written)
      BY <3>1 DEF Claims, Used, Marked
    <3>2. CASE <<g, j>> = <<h, k>>
      BY <1>2, <3>2
    <3> QED BY <1>1, <2>2, <3>1, <3>2
  <2>3. CASE d.command.object = {g} /\ d.command.key = j
    <3>1. d.command # NoCommand
      BY <2>3 DEF NoCommand
    <3>2. /\ d.command.object = {Head(d.todo)} /\ Held(d.command, m.object[Head(d.todo)], n.ledger[m.object[Head(d.todo)].root])
          /\ \E i \in 1 .. Len(rest) : d.todo = SubSeq(rest, i, Len(rest))
      BY <1>2, <3>1 DEF Proceeds, Fails
    <3>3. Head(d.todo) \in Objects
      <4>1. PICK i \in 1 .. Len(rest) : d.todo = SubSeq(rest, i, Len(rest))
        BY <3>2
      <4>2. Head(d.todo) = rest[i]
        BY <1>2, <4>1, FromPlace
      <4> QED BY <1>2, <4>2
    <3>4. g = Head(d.todo) /\ j = m.object[g].key
      BY <2>3, <3>2 DEF Held
    <3> QED BY <1>1, <3>3, <3>4
  <2> QED BY <2>1, <2>2, <2>3 DEF Used, Marked
<1>5. NewClaims(s, object', save')
  <2>1. \A t \in Savers : save'[t] = IF t = s THEN d ELSE save[t]
    BY <1>2 DEF IInv
  <2> SUFFICES ASSUME NEW g \in Objects, NEW j, Claims(g, j, object', save')
               PROVE  Claims(g, j, object, save)
    BY DEF NewClaims
  <2>2. CASE object'[g].key = j
    BY <1>1, <1>2, <2>2
  <2>3. ASSUME NEW t \in Savers, Used(save'[t], g, j) PROVE Claims(g, j, object, save)
    <3>1. CASE t = s
      BY <1>4, <2>1, <2>3, <3>1
    <3>2. CASE t # s
      BY <2>1, <2>3, <3>2 DEF Claims
    <3> QED BY <3>1, <3>2
  <2> QED BY <2>2, <2>3 DEF Claims
<1>6. Touches(Range(save[s].graph), ledger, ledger', object')
  <2> DEFINE T == {<<object[h].root, j>> : j \in {object[h].key, k}}
             U == {<<m.object[f].root, m.object[f].key>> : f \in Range(rest)}
  <2>1. ASSUME NEW q \in Objects, NEW j,
               \A g \in Range(save[s].graph) :
                 n.object[g].root = q => ~ Claims(g, j, object, save) /\ n.object[g].key # j /\ g # j
        PROVE  SameAt(ledger[q], n.ledger[q], j)
    <3>1. <<q, j>> \notin T
      <4> SUFFICES ASSUME q = object[h].root, j \in {object[h].key, k} PROVE FALSE
        OBVIOUS
      <4>1. n.object[h].root = q /\ h \in Range(save[s].graph) /\ Claims(h, j, object, save)
        BY <1>1, <1>2
      <4> QED BY <2>1, <4>1
    <3>2. <<q, j>> \notin U
      <4> SUFFICES ASSUME NEW f \in Range(rest), m.object[f].root = q, m.object[f].key = j PROVE FALSE
        OBVIOUS
      <4>1. f \in Range(save[s].graph)
        BY <1>2
      <4>2. f \in Objects
        BY <1>2 DEF Range
      <4>3. n.object[f].root = q /\ n.object[f].key = j
        BY <1>1, <4>2
      <4> QED BY <2>1, <4>1, <4>3
    <3>3. Within(ledger, m.ledger, T) /\ Within(m.ledger, n.ledger, U)
      BY <1>2
    <3> HIDE DEF T, U
    <3>4. SameAt(ledger[q], m.ledger[q], j) /\ SameAt(m.ledger[q], n.ledger[q], j)
      BY <3>1, <3>2, <3>3 DEF Within
    <3> QED BY <3>4 DEF SameAt
  <2> QED BY <1>1, <1>2, <2>1 DEF Touches, MemoryOK
<1>7. GraphInv(d, object')
  <2>1. GraphInv(save[s], object') /\ items' = items
    BY <1>2, <1>3, GraphKept DEF LInv
  <2>2. d.pc = "write" => Head(d.graph) \notin Range(d.todo)
    <3> SUFFICES ASSUME d.pc = "write" PROVE Head(d.graph) \notin Range(d.todo)
      OBVIOUS
    <3>1. PICK i \in 1 .. Len(rest) : d.todo = SubSeq(rest, i, Len(rest))
      BY <1>2 DEF Proceeds, Fails
    <3>2. Range(d.todo) = {rest[j] : j \in i .. Len(rest)}
      BY <1>2, <3>1, FromPlace
    <3>3. \A j \in i .. Len(rest) : rest[j] \in Range(rest)
      <4>1. DOMAIN rest = 1 .. Len(rest)
        BY <1>2
      <4> QED BY <4>1 DEF Range
    <3>4. d.graph = save[s].graph /\ Head(save[s].graph) \notin Range(rest)
      BY <1>1, <1>2
    <3> QED BY <3>2, <3>3, <3>4
  <2>3. \A w \in Range(d.written) : w = <<w[1], w[2]>>
    <3>1. \A w \in Range(save[s].written) : w = <<w[1], w[2]>>
      BY <2>1 DEF GraphInv
    <3> QED BY <1>1, <3>1
  <2> QED BY <1>1, <1>2, <2>1, <2>2, <2>3 DEF GraphInv
<1>8. nextId <= nextId'
  BY <1>2 DEF VInv
<1> QED BY <1>1, <1>2, <1>3, <1>5, <1>6, <1>7, <1>8 DEF Steps, Waits

LEMMA WriteTruth ==
  ASSUME IInv, VInv, LInv, NEW s \in Savers, NEW h, NEW k, NEW row, NEW m, NEW a, NEW rest, NEW d, NEW n,
         Written(s, h, k, row, m, a, rest, d, n),
         NEW g \in Range(save[s].graph), contested[g] = {}, Alone(g, n.object), Alone(g, object)
  PROVE  /\ g = h => object[h].key = k
         /\ Rightful(n.object)
         /\ Truthful(d, g, n.object, n.ledger, snapshot, backed)
<1>1. /\ \A f \in Objects : n.object[f].root = object[f].root /\ m.object[f].root = object[f].root
      /\ \A f \in Objects \ {h} : Same(object[f], n.object[f]) /\ m.object[f] = object[f]
      /\ Range(d.old) = Range(save[s].old) \cup {<<h, object[h], snapshot[h]>>}
      /\ \A f : Wrote(d, f) <=> Wrote(save[s], f) \/ f = h
  BY WriteShape
<1>2. /\ save[s].pc = "write" /\ h = Head(save[s].todo) /\ h \in Objects /\ k = save[s].command.key
      /\ ~ Wrote(save[s], h) /\ \A f \in Range(rest) : f # h /\ ~ Wrote(save[s], f)
      /\ object' = n.object /\ Proceeds(a, m, rest, d, n)
  BY DEF Written
<1>3. g \in Objects /\ \A e \in Range(save[s].old) : contested[e[1]] = {} => e[2].key = object[e[1]].key
  BY WrittenFacts
<1>4. g = h => object[h].key = k
  BY <1>2 DEF LInv, OwnInv, HoldsInv
<1>5. Rightful(n.object)
  BY <1>2, WriteSteps, StepRightful
<1>6. Truthful(save[s], g, object, ledger, snapshot, backed)
  BY OwnTruthful
<1>7. /\ Alone(g, m.object)
      /\ SameAt(ledger[object[g].root], m.ledger[object[g].root], object[g].key)
      /\ g \notin Range(rest) => SameAt(ledger[object[g].root], n.ledger[object[g].root], object[g].key)
  BY <1>3, <1>4, <1>5, WriteMemory
<1>8. ASSUME ~ Wrote(d, g)
      PROVE  Faithful(n.object[g], n.ledger[n.object[g].root], snapshot[g], backed)
  <2>1. g # h /\ ~ Wrote(save[s], g) /\ Same(object[g], n.object[g]) /\ m.object[g] = object[g]
    BY <1>1, <1>3, <1>8
  <2>2. Faithful(object[g], ledger[object[g].root], snapshot[g], backed)
    BY <1>6, <2>1 DEF Truthful
  <2>3. Faithful(object[g], m.ledger[object[g].root], snapshot[g], backed)
    BY <1>7, <2>2, SameFaithful
  <2>4. Like(object[g], m.ledger[object[g].root], n.ledger[object[g].root])
    BY <1>2, <1>3, <1>7, <2>1 DEF Proceeds
  <2>5. Faithful(object[g], n.ledger[object[g].root], snapshot[g], backed)
    BY <2>3, <2>4, LikeFaithful
  <2> QED BY <1>1, <1>3, <2>1, <2>5 DEF Faithful, Changed, Same
<1>9. ASSUME NEW e \in Range(d.old), e[1] = g
      PROVE  Faithful(e[2], n.ledger[n.object[g].root], e[3], backed)
  <2>1. CASE g = h
    <3>1. e = <<h, object[h], snapshot[h]>>
      <4>1. e \notin Range(save[s].old)
        BY <1>2, <1>9, <2>1 DEF Wrote
      <4> QED BY <1>1, <4>1
    <3>2. Faithful(object[h], ledger[object[h].root], snapshot[h], backed)
      BY <1>2, <1>6, <2>1 DEF Truthful
    <3>3. SameAt(ledger[object[h].root], n.ledger[object[h].root], object[h].key)
      BY <1>2, <1>7, <2>1
    <3>4. Faithful(object[h], n.ledger[object[h].root], snapshot[h], backed)
      BY <3>2, <3>3, SameFaithful
    <3> QED BY <1>1, <1>2, <2>1, <3>1, <3>4
  <2>2. CASE g # h
    <3>1. e \in Range(save[s].old)
      BY <1>1, <1>9, <2>2
    <3>2. g \notin Range(rest)
      BY <1>2, <1>9, <3>1 DEF Wrote
    <3>3. Faithful(e[2], ledger[object[g].root], e[3], backed) /\ e[2].key = object[g].key
      BY <1>3, <1>6, <1>9, <3>1 DEF Truthful
    <3>4. Faithful(e[2], n.ledger[object[g].root], e[3], backed)
      BY <1>7, <3>2, <3>3, SameFaithful
    <3> QED BY <1>1, <1>3, <3>4
  <2> QED BY <2>1, <2>2
<1> QED BY <1>4, <1>5, <1>8, <1>9 DEF Truthful

LEMMA WriteShows ==
  ASSUME IInv, VInv, LInv, NEW s \in Savers, NEW h, NEW k, NEW row, NEW m, NEW a, NEW rest, NEW d, NEW n,
         Written(s, h, k, row, m, a, rest, d, n), Affects(save[s].command, View(s)),
         row = Statement(save[s].command, View(s))[k],
         NEW g \in Range(save[s].graph)
  PROVE  ShowsInv(d, g, n.object, n.ledger, backed, contested)
<1> DEFINE c == save[s].command
<1> SUFFICES ASSUME d.pc # "undo", contested[g] = {}, Wrote(d, g)
             PROVE  /\ n.object[g].action \in {"Update", "Delete"} /\ \E v \in Int : n.object[g].ver = {v}
                    /\ n.object[g].action = "Delete" =>
                         n.object[g].key \in backed \cup d.back \/ \E v \in n.object[g].ver : v < 0
                    /\ <<g, n.object[g].key>> \in Range(d.written)
                    /\ \A w \in Range(d.written) : w[1] = g => w[2] = n.object[g].key
                    /\ Alone(g, n.object) /\ n.object[g].action # "Delete" =>
                         LET fields == Fields(n.ledger[n.object[g].root], n.object[g].key)
                         IN  "val" \in DOMAIN fields => fields["val"] = n.object[g].val
  BY DEF ShowsInv
<1>1. /\ \A f \in Objects : n.object[f].root = object[f].root
      /\ \A f \in Objects \ {h} : Same(object[f], n.object[f])
      /\ Range(d.written) = Range(save[s].written) \cup {<<h, k>>}
      /\ d.back = save[s].back \cup SetBack(k, row, View(s))
      /\ \A f : Wrote(d, f) <=> Wrote(save[s], f) \/ f = h
      /\ n.object[h].key = k /\ n.object[h].ver = {row.ver} /\ n.object[h].val = row.val
      /\ n.object[h].action = IF c.kind = "Delete" THEN object[h].action ELSE "Update"
  BY WriteShape
<1>2. /\ save[s].pc = "write" /\ h = Head(save[s].todo) /\ h \in Objects /\ k = c.key
      /\ ~ Wrote(save[s], h) /\ row.ver \in Int /\ \A f \in Range(rest) : f # h /\ ~ Wrote(save[s], f)
      /\ object' = n.object /\ c.kind \in Actions
  BY NextObject DEF Written
<1>3. g \in Objects /\ \A w \in Range(save[s].written) : Wrote(save[s], w[1])
  BY WrittenFacts
<1>4. ASSUME Alone(g, n.object)
      PROVE  /\ Alone(g, object)
             /\ g \notin Range(rest) => SameAt(ledger[object[g].root], n.ledger[object[g].root], object[g].key)
  <2>1. Rightful(n.object) /\ Joins(n.object)
    BY <1>2, WriteSteps, StepRightful DEF Steps
  <2>2. Alone(g, object)
    BY <1>3, <1>4, <2>1, AloneBefore
  <2>3. g = h => object[h].key = k
    BY <1>4, <2>2, WriteTruth
  <2> QED BY <1>3, <1>4, <2>1, <2>2, <2>3, WriteMemory
<1>5. CASE g = h
  <2>1. /\ c.kind = object[h].action /\ c.key = object[h].key
        /\ Alone(h, object) /\ c.kind # "Delete" =>
             LET fields == Fields(ledger[object[h].root], object[h].key)
             IN  "val" \in DOMAIN fields => "val" \in DOMAIN c.values /\ c.values["val"] = fields["val"]
    BY <1>2, <1>5 DEF LInv, OwnInv, HoldsInv
  <2>2. /\ c.kind = "Create" \/ (c.kind = "Update" /\ "val" \in DOMAIN c.values) => row.val = c.values["val"]
        /\ c.kind = "Delete" => row.ver < 0 \/ c.key \in SetBack(c.key, row, View(s))
    <3>1. RowsOK(View(s), object, contested)
      <4>1. CallOK(save[s], object, contested) /\ RowsOK(table, object, contested)
        BY DEF IInv
      <4> QED BY <4>1, OverRows DEF View, CallOK
    <3>2. c.key \in DOMAIN View(s) => View(s)[c.key].ver \in Int /\ DOMAIN View(s)[c.key] = RowFields
      BY <3>1, ViewRows DEF RowsOK, RowOK
    <3> HIDE DEF c
    <3>3. row = Statement(c, View(s))[c.key] /\ Affects(c, View(s)) /\ c.kind \in Actions
      BY <1>2 DEF c
    <3> QED BY <3>2, <3>3, RowSays
  <2>3. \A w \in Range(d.written) : w[1] = h => w[2] = k
    <3> SUFFICES ASSUME NEW w \in Range(d.written), w[1] = h PROVE w[2] = k
      OBVIOUS
    <3>1. w \notin Range(save[s].written)
      BY <1>2, <1>3
    <3>2. w = <<h, k>>
      BY <1>1, <3>1
    <3> QED BY <3>2
  <2>4. ASSUME Alone(h, n.object), n.object[h].action # "Delete",
               "val" \in DOMAIN Fields(n.ledger[n.object[h].root], n.object[h].key)
        PROVE  Fields(n.ledger[n.object[h].root], n.object[h].key)["val"] = n.object[h].val
    <3> DEFINE fields == Fields(ledger[object[h].root], object[h].key)
    <3>1. c.kind # "Delete"
      BY <1>1, <2>1, <2>4
    <3>2. Fields(n.ledger[n.object[h].root], n.object[h].key) = fields
      <4>1. Alone(h, object) /\ SameAt(ledger[object[h].root], n.ledger[object[h].root], object[h].key)
        BY <1>2, <1>4, <1>5, <2>4
      <4>2. n.object[h].root = object[h].root /\ n.object[h].key = object[h].key
        BY <1>1, <1>2, <2>1
      <4> QED BY <4>1, <4>2, SameSays
    <3>3. "val" \in DOMAIN c.values /\ c.values["val"] = fields["val"]
      BY <1>4, <1>5, <2>1, <2>4, <3>1, <3>2
    <3>4. row.val = c.values["val"]
      BY <1>2, <2>2, <3>1, <3>3 DEF Actions
    <3> QED BY <1>1, <3>2, <3>3, <3>4
  <2>5. n.object[h].action \in {"Update", "Delete"} /\ (n.object[h].action = "Delete" => c.kind = "Delete")
    BY <1>1, <2>1
  <2>6. \E v \in Int : n.object[h].ver = {v}
    BY <1>1, <1>2
  <2>7. n.object[h].action = "Delete" => k \in d.back \/ \E v \in n.object[h].ver : v < 0
    BY <1>1, <1>2, <2>2, <2>5
  <2> QED BY <1>1, <1>5, <2>3, <2>4, <2>5, <2>6, <2>7
<1>6. CASE g # h
  <2>1. Same(object[g], n.object[g]) /\ Wrote(save[s], g) /\ n.object[g].root = object[g].root
    BY <1>1, <1>3, <1>6
  <2>2. ShowsInv(save[s], g, object, ledger, backed, contested)
    BY <1>3 DEF LInv, OwnInv
  <2>3. /\ object[g].action \in {"Update", "Delete"} /\ \E v \in Int : object[g].ver = {v}
        /\ object[g].action = "Delete" =>
             object[g].key \in backed \cup save[s].back \/ \E v \in object[g].ver : v < 0
        /\ <<g, object[g].key>> \in Range(save[s].written)
        /\ \A w \in Range(save[s].written) : w[1] = g => w[2] = object[g].key
        /\ Alone(g, object) /\ object[g].action # "Delete" =>
             LET fields == Fields(ledger[object[g].root], object[g].key)
             IN  "val" \in DOMAIN fields => fields["val"] = object[g].val
    BY <1>2, <2>1, <2>2 DEF ShowsInv
  <2>4. \A w \in Range(d.written) : w[1] = g => w[2] = object[g].key
    <3> SUFFICES ASSUME NEW w \in Range(d.written), w[1] = g PROVE w[2] = object[g].key
      OBVIOUS
    <3>1. w \in Range(save[s].written)
      BY <1>1, <1>6
    <3> QED BY <2>3, <3>1
  <2>5. Alone(g, n.object) =>
          /\ Alone(g, object)
          /\ Fields(n.ledger[object[g].root], object[g].key) = Fields(ledger[object[g].root], object[g].key)
    <3> SUFFICES ASSUME Alone(g, n.object)
                 PROVE  /\ Alone(g, object)
                        /\ Fields(n.ledger[object[g].root], object[g].key) = Fields(ledger[object[g].root], object[g].key)
      OBVIOUS
    <3>1. g \notin Range(rest)
      BY <1>2, <2>1
    <3>2. Alone(g, object) /\ SameAt(ledger[object[g].root], n.ledger[object[g].root], object[g].key)
      BY <1>4, <3>1
    <3> QED BY <3>2, SameSays
  <2>6. n.object[g].key = object[g].key /\ n.object[g].ver = object[g].ver /\ n.object[g].val = object[g].val
        /\ n.object[g].action = object[g].action
    BY <2>1 DEF Same
  <2> HIDE DEF c
  <2> QED BY <1>1, <2>1, <2>3, <2>4, <2>5, <2>6
<1> QED BY <1>5, <1>6

LEMMA WriteHolds ==
  ASSUME IInv, VInv, LInv, NEW s \in Savers, NEW h, NEW k, NEW row, NEW m, NEW a, NEW rest, NEW d, NEW n,
         Written(s, h, k, row, m, a, rest, d, n), NEW g \in Range(save[s].graph)
  PROVE  HoldsInv(d, g, n.object, n.ledger, contested)
<1> SUFFICES ASSUME d.pc = "write", g = Head(d.todo) PROVE HoldsInv(d, g, n.object, n.ledger, contested)
  BY DEF HoldsInv
<1>1. Proceeds(a, m, rest, d, n) /\ g \in Objects
  BY WrittenFacts DEF Written
<1>2. Held(d.command, m.object[g], n.ledger[m.object[g].root])
  BY <1>1 DEF Proceeds, Fails
<1>3. /\ n.object[g].root = m.object[g].root /\ n.object[g].key = m.object[g].key
      /\ n.object[g].action = m.object[g].action
  BY <1>1, WriteShape
<1> QED BY <1>2, <1>3 DEF HoldsInv, Held

LEMMA WritePassed ==
  ASSUME IInv, VInv, LInv, NEW s \in Savers, NEW h, NEW k, NEW row, NEW m, NEW a, NEW rest, NEW d, NEW n,
         Written(s, h, k, row, m, a, rest, d, n), NEW g \in Range(save[s].graph)
  PROVE  PassedInv(d, g, n.object, n.ledger, contested)
<1> SUFFICES ASSUME d.pc # "undo", Untouched(g, n.object, contested),
                    HasPending(n.ledger[n.object[g].root], n.object[g].key)
             PROVE  \/ Wrote(d, g)
                    \/ d.pc = "write" /\ g \in Range(d.todo)
                    \/ n.object[Head(d.graph)].action = "Delete"
  BY DEF PassedInv
<1> DEFINE o == Head(save[s].graph)
<1>1. /\ \A f \in Objects : /\ n.object[f].root = object[f].root /\ n.object[f].key = m.object[f].key
                            /\ m.object[f].root = object[f].root
      /\ \A f \in Objects \ {h} : Same(object[f], n.object[f])
      /\ d.graph = save[s].graph
      /\ \A f : Wrote(d, f) <=> Wrote(save[s], f) \/ f = h
      /\ n.object[h].action = IF save[s].command.kind = "Delete" THEN object[h].action ELSE "Update"
  BY WriteShape
<1>2. /\ save[s].pc = "write" /\ h = Head(save[s].todo) /\ h \in Objects /\ h \in Range(save[s].graph)
      /\ object' = n.object /\ Proceeds(a, m, rest, d, n)
      /\ Head(save[s].graph) \in Range(save[s].todo) => save[s].todo = save[s].graph
      /\ \A f \in Range(save[s].todo) :
           \/ f = h \/ f \in Range(rest)
           \/ save[s].command.kind = "Delete" /\ h = Head(save[s].graph)
  BY DEF Written
<1>3. /\ o \in Objects /\ g \in Objects
      /\ g = o \/ g \in Range(items[o])
      /\ h \in Range(save[s].todo)
  BY <1>2, GraphRoots, NextObject
<1>4. contested[g] = {} /\ Alone(g, n.object) /\ Alone(g, object)
  <2>1. Rightful(n.object) /\ Joins(n.object)
    BY <1>2, WriteSteps, StepRightful DEF Steps
  <2>2. contested[g] = {} /\ Alone(g, n.object)
    BY DEF Untouched
  <2> QED BY <1>3, <2>1, <2>2, AloneBefore
<1>5. /\ Alone(g, m.object)
      /\ g \notin Range(rest) => SameAt(ledger[object[g].root], n.ledger[object[g].root], object[g].key)
  <2>1. Rightful(n.object) /\ (g = h => object[h].key = k)
    BY <1>4, WriteTruth
  <2> QED BY <1>3, <1>4, <2>1, WriteMemory
<1>6. CASE g = h
  BY <1>1, <1>6
<1>7. CASE g \in Range(rest)
  <2>1. HasPending(n.ledger[m.object[g].root], m.object[g].key)
    BY <1>1, <1>3
  <2> QED BY <1>2, <1>5, <1>7, <2>1 DEF Proceeds
<1>8. CASE g # h /\ g \notin Range(rest)
  <2>1. HasPending(ledger[object[g].root], object[g].key)
    <3>1. n.object[g].root = object[g].root /\ n.object[g].key = object[g].key
      BY <1>1, <1>3, <1>8 DEF Same
    <3> QED BY <1>5, <1>8, <3>1, SameSays
  <2>2. \/ Wrote(save[s], g) \/ g \in Range(save[s].todo) \/ object[o].action = "Delete"
    BY <1>2, <1>3, <1>4, <2>1 DEF LInv, OwnInv, PassedInv, Untouched
  <2>3. CASE g \in Range(save[s].todo)
    <3>1. save[s].command.kind = "Delete" /\ h = o
      BY <1>2, <1>8, <2>3
    <3>2. Solo(h, contested)
      <4>1. g \in Range(items[h]) /\ MarksInv(contested)
        BY <1>3, <1>8, <3>1 DEF LInv
      <4> QED BY <1>2, <1>4, <4>1 DEF MarksInv, Solo
    <3>3. object[h].action = "Delete"
      <4>1. HeadInv(save[s], object, snapshot, table, backed, contested)
        BY DEF VInv, CallInv
      <4> QED BY <1>2, <3>1, <3>2, <4>1 DEF HeadInv
    <3> QED BY <1>1, <3>1, <3>3
  <2>4. CASE object[o].action = "Delete"
    <3>1. CASE o = h
      <4>1. g \in Range(save[s].todo)
        BY <1>2, <1>3, <3>1
      <4> QED BY <2>3, <4>1
    <3>2. CASE o # h
      BY <1>1, <1>3, <2>4, <3>2 DEF Same
    <3> QED BY <3>1, <3>2
  <2> QED BY <1>1, <2>2, <2>3, <2>4
<1> QED BY <1>6, <1>7, <1>8

LEMMA WriteLedgers ==
  ASSUME IInv, VInv, LInv, IInv', VInv', NEW s \in Savers, Write(s)
  PROVE  LInv'
<1> DEFINE h == Head(save[s].todo)
           k == save[s].command.key
           row == Statement(save[s].command, View(s))[k]
<1>1. PICK m, a, rest, d, n : Written(s, h, k, row, m, a, rest, d, n)
  BY WriteSays
<1>2. Affects(save[s].command, View(s))
  BY DEF Write
<1>3. /\ object' = n.object /\ ledger' = n.ledger /\ snapshot' = snapshot /\ backed' = backed
      /\ d.pc \in {"undo", "commit", "write"}
  <2> HIDE DEF h, k, row
  <2>1. d.pc \in {"undo", "commit", "write"}
    BY <1>1, WriteShape
  <2> QED BY <1>1, <2>1 DEF Written
<1>4. Steps(s, d)
  BY <1>1, WriteSteps
<1>5. ASSUME NEW g \in Range(save[s].graph), contested[g] = {}, Alone(g, object'), Alone(g, object)
      PROVE  Truthful(d, g, object', ledger', snapshot', backed')
  <2>1. Truthful(d, g, n.object, n.ledger, snapshot, backed)
    <3> HIDE DEF h, k, row
    <3>1. Alone(g, n.object)
      BY <1>3, <1>5
    <3> QED BY <1>1, <1>5, <3>1, WriteTruth
  <2> QED BY <1>3, <2>1
<1>6. ASSUME NEW g \in Range(save[s].graph)
      PROVE  OwnInv(d, g, object', ledger', backed', contested)
  <2>1. ShowsInv(d, g, n.object, n.ledger, backed, contested)
    BY <1>1, <1>2, WriteShows
  <2>2. HoldsInv(d, g, n.object, n.ledger, contested) /\ PassedInv(d, g, n.object, n.ledger, contested)
    <3> HIDE DEF h, k, row
    <3> QED BY <1>1, WriteHolds, WritePassed
  <2>3. AsksInv(d, g, n.object, contested)
    BY <1>3 DEF AsksInv, Waits
  <2> QED BY <1>3, <2>1, <2>2, <2>3 DEF OwnInv
<1> QED BY <1>4, <1>5, <1>6, SaverStep

-----------------------------------------------------------------------------
(* The start *)

\* The ledger an object starts out with.
Starts(o, l, snap, bk) ==
  /\ IsLedger(l) /\ \A k : Fields(l, k) = <<>> /\ (Mentions(l, k) => k = o.key)
  /\ Faithful(o, l, snap, bk)

LEMMA NewRootSays ==
  ASSUME NEW o, o.action \in {"Create", "Update"}, o.ver \in {{}, {1}}, o.action = "Create" => o.ver = {},
         o.val = 0, NEW bk
  PROVE  Starts(o, NewRoot(o), IF o.ver = {} THEN {} ELSE {0}, bk)
<1> DEFINE k == o.key
           l == NewRoot(o)
           snap == IF o.ver = {} THEN {} ELSE {0}
<1>1. DOMAIN NoLedger = LedgerFields /\ DOMAIN <<>> = {}
  BY DEF NoLedger, LedgerFields
<1>2. ~ Changed(o, snap)
  BY DEF Changed
<1>3. CASE o.action = "Create"
  <2>1. /\ DOMAIN l = LedgerFields /\ l.changes = <<>> /\ l.orig = <<>> /\ l.deleted = {} /\ l.new = {k}
    BY <1>1, <1>3 DEF NewRoot, MarkAsNew, NoLedger, LedgerFields
  <2> HIDE DEF l, k, snap
  <2>2. \A j : Fields(l, j) = <<>> /\ OriginalVersion(l, j) = {} /\ (Mentions(l, j) => j = k)
    BY <1>1, <2>1 DEF Fields, OriginalVersion, Mentions, HasPending
  <2>3. Faithful(o, l, snap, bk)
    BY <1>3, <2>1, <2>2 DEF Faithful, k
  <2> QED BY <2>1, <2>2, <2>3 DEF Starts, IsLedger, l, k, snap
<1>4. CASE o.action = "Update" /\ o.ver = {}
  <2>1. l = NoLedger
    BY <1>4 DEF NewRoot, AcceptCommittedVersion
  <2>2. /\ DOMAIN l = LedgerFields /\ l.changes = <<>> /\ l.orig = <<>> /\ l.deleted = {} /\ l.new = {}
    BY <1>1, <2>1 DEF NoLedger
  <2> HIDE DEF l, k, snap
  <2>3. \A j : Fields(l, j) = <<>> /\ OriginalVersion(l, j) = {} /\ ~ Mentions(l, j)
    BY <1>1, <2>2 DEF Fields, OriginalVersion, Mentions, HasPending
  <2>4. Faithful(o, l, snap, bk)
    BY <1>1, <1>2, <1>4, <2>2, <2>3 DEF Faithful, Changed, k, snap
  <2> QED BY <2>2, <2>3, <2>4 DEF Starts, IsLedger, l, k, snap
<1>5. CASE o.action = "Update" /\ o.ver = {1}
  <2>1. l = [NoLedger EXCEPT !.orig = WithEntry(@, k, CHOOSE v \in {1} : TRUE)]
    BY <1>5 DEF NewRoot, AcceptCommittedVersion
  <2>2. (CHOOSE v \in {1} : TRUE) = 1
    OBVIOUS
  <2>3. DOMAIN WithEntry(<<>>, k, 1) = {k} /\ WithEntry(<<>>, k, 1)[k] = 1
    BY <1>1 DEF WithEntry, Updated
  <2>4. /\ DOMAIN l = LedgerFields /\ l.changes = <<>> /\ l.deleted = {} /\ l.new = {}
        /\ l.orig = WithEntry(<<>>, k, 1)
    BY <1>1, <2>1, <2>2 DEF NoLedger, LedgerFields
  <2> HIDE DEF l, k, snap
  <2>5. DOMAIN l.orig = {k} /\ l.orig[k] = 1
    BY <2>3, <2>4
  <2>6. /\ \A j : Fields(l, j) = <<>> /\ (Mentions(l, j) => j = k)
        /\ OriginalVersion(l, k) = {1}
    BY <1>1, <2>4, <2>5 DEF Fields, OriginalVersion, Mentions, HasPending
  <2>7. Faithful(o, l, snap, bk)
    BY <1>1, <1>2, <1>5, <2>4, <2>6 DEF Faithful, Changed, k, snap
  <2> QED BY <2>4, <2>6, <2>7 DEF Starts, IsLedger, l, k, snap
<1> QED BY <1>3, <1>4, <1>5

LEMMA LedgersStart == Init => LInv /\ TInv
<1> SUFFICES ASSUME Init PROVE LInv /\ TInv
  OBVIOUS
<1>1. VInv /\ IInv
  BY VersionsStart, Start
<1> PICK shape \in Shapes :
      /\ items = shape.items
      /\ object = [h \in Objects |-> NewObject(shape, h)]
      /\ ledger = [h \in Objects |-> NewRoot(NewObject(shape, h))]
      /\ snapshot = [h \in Objects |-> IF NewObject(shape, h).ver = {} THEN {} ELSE {0}]
      /\ table = [k \in Range(shape.ids) |-> [ver |-> 1, val |-> 0, by |-> {}]]
      /\ save = [s \in Savers |-> Idle]
      /\ edits = 0
      /\ contested = [h \in Objects |-> {}]
      /\ backed = {}
  BY DEF Init
<1>2. /\ Range(shape.ids) \subseteq Ids /\ Ids \cap Objects = {}
      /\ \A h \in DOMAIN shape.ids : shape.ids[h] \in Range(shape.ids)
  BY ShapesAssumption, IdsAssumption DEF ShapesAssumption, IdsAssumption, Range
<1>3. \A h \in Objects :
        /\ object[h].key = IF h \in DOMAIN shape.ids THEN shape.ids[h] ELSE h
        /\ object[h].ver \in {{}, {1}} /\ object[h].action \in {"Create", "Update"}
        /\ object[h].action = "Create" => object[h].ver = {}
        /\ object[h].val = 0 /\ object[h].root = h
        /\ snapshot[h] = IF object[h].ver = {} THEN {} ELSE {0}
        /\ ledger[h] = NewRoot(object[h])
  BY DEF NewObject
<1>4. /\ Idle.pc = "idle" /\ Idle.graph = <<>> /\ Idle.staged = <<>> /\ Idle.old = <<>> /\ Idle.written = <<>>
      /\ Range(<<>>) = {} /\ DOMAIN <<>> = {}
  BY DEF Idle, Range
<1>5. \A s \in Savers : save[s] = Idle
  OBVIOUS
<1>6. \A s \in Savers : \A h : ~ Wrote(save[s], h) /\ ~ Waits(save[s], h) /\ \A k : ~ Used(save[s], h, k)
  <2>1. \A h, k : ~ Used(Idle, h, k)
    BY <1>4 DEF Used, Marked, Idle, NoCommand
  <2>2. \A h : ~ Wrote(Idle, h) /\ ~ Waits(Idle, h)
    BY <1>4 DEF Wrote, Waits
  <2> QED BY <1>5, <2>1, <2>2
<1>7. \A h, k : Claims(h, k, object, save) => object[h].key = k
  BY <1>6 DEF Claims
<1>8. \A h \in Objects : Starts(object[h], ledger[h], snapshot[h], backed)
  <2> SUFFICES ASSUME NEW h \in Objects PROVE Starts(object[h], ledger[h], snapshot[h], backed)
    OBVIOUS
  <2> DEFINE o == object[h]
  <2>1. /\ o.action \in {"Create", "Update"} /\ o.ver \in {{}, {1}} /\ (o.action = "Create" => o.ver = {})
        /\ o.val = 0 /\ ledger[h] = NewRoot(o) /\ snapshot[h] = IF o.ver = {} THEN {} ELSE {0}
    BY <1>3
  <2> HIDE DEF o
  <2>2. Starts(o, NewRoot(o), IF o.ver = {} THEN {} ELSE {0}, backed)
    BY ONLY <2>1, NewRootSays
  <2>3. Starts(o, ledger[h], snapshot[h], backed)
    BY ONLY <2>1, <2>2
  <2> QED BY <2>3 DEF o
<1>9. LInv
  <2>1. LedgersOK(ledger)
    BY <1>8 DEF LedgersOK, Starts
  <2>2. KeysInv(object, save)
    <3>1. ASSUME NEW h \in Objects, NEW k, Claims(h, k, object, save) PROVE k \in Ids \cup {h}
      BY <1>2, <1>3, <1>7, <3>1
    <3>2. ASSUME NEW h \in Objects, NEW k, Claims(h, k, object, save)
          PROVE  /\ \A j : Claims(h, j, object, save) => j = k
                 /\ \A s \in Savers : ~ Waits(save[s], h)
      BY <1>6, <1>7, <3>2
    <3> QED BY <3>1, <3>2 DEF KeysInv
  <2>3. LevelsInv
    BY LevelsAssumption DEF LevelsAssumption, LevelsInv
  <2>4. RootsInv(object) /\ MarksInv(contested)
    <3>1. ASSUME NEW o \in Objects, NEW h \in Range(items[o]) PROVE contested[o] = {}
      OBVIOUS
    <3> QED BY <1>3, <3>1 DEF RootsInv, MarksInv
  <2>5. \A s \in Savers : GraphInv(save[s], object)
    BY <1>4, <1>5 DEF GraphInv
  <2>6. SupportInv(object, ledger, save, nextId)
    <3> SUFFICES ASSUME NEW r \in Objects, NEW k, Mentions(ledger[r], k)
                 PROVE  Known(k, nextId) /\ object[r].root = r /\ Claims(r, k, object, save)
      BY DEF SupportInv
    <3>1. object[r].key = k /\ object[r].root = r /\ Claims(r, k, object, save)
      <4>1. object[r].key = k
        BY <1>8 DEF Starts
      <4>2. Claims(r, object[r].key, object, save)
        BY OwnClaim
      <4> QED BY <1>3, <4>1, <4>2
    <3> QED BY <1>1, <3>1 DEF VInv, ClaimInv
  <2>7. \A h \in Objects : FaithInv(h, object, ledger, snapshot, backed, save, contested)
    <3> SUFFICES ASSUME NEW h \in Objects
                 PROVE  /\ Faithful(object[h], ledger[object[h].root], snapshot[h], backed)
                        /\ \A s \in Savers : \A e \in Range(save[s].old) : e[1] # h
      BY DEF FaithInv
    <3> QED BY <1>3, <1>6, <1>8 DEF Starts, Wrote
  <2>8. \A s \in Savers : \A h \in Objects : OwnInv(save[s], h, object, ledger, backed, contested)
    BY <1>4, <1>5, <1>6 DEF OwnInv, ShowsInv, HoldsInv, PassedInv, AsksInv
  <2> QED BY <2>1, <2>2, <2>3, <2>4, <2>5, <2>6, <2>7, <2>8 DEF LInv
<1>10. TInv
  <2>1. edits = 0 /\ edits \in 0 .. MaxEdits
    BY BoundsAssumption DEF BoundsAssumption
  <2>2. \A h \in Objects : ObjectIn(object[h], 0) /\ snapshot[h] \subseteq 0 .. 0
    BY <1>3 DEF ObjectIn
  <2>3. FieldsIn(ledger, 0)
    BY <1>4, <1>8 DEF FieldsIn, Starts
  <2>4. RowsIn(table, 0)
    BY <1>2 DEF RowsIn
  <2>5. CallIn(Idle, object, 0)
    BY <1>4 DEF CallIn, RowsIn, EntriesIn, CommandIn, ReadyIn, StageIn, Stages
  <2> QED BY <1>5, <2>1, <2>2, <2>3, <2>4, <2>5 DEF TInv
<1> QED BY <1>9, <1>10

-----------------------------------------------------------------------------
(* Values: what a ledger has comes from edits *)

ValueIn(f, n) == "val" \in DOMAIN f => f["val"] \in -n .. n
ChangesIn(l, n) == \A k \in DOMAIN l.changes : ValueIn(l.changes[k], n)

LEMMA FieldsChanges ==
  ASSUME NEW led, NEW n
  PROVE  /\ FieldsIn(led, n) <=> \A r \in Objects : ChangesIn(led[r], n)
         /\ \A l, k : ChangesIn(l, n) => ValueIn(Fields(l, k), n)
<1>1. ASSUME NEW l
      PROVE  ChangesIn(l, n) <=> \A k : ValueIn(Fields(l, k), n)
  <2>1. DOMAIN <<>> = {}
    OBVIOUS
  <2> QED BY <2>1 DEF ChangesIn, ValueIn, Fields
<1> QED BY <1>1 DEF FieldsIn, ValueIn

LEMMA SetFieldsIn ==
  ASSUME NEW l, IsLedger(l), NEW k, NEW values, NEW n, ChangesIn(l, n), ValueIn(values, n)
  PROVE  ChangesIn(SetFields(l, k, values), n)
<1> DEFINE fs == Updated(Fields(l, k), values)
           m == SetFields(l, k, values)
<1>1. ValueIn(Fields(l, k), n)
  BY FieldsChanges
<1>2. ValueIn(fs, n)
  BY <1>1 DEF ValueIn, Updated
<1>3. CASE DOMAIN values = {}
  BY <1>3 DEF SetFields
<1>4. CASE DOMAIN values # {}
  <2>1. m.changes = WithEntry(l.changes, k, fs)
    <3> HIDE DEF fs
    <3>1. m = [l EXCEPT !.changes = WithEntry(@, k, fs)]
      BY <1>4 DEF SetFields, fs
    <3> HIDE DEF m
    <3> QED BY <3>1 DEF IsLedger, LedgerFields
  <2> HIDE DEF m, fs
  <2>2. DOMAIN m.changes = DOMAIN l.changes \cup {k}
    BY <2>1 DEF WithEntry, Updated
  <2>3. m.changes[k] = fs /\ \A j \in DOMAIN l.changes \ {k} : m.changes[j] = l.changes[j]
    BY <2>1 DEF WithEntry, Updated
  <2>4. ChangesIn(m, n)
    BY <1>2, <2>2, <2>3 DEF ChangesIn
  <2> QED BY <2>4 DEF m
<1> QED BY <1>3, <1>4

LEMMA WithoutIn ==
  ASSUME NEW l, IsLedger(l), NEW k, NEW n, ChangesIn(l, n), NEW new, NEW deleted
  PROVE  /\ ChangesIn([l EXCEPT !.changes = Without(@, k)], n)
         /\ ChangesIn([l EXCEPT !.changes = Without(@, k), !.deleted = deleted], n)
         /\ ChangesIn([l EXCEPT !.changes = Without(@, k), !.new = new, !.deleted = deleted], n)
BY DEF ChangesIn, Without, IsLedger, LedgerFields

LEMMA DeletedIn ==
  ASSUME NEW l, IsLedger(l), NEW k, NEW n, ChangesIn(l, n)
  PROVE  ChangesIn(MarkAsDeleted(l, k), n)
BY WithoutIn DEF MarkAsDeleted

LEMMA MergeIn ==
  ASSUME NEW l, NEW m, IsLedger(l), IsLedger(m), NEW k, NEW n, ChangesIn(l, n), ChangesIn(m, n)
  PROVE  ChangesIn(MergeEntity(l, m, k), n)
<1> DEFINE a == SetFields(l, k, Fields(m, k))
           orig == IF k \in DOMAIN m.orig THEN WithEntry(a.orig, k, m.orig[k]) ELSE a.orig
           new == a.new \cup ({k} \cap m.new)
           b == [a EXCEPT !.orig = orig, !.new = new]
<1>1. ChangesIn(a, n) /\ IsLedger(a)
  <2>1. ValueIn(Fields(m, k), n)
    BY FieldsChanges
  <2> QED BY <2>1, SetFieldsIn, SetFieldsSays DEF Sets, Only
<1> HIDE DEF a
<1>2. ChangesIn(b, n) /\ IsLedger(b)
  <2> HIDE DEF orig, new
  <2> QED BY <1>1 DEF ChangesIn, IsLedger, LedgerFields
<1>3. MergeEntity(l, m, k) = IF k \in m.deleted THEN MarkAsDeleted(b, k) ELSE b
  <2>1. b = [a EXCEPT !.orig = IF k \in DOMAIN m.orig THEN WithEntry(@, k, m.orig[k]) ELSE @,
                      !.new = @ \cup ({k} \cap m.new)]
    OBVIOUS
  <2> QED BY <2>1 DEF MergeEntity, a
<1> HIDE DEF b
<1> QED BY <1>2, <1>3, DeletedIn

LEMMA RekeyIn ==
  ASSUME NEW l, IsLedger(l), NEW a, NEW b, NEW n, ChangesIn(l, n)
  PROVE  ChangesIn(Rekey(l, a, b), n)
<1>1. CASE a = b
  BY <1>1 DEF Rekey
<1>2. CASE a # b
  <2> DEFINE d == [l EXCEPT !.changes = Without(@, a)]
             e == SetFields(d, b, Fields(l, a))
             orig == IF a \in DOMAIN e.orig THEN WithEntry(Without(e.orig, a), b, e.orig[a]) ELSE e.orig
             new == IF a \in e.new THEN (e.new \ {a}) \cup {b} ELSE e.new
             deleted == IF a \in e.deleted THEN (e.deleted \ {a}) \cup {b} ELSE e.deleted
  <2>1. ChangesIn(d, n) /\ IsLedger(d)
    BY WithoutIn DEF IsLedger
  <2> HIDE DEF d
  <2>2. ChangesIn(e, n) /\ IsLedger(e)
    <3>1. ValueIn(Fields(l, a), n)
      BY FieldsChanges
    <3> QED BY <2>1, <3>1, SetFieldsIn, SetFieldsSays DEF Sets, Only
  <2>3. Rekey(l, a, b) = [e EXCEPT !.orig = orig, !.new = new, !.deleted = deleted]
    BY <1>2 DEF Rekey, d
  <2> HIDE DEF e, orig, new, deleted
  <2> QED BY <2>2, <2>3 DEF ChangesIn, IsLedger, LedgerFields
<1> QED BY <1>1, <1>2

LEMMA AcceptIn ==
  ASSUME NEW l, IsLedger(l), NEW k, NEW versions, NEW n, ChangesIn(l, n)
  PROVE  ChangesIn(AcceptCommittedVersion(ClearEntity(l, k), k, versions), n)
<1> DEFINE d == ClearEntity(l, k)
<1>1. ChangesIn(d, n) /\ IsLedger(d)
  BY DEF ClearEntity, ChangesIn, Without, IsLedger, LedgerFields
<1> HIDE DEF d
<1>2. ChangesIn(AcceptCommittedVersion(d, k, versions), n)
  BY <1>1 DEF AcceptCommittedVersion, ChangesIn, IsLedger, LedgerFields
<1> QED BY <1>2 DEF d

\* One ledger is replaced by one that holds what was edited.
LEMMA OneIn ==
  ASSUME NEW led, LedgersOK(led), NEW n, FieldsIn(led, n), NEW r, NEW l, ChangesIn(l, n)
  PROVE  FieldsIn([led EXCEPT ![r] = l], n)
<1>1. \A q \in Objects : ChangesIn(led[q], n)
  BY FieldsChanges
<1>2. \A q \in Objects : ChangesIn([led EXCEPT ![r] = l][q], n)
  BY <1>1 DEF LedgersOK
<1> QED BY <1>2, FieldsChanges

MemoryIn(m, n) ==
  n \in Int /\ MemoryOK(m) /\ FieldsIn(m.ledger, n) /\ \A h \in Objects : ObjectIn(m.object[h], n)

\* Attaching a graph keeps the values those of edits and the versions of objects.
LEMMA AttachedIn ==
  ASSUME NEW m, NEW n, MemoryIn(m, n), NEW hs \in Seq(Objects), NEW r \in Objects
  PROVE  /\ MemoryIn(AttachAll(m, hs, r), n)
         /\ \A h \in Objects : Same(m.object[h], AttachAll(m, hs, r).object[h])
<1> DEFINE N == Len(hs)
           p == AttachAll(m, hs, r)
<1>1. PICK f : /\ f[0] = m /\ \A i \in 1 .. N : f[i] = Attach(f[i - 1], hs[i], r)
               /\ AttachedLedger(m, hs, r) = f[N].ledger
  <2>1. Len(hs) \in Nat
    OBVIOUS
  <2> QED BY <2>1, AttachSteps
<1> DEFINE Good(i) == MemoryOK(f[i]) /\ FieldsIn(f[i].ledger, n)
<1>2. Good(0)
  BY <1>1 DEF MemoryIn
<1>3. ASSUME NEW i \in 1 .. N, Good(i - 1) PROVE Good(i)
  <2> DEFINE a == f[i - 1]
             b == f[i]
             h == hs[i]
             q == a.object[h].root
             k == a.object[h].key
  <2>1. h \in Objects /\ b = Attach(a, h, r)
    BY <1>1
  <2> HIDE DEF h
  <2>2. MemoryOK(a) /\ FieldsIn(a.ledger, n)
    BY <1>3
  <2> HIDE DEF a, b
  <2>3. Attaches(a, b, h, r)
    BY <2>1, <2>2, AttachOne
  <2>4. FieldsIn(b.ledger, n)
    <3>1. CASE q = r
      BY <2>2, <2>3, <3>1 DEF Attaches
    <3>2. CASE q # r
      <4>1. b.ledger = [a.ledger EXCEPT ![r] = MergeEntity(a.ledger[r], a.ledger[q], k)]
        BY <2>3, <3>2 DEF Attaches
      <4>2. /\ IsLedger(a.ledger[r]) /\ IsLedger(a.ledger[q]) /\ LedgersOK(a.ledger)
            /\ ChangesIn(a.ledger[r], n) /\ ChangesIn(a.ledger[q], n)
        BY <2>1, <2>2, FieldsChanges DEF MemoryOK, LedgersOK
      <4>3. ChangesIn(MergeEntity(a.ledger[r], a.ledger[q], k), n)
        BY <4>2, MergeIn
      <4> DEFINE led == a.ledger
                 l == MergeEntity(a.ledger[r], a.ledger[q], k)
      <4>4. LedgersOK(led) /\ FieldsIn(led, n) /\ ChangesIn(l, n) /\ b.ledger = [led EXCEPT ![r] = l]
        BY <2>2, <4>1, <4>2, <4>3
      <4> HIDE DEF led, l
      <4> QED BY <4>4, OneIn
    <3> QED BY <3>1, <3>2
  <2> QED BY <2>3, <2>4 DEF Attaches, b
<1>4. Good(N)
  <2> DEFINE S == {i \in 0 .. N : Good(i)}
  <2>1. 0 \in S /\ \A i \in 1 .. N : i - 1 \in S => i \in S
    <3> HIDE DEF Good
    <3> QED BY <1>2, <1>3
  <2>2. N \in Nat
    OBVIOUS
  <2>3. 0 .. N \subseteq S
    <3> HIDE DEF S, N
    <3> QED BY <2>1, <2>2, Induct
  <2> HIDE DEF Good
  <2> QED BY <2>2, <2>3
<1>5. LedgersOK(p.ledger) /\ FieldsIn(p.ledger, n) /\ DOMAIN p = {"object", "ledger"}
      /\ p.object = [h \in Objects |-> IF h \in Range(hs) THEN [m.object[h] EXCEPT !.root = r] ELSE m.object[h]]
  <2> HIDE DEF N
  <2> QED BY <1>1, <1>4 DEF AttachAll, MemoryOK
<1> HIDE DEF p, Good, N
<1>6. \A h \in Objects : IsObject(m.object[h]) /\ m.object[h].root \in Objects /\ ObjectIn(m.object[h], n)
  BY DEF MemoryIn, MemoryOK, ObjectsOK
<1>7. \A h \in Objects : p.object[h] = m.object[h] \/ p.object[h] = [m.object[h] EXCEPT !.root = r]
  BY <1>5
<1>8. \A h \in Objects : Same(m.object[h], p.object[h]) /\ IsObject(p.object[h]) /\ p.object[h].root \in Objects
  BY <1>6, <1>7 DEF Same, IsObject, ObjectFields
<1>9. \A h \in Objects : ObjectIn(p.object[h], n)
  BY <1>6, <1>8 DEF ObjectIn, Same
<1> QED BY <1>5, <1>8, <1>9 DEF MemoryIn, MemoryOK, ObjectsOK, p

LEMMA FixedIn ==
  ASSUME NEW fs, NEW n \in Int, ValueIn(fs, n)
  PROVE  ValueIn(Fixed(fs), n)
<1> SUFFICES ASSUME "val" \in DOMAIN Fixed(fs) PROVE Fixed(fs)["val"] \in -n .. n
  BY DEF ValueIn
<1>1. "val" \in DOMAIN fs /\ Fixed(fs)["val"] = Normal(fs["val"])
  BY CheckersAssumption DEF Fixed
<1>2. fs["val"] \in -n .. n
  BY <1>1 DEF ValueIn
<1> DEFINE v == fs["val"]
<1>3. Normal(v) = v \/ (v \in Unfit /\ Normal(v) = -v)
  <2> HIDE DEF v
  <2> QED BY DEF Normal
<1>4. v \in Unfit => v \in Nat
  BY CheckersAssumption
<1> HIDE DEF v
<1>5. v \in Nat /\ v \in -n .. n => -v \in -n .. n
  OBVIOUS
<1> QED BY <1>1, <1>2, <1>3, <1>4, <1>5 DEF v

LEMMA CommandValues ==
  ASSUME NEW m, NEW n, MemoryIn(m, n), NEW h \in Objects
  PROVE  ValueIn(Command(m, h).values, n)
<1> DEFINE o == m.object[h]
<1>1. /\ n \in Int /\ o.val \in -n .. n /\ o.root \in Objects /\ o.action \in Actions
      /\ ChangesIn(m.ledger[o.root], n)
  BY FieldsChanges DEF MemoryIn, MemoryOK, ObjectsOK, IsObject, ObjectIn
<1>2. ValueIn(Fields(m.ledger[o.root], o.key), n)
  BY <1>1, FieldsChanges
<1> HIDE DEF o
<1>3. Command(m, h).values = CASE o.action = "Create" -> Fixed([f \in {"val"} |-> o.val])
                               [] o.action = "Update" -> Fixed(Fields(m.ledger[o.root], o.key))
                               [] OTHER -> <<>>
  BY DEF Command, o
<1>4. CASE o.action = "Create"
  <2>1. ValueIn([f \in {"val"} |-> o.val], n)
    BY <1>1 DEF ValueIn
  <2> QED BY <1>1, <1>3, <1>4, <2>1, FixedIn
<1>5. CASE o.action = "Update"
  BY <1>1, <1>2, <1>3, <1>5, FixedIn
<1>6. CASE o.action = "Delete"
  <2>1. DOMAIN <<>> = {}
    OBVIOUS
  <2> QED BY <1>3, <1>6, <2>1 DEF ValueIn
<1> QED BY <1>1, <1>4, <1>5, <1>6 DEF Actions

LEMMA CheckIn ==
  ASSUME NEW m, NEW n, MemoryIn(m, n), NEW h \in Objects
  PROVE  MemoryIn(Check(m, h), n) /\ Check(m, h).object = m.object
<1> DEFINE r == m.object[h].root
           k == m.object[h].key
           values == Command(m, h).values
           p == Check(m, h)
<1>1. Checks(m, p, h)
  BY CheckOne DEF MemoryIn
<1>2. /\ r \in Objects /\ LedgersOK(m.ledger) /\ IsLedger(m.ledger[r]) /\ ChangesIn(m.ledger[r], n)
      /\ FieldsIn(m.ledger, n) /\ ValueIn(values, n) /\ DOMAIN m = {"object", "ledger"}
  BY FieldsChanges, CommandValues DEF MemoryIn, MemoryOK, LedgersOK
<1> HIDE DEF values
<1>3. ChangesIn(SetFields(m.ledger[r], k, values), n)
  BY <1>2, SetFieldsIn
<1>4. p.ledger = m.ledger \/ p.ledger = [m.ledger EXCEPT ![r] = SetFields(m.ledger[r], k, values)]
  BY <1>2 DEF Check, values
<1> HIDE DEF p, r, k
<1>5. FieldsIn(p.ledger, n)
  BY <1>2, <1>3, <1>4, OneIn
<1> QED BY <1>1, <1>5 DEF Checks, MemoryIn, p

LEMMA CheckedIn ==
  ASSUME NEW m, NEW n, MemoryIn(m, n), NEW hs \in Seq(Objects)
  PROVE  MemoryIn([m EXCEPT !.ledger = CheckedLedger(m, hs)], n)
<1> DEFINE N == Len(hs)
<1>1. PICK f : /\ f[0] = m /\ \A i \in 1 .. N : f[i] = Check(f[i - 1], hs[i])
               /\ CheckedLedger(m, hs) = f[N].ledger
  <2>1. Len(hs) \in Nat
    OBVIOUS
  <2> QED BY <2>1, CheckSteps
<1> DEFINE Good(i) == MemoryIn(f[i], n)
<1>2. Good(0)
  BY <1>1
<1>3. ASSUME NEW i \in 1 .. N, Good(i - 1) PROVE Good(i)
  <2>1. hs[i] \in Objects
    OBVIOUS
  <2> QED BY <1>1, <1>3, <2>1, CheckIn
<1>4. Good(N)
  <2> DEFINE S == {i \in 0 .. N : Good(i)}
  <2>1. 0 \in S /\ \A i \in 1 .. N : i - 1 \in S => i \in S
    <3> HIDE DEF Good
    <3> QED BY <1>2, <1>3
  <2>2. N \in Nat
    OBVIOUS
  <2>3. 0 .. N \subseteq S
    <3> HIDE DEF S, N
    <3> QED BY <2>1, <2>2, Induct
  <2> HIDE DEF Good
  <2> QED BY <2>2, <2>3
<1> DEFINE led == CheckedLedger(m, hs)
           p == [m EXCEPT !.ledger = led]
<1> HIDE DEF N
<1>5. LedgersOK(led) /\ FieldsIn(led, n)
  BY <1>1, <1>4 DEF MemoryIn, MemoryOK
<1> HIDE DEF led, Good
<1>6. DOMAIN p = {"object", "ledger"} /\ p.object = m.object /\ p.ledger = led
  BY DEF MemoryIn, MemoryOK
<1> HIDE DEF p
<1>7. MemoryIn(p, n)
  BY <1>5, <1>6 DEF MemoryIn, MemoryOK
<1> QED BY <1>7 DEF p, led

LEMMA SettledIn ==
  ASSUME NEW n, LedgersOK(ledger), FieldsIn(ledger, n), NEW written, written \in Seq(Range(written)),
         \A w \in Range(written) : Root(w[1]) \in Objects
  PROVE  FieldsIn(Settled(written), n)
<1> DEFINE N == Len(written)
<1>1. PICK f : /\ f[0] = ledger /\ \A i \in 1 .. N : f[i] = CommitEntity(f[i - 1], written[i])
               /\ Settled(written) = f[N]
  <2>1. Len(written) \in Nat
    OBVIOUS
  <2> QED BY <2>1, SettleSteps
<1> DEFINE Good(i) == LedgersOK(f[i]) /\ FieldsIn(f[i], n)
<1>2. Good(0)
  BY <1>1
<1>3. ASSUME NEW i \in 1 .. N, Good(i - 1) PROVE Good(i)
  <2> DEFINE a == f[i - 1]
             b == f[i]
             w == written[i]
             r == Root(w[1])
             l == AcceptCommittedVersion(ClearEntity(a[r], w[2]), w[2], object[w[1]].ver)
  <2>1. r \in Objects
    <3>1. w \in Range(written)
      BY DEF Range
    <3> QED BY <3>1
  <2>2. b = [a EXCEPT ![r] = l]
    <3>1. b = CommitEntity(a, w)
      BY <1>1
    <3> HIDE DEF a, b, w
    <3> QED BY <3>1 DEF CommitEntity
  <2>3. LedgersOK(a) /\ FieldsIn(a, n)
    BY <1>3
  <2> HIDE DEF a, b, w, r
  <2>4. IsLedger(a[r]) /\ ChangesIn(a[r], n)
    BY <2>1, <2>3, FieldsChanges DEF LedgersOK
  <2>5. ChangesIn(l, n) /\ IsLedger(l)
    BY <2>4, AcceptIn, AcceptSays DEF Accepts, Only
  <2> HIDE DEF l
  <2>6. LedgersOK(b) /\ FieldsIn(b, n)
    BY <2>2, <2>3, <2>5, OneIn DEF LedgersOK
  <2> QED BY <2>6 DEF b
<1>4. Good(N)
  <2> DEFINE S == {i \in 0 .. N : Good(i)}
  <2>1. 0 \in S /\ \A i \in 1 .. N : i - 1 \in S => i \in S
    <3> HIDE DEF Good
    <3> QED BY <1>2, <1>3
  <2>2. N \in Nat
    OBVIOUS
  <2>3. 0 .. N \subseteq S
    <3> HIDE DEF S, N
    <3> QED BY <2>1, <2>2, Induct
  <2> HIDE DEF Good
  <2> QED BY <2>2, <2>3
<1> QED BY <1>1, <1>4

LEMMA RestoredIn ==
  ASSUME NEW n, MemoryOK(Memory), FieldsIn(ledger, n), NEW old, old \in Seq(Range(old)),
         \A e \in Range(old) : e[1] \in Objects /\ IsObject(e[2])
  PROVE  FieldsIn(RestoredLedger(old), n)
<1> DEFINE N == Len(old)
<1>1. PICK f : /\ f[0] = Memory /\ \A i \in 1 .. N : f[i] = Restored(f[i - 1], Reverse(old)[i])
               /\ RestoredLedger(old) = f[N].ledger
  <2>1. Len(old) \in Nat
    OBVIOUS
  <2> QED BY <2>1, RestoreSteps
<1> DEFINE Good(i) == MemoryOK(f[i]) /\ FieldsIn(f[i].ledger, n)
<1>2. Good(0)
  BY <1>1 DEF Memory
<1>3. ASSUME NEW i \in 1 .. N, Good(i - 1) PROVE Good(i)
  <2> DEFINE p == f[i - 1]
             q == f[i]
             e == Reverse(old)[i]
             g == e[1]
             o == p.object[g]
             c == Earlier(o, e)
             l == Rekey(p.ledger[o.root], o.key, c.key)
  <2>1. e \in Range(old)
    <3>1. N - i + 1 \in 1 .. N /\ DOMAIN old = 1 .. N
      OBVIOUS
    <3>2. e = old[N - i + 1]
      BY DEF Reverse
    <3> HIDE DEF e, N
    <3> QED BY <3>1, <3>2 DEF Range
  <2>2. q = Restored(p, e)
    BY <1>1
  <2>3. MemoryOK(p) /\ FieldsIn(p.ledger, n)
    BY <1>3
  <2> HIDE DEF p, q, e
  <2>4. g \in Objects /\ IsObject(e[2])
    BY <2>1
  <2>5. o.root \in Objects
    BY <2>3, <2>4 DEF MemoryOK
  <2>6. IsObject(c) /\ c.root = o.root
    BY <2>4 DEF Earlier, IsObject, ObjectFields
  <2>7. IsLedger(p.ledger[o.root]) /\ ChangesIn(p.ledger[o.root], n) /\ LedgersOK(p.ledger)
    BY <2>3, <2>5, FieldsChanges DEF MemoryOK, LedgersOK
  <2>8. ChangesIn(l, n) /\ IsLedger(l)
    <3> HIDE DEF c, o
    <3> QED BY <2>7, RekeyIn, RekeySays DEF Moved, Only
  <2>9. DOMAIN q = {"object", "ledger"} /\ q.object = [p.object EXCEPT ![g] = c]
        /\ q.ledger = [p.ledger EXCEPT ![o.root] = l]
    <3>1. q = [p EXCEPT !.object[g] = c, !.ledger[o.root] = Rekey(@, o.key, c.key)]
      BY <2>2 DEF Restored
    <3>2. DOMAIN p = {"object", "ledger"}
      BY <2>3 DEF MemoryOK
    <3> HIDE DEF c, o, g
    <3> QED BY <3>1, <3>2
  <2> HIDE DEF c, l, g
  <2>10. \A h \in Objects : q.object[h] = IF h = g THEN c ELSE p.object[h]
    BY <2>3, <2>9 DEF MemoryOK, ObjectsOK
  <2>11. ObjectsOK(q.object) /\ \A h \in Objects : q.object[h].root \in Objects
    BY <2>3, <2>5, <2>6, <2>9, <2>10 DEF MemoryOK, ObjectsOK
  <2> HIDE DEF o
  <2>12. LedgersOK(q.ledger) /\ FieldsIn(q.ledger, n)
    <3> DEFINE led == p.ledger
               r == o.root
    <3>1. LedgersOK(led) /\ FieldsIn(led, n) /\ q.ledger = [led EXCEPT ![r] = l] /\ IsLedger(l)
          /\ ChangesIn(l, n)
      BY <2>3, <2>7, <2>8, <2>9
    <3> HIDE DEF led, r
    <3>2. FieldsIn(q.ledger, n)
      <4>1. FieldsIn([led EXCEPT ![r] = l], n)
        BY ONLY <3>1, OneIn
      <4> QED BY <3>1, <4>1
    <3> QED BY <3>1, <3>2 DEF LedgersOK
  <2> QED BY <2>9, <2>11, <2>12 DEF MemoryOK, q
<1>4. Good(N)
  <2> DEFINE S == {i \in 0 .. N : Good(i)}
  <2>1. 0 \in S /\ \A i \in 1 .. N : i - 1 \in S => i \in S
    <3> HIDE DEF Good
    <3> QED BY <1>2, <1>3
  <2>2. N \in Nat
    OBVIOUS
  <2>3. 0 .. N \subseteq S
    <3> HIDE DEF S, N
    <3> QED BY <2>1, <2>2, Induct
  <2> HIDE DEF Good
  <2> QED BY <2>2, <2>3
<1> QED BY <1>1, <1>4

\* From memory m call c goes on as d with memory p.
Proceeded(c, m, d, p, n) ==
  /\ MemoryIn(p, n) /\ \A h \in Objects : Same(m.object[h], p.object[h])
  /\ d.graph = c.graph /\ d.old = c.old /\ CommandIn(d, n)
  /\ \/ d.pc = "undo" /\ d.staged = <<>>
     \/ d.pc \in {"commit", "write"} /\ d.staged = c.staged

LEMMA ProceedIn ==
  ASSUME NEW c, DOMAIN c = SaveFields, NEW m, NEW n, MemoryIn(m, n), NEW todo \in Seq(Objects),
         m.object[Head(c.graph)].root \in Objects,
         \A h \in Range(todo) : Ready(m.object[h], h)
  PROVE  Proceeded(c, m, Proceed(c, m, todo).save, Proceed(c, m, todo).memory, n)
<1> DEFINE r == m.object[Head(c.graph)].root
           pending == {i \in 1 .. Len(todo) : Pending(AttachAll(m, SubSeq(todo, 1, i), r), todo[i])}
           k == IF pending = {} THEN Len(todo) ELSE Min(pending)
           reached == SubSeq(todo, 1, k)
           attached == Attachable(m, reached, r)
           after == AttachAll(m, attached, r)
           next == Proceed(c, m, todo)
           h == todo[k]
<1>1. next = CASE attached # reached -> [save |-> Failed(c), memory |-> after]
               [] attached = reached /\ pending = {} ->
                    [save |-> [c EXCEPT !.pc = "commit", !.todo = <<>>, !.command = NoCommand], memory |-> after]
               [] OTHER ->
                    [save |-> [c EXCEPT !.pc = "write", !.todo = SubSeq(todo, k, Len(todo)),
                                        !.command = Command(after, h)],
                     memory |-> Check(after, h)]
  BY DEF Proceed
<1>2. pending # {} => k \in 1 .. Len(todo)
  <2>1. pending \subseteq Nat /\ pending \subseteq 1 .. Len(todo)
    OBVIOUS
  <2> HIDE DEF pending
  <2> QED BY <2>1, MinLeast
<1>3. k \in 0 .. Len(todo)
  <2>1. Len(todo) \in Nat
    OBVIOUS
  <2> HIDE DEF pending
  <2> QED BY <1>2, <2>1
<1>4. MemoryIn(after, n) /\ \A g \in Objects : Same(m.object[g], after.object[g])
  <2> HIDE DEF k
  <2>1. reached \in Seq(Objects)
    BY <1>3, UpToPlace
  <2> HIDE DEF reached, r
  <2>2. attached \in Seq(Objects) /\ r \in Objects
    BY <2>1, AttachableFirst DEF r
  <2> HIDE DEF attached
  <2> QED BY <2>2, AttachedIn
<1> HIDE DEF pending, attached, reached, next, after
<1>5. CASE attached # reached
  <2>1. next.save = Failed(c) /\ next.memory = after
    BY <1>1, <1>5
  <2>2. /\ next.save.pc = "undo" /\ next.save.staged = <<>> /\ next.save.graph = c.graph
        /\ next.save.old = c.old
    BY <2>1 DEF Failed, SaveFields
  <2> QED BY <1>4, <2>1, <2>2 DEF Proceeded, CommandIn, next
<1>6. CASE attached = reached /\ pending = {}
  <2>1. /\ next.save = [c EXCEPT !.pc = "commit", !.todo = <<>>, !.command = NoCommand]
        /\ next.memory = after
    BY <1>1, <1>6
  <2>2. /\ next.save.pc = "commit" /\ next.save.staged = c.staged /\ next.save.graph = c.graph
        /\ next.save.old = c.old
    BY <2>1 DEF SaveFields
  <2> QED BY <1>4, <2>1, <2>2 DEF Proceeded, CommandIn, next
<1>7. CASE attached = reached /\ pending # {}
  <2>1. /\ next.save = [c EXCEPT !.pc = "write", !.todo = SubSeq(todo, k, Len(todo)),
                                 !.command = Command(after, h)]
        /\ next.memory = Check(after, h)
    BY <1>1, <1>7
  <2>2. h \in Objects /\ h \in Range(todo) /\ Head(SubSeq(todo, k, Len(todo))) = h
    <3>1. k \in 1 .. Len(todo)
      BY <1>2, <1>7
    <3> HIDE DEF k
    <3>2. k \in DOMAIN todo
      BY <3>1
    <3> QED BY <3>1, <3>2, FromPlace DEF Range
  <2> HIDE DEF k, h
  <2> DEFINE o == after.object[h]
             command == Command(after, h)
  <2>3. /\ next.save.pc = "write" /\ next.save.staged = c.staged /\ next.save.graph = c.graph
        /\ next.save.old = c.old /\ next.save.command = command /\ Head(next.save.todo) = h
    BY <2>1, <2>2 DEF SaveFields
  <2>4. MemoryIn(Check(after, h), n) /\ Check(after, h).object = after.object
    BY <1>4, <2>2, CheckIn
  <2>5. ValueIn(command.values, n)
    BY <1>4, <2>2, CommandValues
  <2>6. command.kind = "Create" => "val" \in DOMAIN command.values /\ command.key # h
    <3> SUFFICES ASSUME command.kind = "Create" PROVE "val" \in DOMAIN command.values /\ command.key # h
      OBVIOUS
    <3>1. o.action = "Create" /\ command.key = o.key /\ command.values = Fixed([f \in {"val"} |-> o.val])
      BY DEF Command
    <3>2. Ready(o, h)
      BY <1>4, <2>2 DEF Ready, Same
    <3>3. "val" \in DOMAIN Fixed([f \in {"val"} |-> o.val])
      BY DEF Fixed
    <3> HIDE DEF command, o
    <3> QED BY <3>1, <3>2, <3>3 DEF Ready
  <2> HIDE DEF command
  <2> QED BY <1>4, <2>1, <2>3, <2>4, <2>5, <2>6 DEF Proceeded, CommandIn, ValueIn, next
<1> QED BY <1>5, <1>6, <1>7

\* A step of call s that keeps the values of edits.
LEMMA ValuesStep ==
  ASSUME IInv, TInv, NEW s \in Savers, NEW c, save' = [save EXCEPT ![s] = c], edits' = edits,
         \A h \in Objects : /\ ObjectIn(object'[h], edits) /\ snapshot'[h] \subseteq -edits .. edits
                            /\ Ready(object[h], h) => Ready(object'[h], h),
         FieldsIn(ledger', edits), RowsIn(table', edits), CallIn(c, object', edits)
  PROVE  TInv'
<1>1. ASSUME NEW t \in Savers \ {s}
      PROVE  CallIn(save[t], object', edits)
  <2>1. CallIn(save[t], object, edits) /\ Range(save[t].graph) \subseteq Objects
    BY CallGraph DEF TInv
  <2> QED BY <2>1 DEF CallIn, ReadyIn
<1>2. \A t \in Savers : save'[t] = IF t = s THEN c ELSE save[t]
  BY DEF IInv
<1> QED BY <1>1, <1>2 DEF TInv

LEMMA IdleIn == \A obj, n : CallIn(Idle, obj, n)
<1>1. DOMAIN <<>> = {} /\ Range(<<>>) = {}
  BY DEF Range
<1> QED BY <1>1 DEF CallIn, RowsIn, EntriesIn, CommandIn, ReadyIn, StageIn, Stages, Idle

LEMMA EditValues ==
  ASSUME IInv, LInv, TInv, NEW h \in Objects, Edit(h) \/ MarkForDeletion(h)
  PROVE  TInv'
<1> DEFINE r == object[h].root
           k == object[h].key
<1>1. /\ edits < MaxEdits /\ edits' = edits + 1 /\ snapshot' = snapshot /\ table' = table /\ save' = save
      /\ \/ /\ object' = [object EXCEPT ![h].val = edits']
            /\ ledger' = [ledger EXCEPT ![r] = SetFields(ledger[r], k, [f \in {"val"} |-> edits'])]
         \/ /\ object' = [object EXCEPT ![h].action = "Delete"]
            /\ ledger' = [ledger EXCEPT ![r] = MarkAsDeleted(ledger[r], k)]
  BY DEF Edit, MarkForDeletion, SetField, Root, Key
<1>2. /\ edits \in Nat /\ edits' \in 0 .. MaxEdits /\ edits' \in -edits' .. edits'
      /\ \A v : v \in -edits .. edits => v \in -edits' .. edits'
  BY <1>1, BoundsAssumption DEF TInv, BoundsAssumption
<1>3. r \in Objects /\ LedgersOK(ledger) /\ IsLedger(ledger[r])
  BY RootOwn DEF LInv, LedgersOK
<1>4. FieldsIn(ledger, edits')
  BY <1>2 DEF TInv, FieldsIn
<1>5. \A g \in Objects : ObjectIn(object[g], edits') /\ snapshot[g] \subseteq -edits' .. edits'
  BY <1>2 DEF TInv, ObjectIn
<1>6. FieldsIn(ledger', edits')
  <2> HIDE DEF k
  <2>1. ChangesIn(ledger[r], edits')
    BY <1>3, <1>4, FieldsChanges
  <2>2. ValueIn([f \in {"val"} |-> edits'], edits')
    BY <1>2 DEF ValueIn
  <2>3. /\ ChangesIn(SetFields(ledger[r], k, [f \in {"val"} |-> edits']), edits')
        /\ ChangesIn(MarkAsDeleted(ledger[r], k), edits')
    BY <1>3, <2>1, <2>2, SetFieldsIn, DeletedIn
  <2> DEFINE l == SetFields(ledger[r], k, [f \in {"val"} |-> edits'])
             m == MarkAsDeleted(ledger[r], k)
  <2>4. ChangesIn(l, edits') /\ ChangesIn(m, edits')
    BY <2>3
  <2>5. ledger' = [ledger EXCEPT ![r] = l] \/ ledger' = [ledger EXCEPT ![r] = m]
    BY <1>1
  <2> HIDE DEF l, m, r
  <2>6. FieldsIn([ledger EXCEPT ![r] = l], edits')
    BY <1>3, <1>4, <2>4, OneIn
  <2>7. FieldsIn([ledger EXCEPT ![r] = m], edits')
    BY <1>3, <1>4, <2>4, OneIn
  <2> QED BY <2>5, <2>6, <2>7
<1>7. \A g \in Objects : ObjectIn(object'[g], edits') /\ (Ready(object[g], g) => Ready(object'[g], g))
  <2>1. \A g \in Objects : g # h => object'[g] = object[g]
    BY <1>1 DEF IInv, ObjectsOK
  <2>2. /\ object'[h].key = k /\ object'[h].ver = object[h].ver
        /\ object'[h].val \in {edits', object[h].val} /\ object'[h].action \in {"Delete", object[h].action}
    BY <1>1 DEF IInv, ObjectsOK, IsObject, ObjectFields
  <2>3. edits' \in -edits' .. edits'
    BY <1>2
  <2>4. ObjectIn(object'[h], edits') /\ (Ready(object[h], h) => Ready(object'[h], h))
    BY <1>5, <2>2, <2>3 DEF ObjectIn, Ready
  <2> QED BY <1>5, <2>1, <2>4
<1>8. RowsIn(table, edits')
  BY <1>2 DEF TInv, RowsIn
<1>9. ASSUME NEW s \in Savers PROVE CallIn(save[s], object', edits')
  <2>1. CallIn(save[s], object, edits) /\ \A g \in Range(save[s].graph) : g \in Objects
    BY CallGraph DEF TInv
  <2>2. RowsIn(save[s].staged, edits')
    BY <1>2, <2>1 DEF CallIn, RowsIn
  <2>3. EntriesIn(save[s], edits')
    BY <1>2, <2>1 DEF CallIn, EntriesIn, ObjectIn
  <2>4. CommandIn(save[s], edits')
    BY <1>2, <2>1 DEF CallIn, CommandIn
  <2>5. ReadyIn(save[s], object')
    BY <1>7, <2>1 DEF CallIn, ReadyIn
  <2> QED BY <2>1, <2>2, <2>3, <2>4, <2>5 DEF CallIn
<1> QED BY <1>1, <1>2, <1>5, <1>6, <1>7, <1>8, <1>9 DEF TInv

LEMMA RecoverValues ==
  ASSUME IInv, TInv, NEW k \in Ids, Recover(k)
  PROVE  TInv'
<1>1. /\ k \in DOMAIN table /\ table' = [table EXCEPT ![k].ver = 1 - @]
      /\ UNCHANGED <<object, ledger, snapshot, save, edits>>
  BY DEF Recover, RecoverRow, memory
<1>2. DOMAIN table' = DOMAIN table /\ \A j \in DOMAIN table : table'[j].val = table[j].val
  BY <1>1 DEF IInv, RowsOK, RowOK, RowFields
<1>3. RowsIn(table', edits)
  BY <1>2 DEF TInv, RowsIn
<1> QED BY <1>1, <1>3 DEF TInv

\* Steps that leave objects and ledgers alone.
LEMMA StandValues ==
  ASSUME IInv, TInv, NEW s \in Savers, NEW c, save' = [save EXCEPT ![s] = c],
         UNCHANGED <<object, ledger, snapshot, edits>>, RowsIn(table', edits), CallIn(c, object, edits)
  PROVE  TInv'
<1>1. \A h \in Objects : /\ ObjectIn(object'[h], edits) /\ snapshot'[h] \subseteq -edits .. edits
                         /\ Ready(object[h], h) => Ready(object'[h], h)
  BY DEF TInv
<1>2. FieldsIn(ledger', edits) /\ CallIn(c, object', edits)
  BY DEF TInv
<1> QED BY <1>1, <1>2, ValuesStep

LEMMA SaveValues ==
  ASSUME IInv, TInv, NEW s \in Savers, NEW h \in Objects, Save(s, h)
  PROVE  TInv'
<1> DEFINE c == [Idle EXCEPT !.pc = "reserve", !.graph = Graph(h), !.todo = Graph(h)]
<1>1. save' = [save EXCEPT ![s] = c] /\ UNCHANGED <<object, ledger, snapshot, edits, table>>
  BY DEF Save, memory
<1>2. /\ c.pc = "reserve" /\ c.graph = c.todo /\ c.staged = <<>> /\ c.old = <<>>
      /\ DOMAIN <<>> = {} /\ Range(<<>>) = {}
  BY DEF Idle, Range
<1> HIDE DEF c
<1>3. CallIn(c, object, edits)
  BY <1>2 DEF CallIn, RowsIn, EntriesIn, CommandIn, ReadyIn, StageIn, Stages
<1> QED BY <1>1, <1>3, StandValues DEF TInv

LEMMA FailedIn ==
  ASSUME NEW c, DOMAIN c = SaveFields, NEW obj, NEW n, EntriesIn(c, n)
  PROVE  CallIn(Failed(c), obj, n)
<1> DEFINE d == Failed(c)
<1>1. d.pc = "undo" /\ d.staged = <<>> /\ d.old = c.old /\ DOMAIN <<>> = {}
  BY DEF Failed, SaveFields
<1> HIDE DEF d
<1>2. CallIn(d, obj, n)
  BY <1>1 DEF CallIn, RowsIn, EntriesIn, CommandIn, ReadyIn, StageIn, Stages
<1> QED BY <1>2 DEF d

LEMMA GiveUpValues ==
  ASSUME IInv, TInv, NEW s \in Savers, GiveUp(s) \/ WriteFails(s)
  PROVE  TInv'
<1>1. /\ UNCHANGED <<object, ledger, snapshot, edits, table>>
      /\ save' = [save EXCEPT ![s] = Idle] \/ save' = [save EXCEPT ![s] = Failed(save[s])]
  BY DEF GiveUp, WriteFails, memory
<1>2. CallIn(Idle, object, edits) /\ CallIn(Failed(save[s]), object, edits)
  BY IdleIn, FailedIn, CallGraph DEF TInv, CallIn
<1>3. RowsIn(table', edits)
  BY <1>1 DEF TInv
<1> QED BY <1>1, <1>2, <1>3, StandValues

LEMMA EndValues ==
  ASSUME IInv, TInv, NEW s \in Savers, Commit(s) \/ CommitRaises(s)
  PROVE  TInv'
<1>1. PICK pc \in {"settle", "undo"} :
        save' = [save EXCEPT ![s] = [save[s] EXCEPT !.pc = pc, !.staged = <<>>, !.back = {}]]
  BY CallGraph DEF Commit, CommitRaises, IInv, SaveFields
<1> DEFINE c == [save[s] EXCEPT !.pc = pc, !.staged = <<>>, !.back = {}]
<1>2. UNCHANGED <<object, ledger, snapshot, edits>> /\ (table' = View(s) \/ table' = table)
  BY DEF Commit, CommitRaises, Apply, memory
<1>3. RowsIn(save[s].staged, edits) /\ RowsIn(table, edits) /\ EntriesIn(save[s], edits)
  BY DEF TInv, CallIn
<1>4. RowsIn(View(s), edits)
  BY <1>3 DEF View, Over, RowsIn
<1>5. c.pc = pc /\ c.staged = <<>> /\ c.old = save[s].old /\ DOMAIN <<>> = {}
  BY CallGraph DEF SaveFields
<1>6. save' = [save EXCEPT ![s] = c]
  BY <1>1
<1> HIDE DEF c
<1>7. CallIn(c, object, edits)
  BY <1>3, <1>5 DEF CallIn, RowsIn, EntriesIn, CommandIn, ReadyIn, StageIn, Stages
<1>8. RowsIn(table', edits)
  BY <1>2, <1>3, <1>4
<1> QED BY <1>2, <1>6, <1>7, <1>8, StandValues

LEMMA MemoryNow ==
  ASSUME IInv, LInv, TInv
  PROVE  MemoryIn(Memory, edits) /\ Memory.object = object /\ Memory.ledger = ledger
<1>1. edits \in Int
  BY DEF TInv
<1> QED BY <1>1, MemoryIs DEF MemoryIn, TInv

\* A step of call s with which the memory becomes m, where the objects show the same.
LEMMA MemoryValues ==
  ASSUME IInv, TInv, NEW s \in Savers, NEW c, save' = [save EXCEPT ![s] = c],
         NEW m, MemoryIn(m, edits), \A h \in Objects : Same(object[h], m.object[h]),
         object' = m.object, ledger' = m.ledger, UNCHANGED <<snapshot, table, edits>>,
         CallIn(c, object, edits), Range(c.graph) \subseteq Objects
  PROVE  TInv'
<1>1. \A h \in Objects : /\ ObjectIn(object'[h], edits) /\ snapshot'[h] \subseteq -edits .. edits
                         /\ Ready(object[h], h) => Ready(object'[h], h)
  BY DEF TInv, MemoryIn, Same, Ready
<1>2. FieldsIn(ledger', edits) /\ RowsIn(table', edits)
  BY DEF TInv, MemoryIn
<1>3. ReadyIn(c, object')
  BY <1>1 DEF CallIn, ReadyIn
<1>4. CallIn(c, object', edits)
  BY <1>3 DEF CallIn
<1> QED BY <1>1, <1>2, <1>4, ValuesStep

LEMMA ReserveValues ==
  ASSUME IInv, VInv, LInv, TInv, NEW s \in Savers, Reserve(s)
  PROVE  TInv'
<1> DEFINE todo == save[s].todo
           r == object[Head(save[s].graph)].root
           waiting == {i \in 1 .. Len(todo) : NeedsId(todo[i])}
           n == IF waiting = {} THEN Len(todo) ELSE Min(waiting)
           reached == SubSeq(todo, 1, n)
           attached == Attachable(Memory, reached, r)
           begins == [save[s] EXCEPT !.pc = "begin", !.todo = <<>>]
           waits == [save[s] EXCEPT !.pc = "allocate", !.todo = SubSeq(todo, n, Len(todo))]
           c == IF attached # reached THEN Idle ELSE IF waiting = {} THEN begins ELSE waits
           m == AttachAll(Memory, attached, r)
<1>1. /\ save[s].pc = "reserve" /\ save' = [save EXCEPT ![s] = c]
      /\ UNCHANGED <<snapshot, table, edits>>
      /\ object' = m.object /\ ledger' = m.ledger
  BY DEF Reserve, Remember, Root
<1>2. /\ DOMAIN save[s] = SaveFields /\ Range(save[s].graph) \subseteq Objects
      /\ todo \in Seq(Objects) /\ Range(todo) \subseteq Range(save[s].graph)
      /\ Range(todo) = {todo[i] : i \in 1 .. Len(todo)}
  <2>1. /\ DOMAIN save[s] = SaveFields /\ Range(save[s].graph) \subseteq Objects
        /\ todo \in Seq(Objects) /\ Range(todo) \subseteq Range(save[s].graph)
    BY CallGraph
  <2>2. DOMAIN todo = 1 .. Len(todo)
    BY <2>1
  <2> QED BY <2>1, <2>2 DEF Range
<1>3. waiting # {} => n \in 1 .. Len(todo) /\ NeedsId(todo[n]) /\ \A i \in waiting : n <= i
  <2>1. waiting \subseteq Nat
    BY <1>2
  <2>2. waiting # {} => n \in waiting /\ \A i \in waiting : n <= i
    <3> HIDE DEF waiting
    <3> QED BY <2>1, MinLeast
  <2> HIDE DEF n
  <2> QED BY <2>2
<1>4. n \in 0 .. Len(todo)
  <2>1. Len(todo) \in Nat
    BY <1>2
  <2>2. waiting = {} => n = Len(todo)
    OBVIOUS
  <2> HIDE DEF n, waiting
  <2> QED BY <1>3, <2>1, <2>2
<1>5. reached \in Seq(Objects) /\ Range(reached) \subseteq Range(todo)
  <2> HIDE DEF n
  <2> QED BY <1>2, <1>4, UpToPlace
<1>6. attached \in Seq(Objects) /\ r \in Objects
  <2>1. r \in Objects
    BY <1>1, GraphRoots
  <2> HIDE DEF reached, r
  <2> QED BY <1>5, <2>1, AttachableFirst
<1>7. MemoryIn(m, edits) /\ \A h \in Objects : Same(object[h], m.object[h])
  <2> HIDE DEF attached, r
  <2> QED BY <1>6, MemoryNow, AttachedIn
<1>8. /\ RowsIn(save[s].staged, edits) /\ EntriesIn(save[s], edits) /\ save[s].staged = <<>>
      /\ \A h \in Range(save[s].graph) : h \in Range(todo) \/ Ready(object[h], h)
  BY <1>1 DEF TInv, CallIn, ReadyIn, StageIn
<1>9. waiting = {} => CallIn(begins, object, edits) /\ begins.graph = save[s].graph
  <2> SUFFICES ASSUME waiting = {} PROVE CallIn(begins, object, edits) /\ begins.graph = save[s].graph
    OBVIOUS
  <2>1. /\ begins.pc = "begin" /\ begins.graph = save[s].graph /\ begins.staged = save[s].staged
        /\ begins.old = save[s].old
    BY <1>2 DEF SaveFields
  <2>2. \A h \in Range(todo) : Ready(object[h], h)
    BY <1>2 DEF NeedsId, Key, Ready
  <2> HIDE DEF begins, waiting
  <2> QED BY <1>8, <2>1, <2>2 DEF CallIn, EntriesIn, CommandIn, ReadyIn, StageIn, Stages
<1>10. waiting # {} => CallIn(waits, object, edits) /\ waits.graph = save[s].graph
  <2> SUFFICES ASSUME waiting # {} PROVE CallIn(waits, object, edits) /\ waits.graph = save[s].graph
    OBVIOUS
  <2>1. /\ waits.pc = "allocate" /\ waits.graph = save[s].graph /\ waits.staged = save[s].staged
        /\ waits.old = save[s].old /\ waits.todo = SubSeq(todo, n, Len(todo))
    <3> HIDE DEF n
    <3> QED BY <1>2 DEF SaveFields
  <2>2. Range(SubSeq(todo, n, Len(todo))) = {todo[i] : i \in n .. Len(todo)}
    <3> HIDE DEF n, todo
    <3> QED BY <1>2, <1>3, FromPlace
  <2>3. \A i \in 1 .. Len(todo) : i \in n .. Len(todo) \/ ~ NeedsId(todo[i])
    <3>1. n \in Nat /\ Len(todo) \in Nat
      <4> HIDE DEF n
      <4> QED BY <1>2, <1>3
    <3>2. \A i \in 1 .. Len(todo) : NeedsId(todo[i]) => n <= i
      <4> HIDE DEF n
      <4> QED BY <1>3
    <3> HIDE DEF n, todo
    <3> QED BY <3>1, <3>2
  <2> HIDE DEF n, waits
  <2>4. \A h \in Range(todo) : h \in Range(waits.todo) \/ Ready(object[h], h)
    BY <1>2, <2>1, <2>2, <2>3 DEF NeedsId, Key, Ready
  <2> HIDE DEF waiting
  <2> QED BY <1>8, <2>1, <2>4 DEF CallIn, EntriesIn, CommandIn, ReadyIn, StageIn, Stages
<1>11. CallIn(c, object, edits) /\ Range(c.graph) \subseteq Objects
  <2>1. CallIn(Idle, object, edits) /\ Range(Idle.graph) = {}
    <3>1. CallIn(Idle, object, edits) /\ Idle.graph = <<>>
      BY IdleIn DEF Idle
    <3>2. Range(<<>>) = {}
      BY DEF Range
    <3> QED BY <3>1, <3>2
  <2> HIDE DEF attached, reached, waiting, begins, waits
  <2> QED BY <1>2, <1>9, <1>10, <2>1
<1> HIDE DEF c, m
<1> QED BY <1>1, <1>7, <1>11, MemoryValues

LEMMA AllocateValues ==
  ASSUME IInv, VInv, LInv, TInv, NEW s \in Savers, Allocate(s)
  PROVE  TInv'
<1> DEFINE h == Head(save[s].todo)
           c == [save[s] EXCEPT !.pc = "reserve", !.todo = Tail(@)]
           r == object[h].root
           l == SetField(Rekey(ledger[r], h, nextId), nextId, "id", nextId)
<1>1. /\ CallOK(save[s], object, contested) /\ DOMAIN save[s] = SaveFields
      /\ save[s].todo \in Seq(Objects) /\ Range(save[s].todo) \subseteq Range(save[s].graph)
      /\ Range(save[s].graph) \subseteq Objects
  BY CallGraph DEF IInv
<1>2. /\ save[s].pc = "allocate" /\ UNCHANGED <<snapshot, table, edits>> /\ nextId \in Ids
      /\ object' = [object EXCEPT ![h].key = nextId]
      /\ ledger' = [ledger EXCEPT ![r] = l]
  BY DEF Allocate, Root
<1>3. save' = [save EXCEPT ![s] = c]
  BY <1>1 DEF Allocate, SaveFields, IInv
<1>4. h \in Objects /\ Range(save[s].todo) = {h} \cup Range(Tail(save[s].todo))
  <2>1. save[s].todo # <<>>
    BY <1>1, <1>2 DEF CallOK, AllocateOK
  <2> QED BY <1>1, <2>1, HeadAndTail
<1>5. /\ c.pc = "reserve" /\ c.graph = save[s].graph /\ c.todo = Tail(save[s].todo)
      /\ c.old = save[s].old /\ c.staged = save[s].staged
  BY <1>1 DEF SaveFields
<1>6. r \in Objects /\ LedgersOK(ledger) /\ IsLedger(ledger[r]) /\ ChangesIn(ledger[r], edits)
  <2>1. r \in Objects /\ LedgersOK(ledger) /\ FieldsIn(ledger, edits)
    BY <1>4, RootOwn DEF LInv, TInv
  <2> QED BY <2>1, FieldsChanges DEF LedgersOK
<1> HIDE DEF h, c, r
<1>7. ChangesIn(l, edits)
  <2> DEFINE n == Rekey(ledger[r], h, nextId)
             values == [f \in {"id"} |-> nextId]
  <2>1. ChangesIn(n, edits) /\ IsLedger(n)
    BY <1>6, RekeyIn, RekeySays DEF Moved, Only
  <2>2. ValueIn(values, edits)
    BY DEF ValueIn
  <2>3. l = SetFields(n, nextId, values)
    BY DEF SetField
  <2> HIDE DEF n, values, l
  <2> QED BY <2>1, <2>2, <2>3, SetFieldsIn
<1>8. FieldsIn(ledger', edits)
  <2> HIDE DEF l
  <2> QED BY <1>2, <1>6, <1>7, OneIn DEF TInv
<1>9. \A g \in Objects : ObjectIn(object[g], edits) /\ snapshot[g] \subseteq -edits .. edits
  BY DEF TInv
<1>10. /\ \A g \in Objects \ {h} : object'[g] = object[g]
       /\ object'[h].key = nextId /\ object'[h].ver = object[h].ver /\ object'[h].val = object[h].val
  <2>1. DOMAIN object = Objects /\ IsObject(object[h])
    BY <1>4 DEF IInv, ObjectsOK
  <2> QED BY <1>2, <1>4, <2>1 DEF IsObject, ObjectFields
<1>11. Ready(object'[h], h) /\ ObjectIn(object'[h], edits)
  BY <1>2, <1>4, <1>9, <1>10, IdsAssumption DEF Ready, ObjectIn, IdsAssumption
<1>12. \A g \in Objects : /\ ObjectIn(object'[g], edits) /\ snapshot'[g] \subseteq -edits .. edits
                          /\ Ready(object[g], g) => Ready(object'[g], g)
  BY <1>2, <1>9, <1>10, <1>11
<1>13. CallIn(c, object', edits)
  <2>1. CallIn(save[s], object, edits)
    BY DEF TInv
  <2>2. ReadyIn(c, object')
    BY <1>1, <1>2, <1>4, <1>5, <1>11, <1>12, <2>1 DEF CallIn, ReadyIn
  <2>3. save[s].staged = <<>>
    BY <1>2, <2>1 DEF CallIn, StageIn
  <2> QED BY <1>5, <2>1, <2>2, <2>3 DEF CallIn, EntriesIn, CommandIn, StageIn, Stages
<1>14. RowsIn(table', edits) /\ edits' = edits
  BY <1>2 DEF TInv
<1> QED BY <1>3, <1>8, <1>12, <1>13, <1>14, ValuesStep

LEMMA SettleValues ==
  ASSUME IInv, VInv, LInv, TInv, NEW s \in Savers, Settle(s)
  PROVE  TInv'
<1> DEFINE W == Range(save[s].written)
<1>1. /\ save' = [save EXCEPT ![s] = Idle] /\ ledger' = Settled(save[s].written)
      /\ UNCHANGED <<object, table, edits>>
      /\ snapshot' = [h \in Objects |-> IF \E w \in W : w[1] = h THEN {object[h].val} ELSE snapshot[h]]
  BY DEF Settle
<1>2. FieldsIn(ledger', edits)
  <2>1. LedgersOK(ledger) /\ FieldsIn(ledger, edits) /\ \A h \in Objects : Root(h) \in Objects
    BY RootOwn DEF LInv, TInv, Root
  <2>2. save[s].written \in Seq(W) /\ \A w \in W : w[1] \in Objects
    BY WrittenFacts
  <2> QED BY <1>1, <2>1, <2>2, SettledIn
<1>3. \A h \in Objects : ObjectIn(object[h], edits) /\ object[h].val \in -edits .. edits /\ snapshot[h] \subseteq -edits .. edits
  BY DEF TInv, ObjectIn
<1>4. \A h \in Objects : snapshot'[h] = {object[h].val} \/ snapshot'[h] = snapshot[h]
  BY <1>1
<1>5. \A h \in Objects : /\ ObjectIn(object'[h], edits) /\ snapshot'[h] \subseteq -edits .. edits
                         /\ Ready(object[h], h) => Ready(object'[h], h)
  BY <1>1, <1>3, <1>4
<1>6. RowsIn(table', edits) /\ CallIn(Idle, object', edits) /\ edits' = edits
  BY <1>1, IdleIn DEF TInv
<1> QED BY <1>1, <1>2, <1>5, <1>6, ValuesStep

LEMMA UndoValues ==
  ASSUME IInv, VInv, LInv, TInv, NEW s \in Savers, Undo(s)
  PROVE  TInv'
<1> DEFINE old == save[s].old
           entries(h) == EntriesOf(old, h)
           first(h) == old[Min(entries(h))]
<1>1. /\ save' = [save EXCEPT ![s] = Idle] /\ ledger' = RestoredLedger(old)
      /\ UNCHANGED <<table, edits>>
      /\ object' = [h \in Objects |-> IF entries(h) = {} THEN object[h] ELSE Earlier(object[h], first(h))]
      /\ snapshot' = [h \in Objects |-> IF entries(h) = {} THEN snapshot[h] ELSE first(h)[3]]
  BY DEF Undo, EntriesOf
<1>2. /\ old \in Seq(Range(old))
      /\ \A e \in Range(old) : /\ e[1] \in Objects /\ IsObject(e[2]) /\ ObjectIn(e[2], edits)
                               /\ Ready(e[2], e[1]) /\ e[3] \subseteq -edits .. edits
  BY WrittenFacts DEF TInv, CallIn, EntriesIn
<1>3. FieldsIn(ledger', edits)
  <2>1. MemoryOK(Memory) /\ FieldsIn(ledger, edits)
    BY MemoryIs DEF TInv
  <2> HIDE DEF old
  <2> QED BY <1>1, <1>2, <2>1, RestoredIn
<1>4. ASSUME NEW h \in Objects
      PROVE  /\ ObjectIn(object'[h], edits) /\ snapshot'[h] \subseteq -edits .. edits
             /\ Ready(object[h], h) => Ready(object'[h], h)
  <2>1. CASE entries(h) = {}
    <3>1. object'[h] = object[h] /\ snapshot'[h] = snapshot[h]
      BY <1>1, <2>1
    <3> QED BY <3>1 DEF TInv
  <2>2. CASE entries(h) # {}
    <3> DEFINE e == first(h)
    <3>1. object'[h] = [e[2] EXCEPT !.root = object[h].root] /\ snapshot'[h] = e[3]
      BY <1>1, <2>2 DEF Earlier
    <3>2. e \in Range(old) /\ e[1] = h
      <4>1. \E f \in Range(old) : f[1] = h
        BY <2>2 DEF EntriesOf, Range
      <4> HIDE DEF old
      <4> QED BY <1>2, <4>1, FirstEntry
    <3> HIDE DEF e, entries, first, old
    <3>3. IsObject(e[2]) /\ ObjectIn(e[2], edits) /\ Ready(e[2], h) /\ e[3] \subseteq -edits .. edits
      BY <1>2, <3>2
    <3>4. /\ object'[h].key = e[2].key /\ object'[h].ver = e[2].ver /\ object'[h].val = e[2].val
          /\ object'[h].action = e[2].action
      BY <3>1, <3>3 DEF IsObject, ObjectFields
    <3> QED BY <3>1, <3>3, <3>4 DEF ObjectIn, Ready
  <2> QED BY <2>1, <2>2
<1>5. RowsIn(table', edits) /\ CallIn(Idle, object', edits) /\ edits' = edits
  BY <1>1, IdleIn DEF TInv
<1> QED BY <1>1, <1>3, <1>4, <1>5, ValuesStep

-----------------------------------------------------------------------------
(* The work of a save keeps the values *)

LEMMA ProceededIn ==
  ASSUME NEW c, NEW m, NEW d, NEW p, NEW n, Proceeded(c, m, d, p, n),
         RowsIn(c.staged, n), EntriesIn(c, n),
         \A h \in Range(c.graph) : h \in Objects /\ Ready(m.object[h], h)
  PROVE  CallIn(d, p.object, n) /\ d.graph = c.graph /\ MemoryIn(p, n)
<1>1. d.graph = c.graph /\ d.old = c.old /\ CommandIn(d, n) /\ MemoryIn(p, n)
  BY DEF Proceeded
<1>2. \A h \in Range(d.graph) : Ready(p.object[h], h)
  BY <1>1 DEF Proceeded, Same, Ready
<1>3. RowsIn(d.staged, n) /\ StageIn(d) /\ ReadyIn(d, p.object)
  <2>1. DOMAIN <<>> = {}
    OBVIOUS
  <2>2. \/ d.pc = "undo" /\ d.staged = <<>>
        \/ d.pc \in {"commit", "write"} /\ d.staged = c.staged
    BY DEF Proceeded
  <2> QED BY <1>2, <2>1, <2>2 DEF RowsIn, StageIn, Stages, ReadyIn
<1> QED BY <1>1, <1>3 DEF CallIn, EntriesIn

\* A step of call s that leaves it as d and the memory as n.
LEMMA WorkValues ==
  ASSUME IInv, TInv, NEW s \in Savers, NEW d, save' = [save EXCEPT ![s] = d],
         NEW n, MemoryIn(n, edits), CallIn(d, n.object, edits),
         \A h \in Objects : Ready(object[h], h) => Ready(n.object[h], h),
         object' = n.object, ledger' = n.ledger, UNCHANGED <<snapshot, table, edits>>
  PROVE  TInv'
<1>1. \A h \in Objects : /\ ObjectIn(object'[h], edits) /\ snapshot'[h] \subseteq -edits .. edits
                         /\ Ready(object[h], h) => Ready(object'[h], h)
  BY DEF TInv, MemoryIn
<1>2. FieldsIn(ledger', edits) /\ RowsIn(table', edits) /\ CallIn(d, object', edits)
  BY DEF TInv, MemoryIn
<1> QED BY <1>1, <1>2, ValuesStep

LEMMA CheckRaisesValues ==
  ASSUME IInv, VInv, LInv, TInv, NEW s \in Savers, CheckRaises(s)
  PROVE  TInv'
<1> DEFINE gs == save[s].graph
           r == object[Head(save[s].graph)].root
<1>1. PICK n \in 1 .. Len(gs) : Remember(Preflight(r, SubSeq(gs, 1, n), SubSeq(gs, 1, n)))
  BY DEF CheckRaises, Root
<1>2. /\ save[s].pc = "begin" /\ UNCHANGED <<snapshot, table, edits>>
      /\ save' = [save EXCEPT ![s] = Failed(save[s])]
  BY DEF CheckRaises
<1> DEFINE hs == SubSeq(gs, 1, n)
           after == AttachAll(Memory, hs, r)
           m == Preflight(r, hs, hs)
<1>3. hs \in Seq(Objects)
  <2>1. gs \in Seq(Objects) /\ n \in 0 .. Len(gs)
    BY <1>1, CallGraph
  <2> QED BY <2>1, UpToPlace
<1>4. object' = m.object /\ ledger' = m.ledger
  BY <1>1 DEF Remember
<1> HIDE DEF hs
<1>5. r \in Objects
  BY <1>2, GraphRoots
<1>6. MemoryIn(after, edits) /\ \A h \in Objects : Same(object[h], after.object[h])
  <2> HIDE DEF r
  <2> QED BY <1>3, <1>5, MemoryNow, AttachedIn
<1>7. m = [after EXCEPT !.ledger = CheckedLedger(after, hs)]
  BY DEF Preflight
<1> HIDE DEF after, m
<1>8. MemoryIn(m, edits) /\ m.object = after.object
  BY <1>3, <1>6, <1>7, CheckedIn DEF MemoryIn, MemoryOK
<1>9. \A h \in Objects : Ready(object[h], h) => Ready(m.object[h], h)
  BY <1>6, <1>8 DEF Same, Ready
<1>10. CallIn(Failed(save[s]), m.object, edits)
  <2>1. CallIn(save[s], object, edits) /\ DOMAIN save[s] = SaveFields
    BY CallGraph DEF TInv
  <2>2. \A h \in Range(gs) : h \in Objects /\ Ready(m.object[h], h)
    BY <1>2, <1>9, <2>1, CallGraph DEF CallIn, ReadyIn
  <2> QED BY <2>1, <2>2, FailedIn DEF CallIn
<1> QED BY <1>2, <1>4, <1>8, <1>9, <1>10, WorkValues

LEMMA BeginValues ==
  ASSUME IInv, VInv, LInv, TInv, NEW s \in Savers, Begin(s)
  PROVE  TInv'
<1> DEFINE hs == save[s].graph
           r == object[Head(save[s].graph)].root
           attached == Attachable(Memory, hs, r)
           refused == {i \in 1 .. Len(attached) :
                         Incomplete(AttachAll(Memory, SubSeq(hs, 1, i), r), hs[i])}
           reached == IF refused = {} THEN attached ELSE SubSeq(hs, 1, Min(refused))
           checked == IF refused = {} THEN attached ELSE SubSeq(hs, 1, Min(refused) - 1)
           after == AttachAll(Memory, reached, r)
           m == Preflight(r, reached, checked)
           next == Proceed(save[s], m, hs)
<1>1. /\ save[s].pc = "begin" /\ UNCHANGED <<snapshot, table, edits>>
      /\ \/ checked # hs /\ Remember(m) /\ save' = [save EXCEPT ![s] = Failed(@)]
         \/ checked = hs /\ Remember(next.memory) /\ save' = [save EXCEPT ![s] = next.save]
  BY DEF Begin, Root
<1>2. /\ DOMAIN save[s] = SaveFields /\ hs \in Seq(Objects) /\ Range(hs) \subseteq Objects
  BY CallGraph
<1>3. Attachable(Memory, hs, r) = SubSeq(hs, 1, Len(attached)) /\ Len(attached) \in 0 .. Len(hs)
  <2> DEFINE clean == {n \in 0 .. Len(hs) : \A i \in 1 .. n :
                         ~Clashes(AttachAll(Memory, SubSeq(hs, 1, i - 1), r), hs[i], r)}
  <2>1. clean \subseteq 0 .. Len(hs) /\ Len(hs) \in Nat /\ 0 \in clean
    BY <1>2
  <2>2. Attachable(Memory, hs, r) = SubSeq(hs, 1, Max(clean))
    BY DEF Attachable
  <2> HIDE DEF clean
  <2>3. Max(clean) \in 0 .. Len(hs)
    BY <2>1, MaxIn
  <2>4. Len(SubSeq(hs, 1, Max(clean))) = Max(clean)
    <3> HIDE DEF hs
    <3> QED BY <1>2, <2>3, UpToPlace
  <2> QED BY <2>2, <2>3, <2>4
<1>4. refused # {} => Min(refused) \in 1 .. Len(attached)
  <2>1. refused \subseteq Nat /\ refused \subseteq 1 .. Len(attached)
    <3>1. Len(attached) \in Nat
      <4>1. Len(hs) \in Nat
        BY <1>2
      <4> HIDE DEF attached, hs
      <4> QED BY <1>3, <4>1
    <3>2. refused \subseteq 1 .. Len(attached)
      <4> HIDE DEF attached, hs
      <4> QED OBVIOUS
    <3> HIDE DEF attached, refused
    <3> QED BY <3>1, <3>2
  <2> HIDE DEF refused
  <2> QED BY <2>1, MinLeast
<1>5. reached \in Seq(Objects) /\ checked \in Seq(Objects)
  <2>1. CASE refused = {}
    <3>1. reached = attached /\ checked = attached
      BY <2>1
    <3>2. attached \in Seq(Objects)
      <4> HIDE DEF hs, r
      <4> QED BY <1>2, AttachableFirst
    <3> HIDE DEF attached, reached, checked
    <3> QED BY <3>1, <3>2
  <2>2. CASE refused # {}
    <3> DEFINE k == Min(refused)
    <3>1. reached = SubSeq(hs, 1, k) /\ checked = SubSeq(hs, 1, k - 1)
      BY <2>2
    <3>2. k \in 1 .. Len(hs) /\ Len(hs) \in Nat
      <4> HIDE DEF k, attached, hs
      <4>1. k \in 1 .. Len(attached)
        BY <1>4, <2>2 DEF k
      <4> QED BY <1>2, <1>3, <4>1
    <3> HIDE DEF k, reached, checked, hs
    <3>3. k \in 0 .. Len(hs) /\ k - 1 \in 0 .. Len(hs)
      BY <3>2
    <3> QED BY <1>2, <3>1, <3>3, UpToPlace
  <2> QED BY <2>1, <2>2
<1> HIDE DEF reached, checked, refused, attached
<1>6. r \in Objects
  BY <1>1, GraphRoots
<1>7. MemoryIn(after, edits) /\ \A h \in Objects : Same(object[h], after.object[h])
  <2> HIDE DEF r
  <2> QED BY <1>5, <1>6, MemoryNow, AttachedIn
<1>13. m = [after EXCEPT !.ledger = CheckedLedger(after, checked)]
  BY DEF Preflight
<1> HIDE DEF after, m
<1>8. MemoryIn(m, edits) /\ m.object = after.object
  BY <1>5, <1>7, <1>13, CheckedIn DEF MemoryIn, MemoryOK
<1>9. /\ RowsIn(save[s].staged, edits) /\ EntriesIn(save[s], edits)
      /\ \A h \in Range(hs) : h \in Objects /\ Ready(m.object[h], h)
  <2>1. CallIn(save[s], object, edits)
    BY DEF TInv
  <2>2. \A h \in Range(hs) : Ready(object[h], h)
    BY <1>1, <2>1 DEF CallIn, ReadyIn
  <2> QED BY <1>2, <1>7, <1>8, <2>1, <2>2 DEF CallIn, Same, Ready
<1>10. \A h \in Objects : Ready(object[h], h) => Ready(m.object[h], h)
  BY <1>7, <1>8 DEF Same, Ready
<1>11. CASE checked # hs /\ Remember(m) /\ save' = [save EXCEPT ![s] = Failed(@)]
  <2>1. save' = [save EXCEPT ![s] = Failed(save[s])] /\ object' = m.object /\ ledger' = m.ledger
    BY <1>11 DEF Remember
  <2>2. CallIn(Failed(save[s]), m.object, edits)
    BY <1>2, <1>9, FailedIn
  <2> QED BY <1>1, <1>8, <1>10, <2>1, <2>2, WorkValues
<1>12. CASE checked = hs /\ Remember(next.memory) /\ save' = [save EXCEPT ![s] = next.save]
  <2> DEFINE d == next.save
             n == next.memory
  <2>1. save' = [save EXCEPT ![s] = d] /\ object' = n.object /\ ledger' = n.ledger
    BY <1>12 DEF Remember
  <2>2. m.object[Head(save[s].graph)].root \in Objects
    <3>1. Head(save[s].graph) \in Objects
      BY <1>1, GraphRoots
    <3> QED BY <1>8, <3>1 DEF MemoryIn, MemoryOK
  <2>3. Proceeded(save[s], m, d, n, edits)
    BY <1>2, <1>8, <1>9, <2>2, ProceedIn
  <2> HIDE DEF d, n, next
  <2>4. CallIn(d, n.object, edits) /\ MemoryIn(n, edits)
    BY <1>9, <2>3, ProceededIn
  <2>5. \A h \in Objects : Ready(object[h], h) => Ready(n.object[h], h)
    BY <1>10, <2>3 DEF Proceeded, Same, Ready
  <2> QED BY <1>1, <2>1, <2>4, <2>5, WorkValues
<1> QED BY <1>1, <1>11, <1>12

\* The row a statement leaves.
LEMMA WrittenRow ==
  ASSUME IInv, VInv, LInv, TInv, NEW s \in Savers, save[s].pc = "write",
         Affects(save[s].command, View(s))
  PROVE  LET c == save[s].command
             row == Statement(c, View(s))[c.key]
         IN  c.key \in Ids /\ row.ver \in Int /\ row.val \in -edits .. edits
<1> DEFINE c == save[s].command
           h == Head(save[s].todo)
           row == Statement(c, View(s))[c.key]
           rows == View(s)
<1>1. c.kind \in Actions /\ Claims(h, c.key, object, save) /\ h \in Objects
  <2>1. c.kind \in Actions /\ Claims(h, c.key, object, save) /\ h \in Range(save[s].todo)
        /\ \A g \in Range(save[s].todo) : g \in Objects
    BY NextObject
  <2> QED BY <2>1
<1>2. \A k \in DOMAIN rows : rows[k].ver \in Int /\ DOMAIN rows[k] = RowFields
  <2>1. RowsOK(rows, object, contested)
    <3>1. CallOK(save[s], object, contested) /\ RowsOK(table, object, contested)
      BY DEF IInv
    <3> QED BY <3>1, OverRows DEF View, CallOK
  <2> QED BY <2>1, ViewRows DEF RowsOK, RowOK
<1>3. CallIn(save[s], object, edits) /\ RowsIn(table, edits)
  BY DEF TInv
<1>4. DOMAIN rows \subseteq Ids /\ \A k \in DOMAIN rows : rows[k].val \in -edits .. edits
  BY <1>3 DEF CallIn, RowsIn, View, Over
<1>5. /\ "val" \in DOMAIN c.values => c.values["val"] \in -edits .. edits
      /\ c.kind = "Create" => "val" \in DOMAIN c.values /\ c.key # h
  BY <1>3 DEF CallIn, CommandIn
<1>6. c.key \in Ids \cup {h}
  BY <1>1 DEF LInv, KeysInv
<1> HIDE DEF c, h, rows
<1>7. Affects(c, rows) /\ row = Statement(c, rows)[c.key]
  BY DEF c, rows
<1> HIDE DEF row
<1>8. /\ c.kind = "Create" \/ (c.kind = "Update" /\ "val" \in DOMAIN c.values) => row.val = c.values["val"]
      /\ c.kind # "Create" => c.key \in DOMAIN rows
      /\ c.kind # "Create" /\ ~ (c.kind = "Update" /\ "val" \in DOMAIN c.values) => row.val = rows[c.key].val
  BY <1>1, <1>2, <1>7, RowSays
<1>9. row.ver \in Int
  BY <1>1, <1>2, <1>7, StatementVersion
<1>10. c.key \in Ids
  BY <1>4, <1>5, <1>6, <1>8
<1>11. row.val \in -edits .. edits
  BY <1>4, <1>5, <1>8
<1> QED BY <1>9, <1>10, <1>11 DEF c, row, rows

LEMMA WriteValues ==
  ASSUME IInv, VInv, LInv, TInv, NEW s \in Savers, Write(s)
  PROVE  TInv'
<1> DEFINE c == save[s].command
           h == Head(save[s].todo)
           k == c.key
           row == Statement(c, View(s))[c.key]
           shown == [object[h] EXCEPT !.key = c.key, !.ver = {row.ver}, !.val = row.val,
                                      !.action = IF c.kind = "Delete" THEN @ ELSE "Update"]
           l == Rekey(ledger[object[h].root], object[h].key, k)
           m == [object |-> [object EXCEPT ![h] = shown],
                 ledger |-> [ledger EXCEPT ![object[h].root] = l]]
           rest == IF c.kind = "Delete" /\ h = Head(save[s].graph) THEN <<>> ELSE Tail(save[s].todo)
           e == <<h, object[h], snapshot[h]>>
           a == [save[s] EXCEPT !.staged = WithRow(@, c.key, row),
                                !.back = @ \cup SetBack(c.key, row, View(s)),
                                !.written = Append(@, <<h, c.key>>),
                                !.old = Append(@, <<h, object[h], snapshot[h]>>)]
           next == Proceed(a, m, rest)
<1>1. /\ save[s].pc = "write" /\ UNCHANGED <<snapshot, table, edits>>
      /\ Affects(c, View(s))
      /\ object' = next.memory.object /\ ledger' = next.memory.ledger /\ save' = [save EXCEPT ![s] = next.save]
  BY DEF Write, Remember, Root, Key
<1>2. /\ save[s].todo \in Seq(Objects) /\ save[s].todo # <<>>
      /\ h \in Objects /\ h \in Range(save[s].graph)
      /\ \A g \in Range(save[s].todo) : g \in Objects /\ g \in Range(save[s].graph)
  BY <1>1, NextObject
<1>3. k \in Ids /\ row.ver \in Int /\ row.val \in -edits .. edits
  BY <1>1, WrittenRow
<1>4. Writes(save[s], a, h, k, row, e, View(s)) /\ DOMAIN a = SaveFields
  <2>1. DOMAIN save[s] = SaveFields
    BY CallGraph
  <2>2. save[s].old \in Seq(Range(save[s].old)) /\ save[s].written \in Seq(Range(save[s].written))
    BY DEF VInv, CallInv, WorkInv
  <2>3. DOMAIN a = SaveFields
    BY <2>1
  <2> HIDE DEF h, c, row
  <2> QED BY <2>1, <2>2, <2>3, WritesShape
<1>5. /\ Head(save[s].graph) \in Objects
      /\ \A g \in Range(save[s].graph) : g \in Objects
  <2>1. save[s].pc # "idle"
    BY <1>1
  <2> QED BY <2>1, GraphRoots
<1>6. rest \in Seq(Objects) /\ \A g \in Range(rest) : g \in Range(save[s].graph)
  <2>1. /\ Tail(save[s].todo) \in Seq(Objects)
        /\ Range(save[s].todo) = {h} \cup Range(Tail(save[s].todo))
    BY <1>2, HeadAndTail
  <2>2. <<>> \in Seq(Objects) /\ Range(<<>>) = {}
    BY DEF Range
  <2> HIDE DEF h, c
  <2> QED BY <1>2, <2>1, <2>2
<1>7. /\ DOMAIN object = Objects /\ \A g \in Objects : IsObject(object[g]) /\ object[g].root \in Objects
      /\ LedgersOK(ledger) /\ FieldsIn(ledger, edits) /\ CallIn(save[s], object, edits)
      /\ \A g \in Objects : ObjectIn(object[g], edits) /\ snapshot[g] \subseteq -edits .. edits
  BY RootOwn DEF LInv, IInv, ObjectsOK, TInv
<1>8. /\ IsObject(object[h]) /\ object[h].root \in Objects /\ ObjectIn(object[h], edits)
      /\ IsLedger(ledger[object[h].root]) /\ ChangesIn(ledger[object[h].root], edits)
      /\ snapshot[h] \subseteq -edits .. edits /\ \A g \in Range(save[s].graph) : Ready(object[g], g)
  <2>1. \A q \in Objects : IsLedger(ledger[q]) /\ ChangesIn(ledger[q], edits)
    BY <1>7, FieldsChanges DEF LedgersOK
  <2>2. \A g \in Range(save[s].graph) : Ready(object[g], g)
    BY <1>1, <1>7 DEF CallIn, ReadyIn
  <2> HIDE DEF h
  <2> QED BY <1>2, <1>7, <2>1, <2>2
<1> HIDE DEF h, row, a, rest
<1>9. /\ IsObject(shown) /\ shown.key = k /\ shown.ver = {row.ver} /\ shown.val = row.val
      /\ shown.action \in {object[h].action, "Update"} /\ shown.root = object[h].root
  BY <1>8 DEF IsObject, ObjectFields, Actions
<1>10. IsLedger(l) /\ ChangesIn(l, edits)
  BY <1>8, RekeyIn, RekeySays DEF Moved, Only
<1>11. ObjectIn(shown, edits) /\ Ready(shown, h)
  <2>1. k # h
    BY <1>2, <1>3, IdsAssumption DEF IdsAssumption
  <2> HIDE DEF shown, k, c
  <2> QED BY <1>3, <1>9, <2>1 DEF ObjectIn, Ready
<1> HIDE DEF shown, l, k, c
<1>12. /\ DOMAIN m = {"object", "ledger"} /\ DOMAIN m.object = Objects /\ m.object[h] = shown
       /\ \A g \in Objects \ {h} : m.object[g] = object[g]
       /\ m.ledger = [ledger EXCEPT ![object[h].root] = l]
  BY <1>2, <1>7
<1> HIDE DEF m
<1>13. LedgersOK(m.ledger) /\ FieldsIn(m.ledger, edits)
  <2> DEFINE q == object[h].root
  <2>1. q \in Objects /\ LedgersOK(ledger) /\ m.ledger = [ledger EXCEPT ![q] = l]
    BY <1>7, <1>8, <1>12
  <2> HIDE DEF q
  <2>2. FieldsIn(m.ledger, edits)
    <3>1. FieldsIn(ledger, edits)
      BY <1>7
    <3>2. FieldsIn([ledger EXCEPT ![q] = l], edits)
      BY <1>10, <2>1, <3>1, OneIn
    <3> QED BY <2>1, <3>2
  <2> QED BY <1>10, <2>1, <2>2 DEF LedgersOK
<1>14. \A g \in Objects : /\ IsObject(m.object[g]) /\ m.object[g].root \in Objects
                          /\ ObjectIn(m.object[g], edits)
                          /\ Ready(object[g], g) => Ready(m.object[g], g)
  BY <1>7, <1>8, <1>9, <1>11, <1>12
<1>15. MemoryIn(m, edits)
  <2>1. edits \in Int
    BY DEF TInv
  <2> QED BY <1>12, <1>13, <1>14, <2>1 DEF MemoryIn, MemoryOK, ObjectsOK
<1>16. a.graph = save[s].graph
  BY <1>4 DEF Writes
<1>17. \A g \in Range(save[s].graph) : g \in Objects /\ Ready(m.object[g], g)
  BY <1>5, <1>8, <1>14
<1> DEFINE d == next.save
           n == next.memory
<1>18. Proceeded(a, m, d, n, edits)
  <2>1. \A g \in Range(rest) : Ready(m.object[g], g)
    BY <1>6, <1>17
  <2>2. m.object[Head(a.graph)].root \in Objects
    BY <1>5, <1>14, <1>16
  <2> QED BY <1>4, <1>6, <1>15, <2>1, <2>2, ProceedIn
<1>19. save' = [save EXCEPT ![s] = d] /\ object' = n.object /\ ledger' = n.ledger
  BY <1>1
<1> HIDE DEF d, n, next
<1>20. RowsIn(a.staged, edits)
  <2>1. RowsIn(save[s].staged, edits) /\ k \in Ids
    BY <1>3, <1>7 DEF CallIn
  <2> QED BY <1>3, <1>4, <2>1 DEF Writes, RowsIn
<1>21. EntriesIn(a, edits)
  <2>1. /\ e[1] = h /\ e[2] = object[h] /\ e[3] = snapshot[h]
        /\ Range(a.old) = Range(save[s].old) \cup {e}
    BY <1>4 DEF Writes
  <2> HIDE DEF e
  <2>2. EntriesIn(save[s], edits)
    BY <1>7 DEF CallIn
  <2> QED BY <1>2, <1>8, <2>1, <2>2 DEF EntriesIn
<1>22. CallIn(d, n.object, edits) /\ MemoryIn(n, edits)
  BY <1>16, <1>17, <1>18, <1>20, <1>21, ProceededIn
<1>23. \A g \in Objects : Ready(object[g], g) => Ready(n.object[g], g)
  BY <1>14, <1>18 DEF Proceeded, Same, Ready
<1> QED BY <1>1, <1>19, <1>22, <1>23, WorkValues

-----------------------------------------------------------------------------
(* Every step keeps it *)

LEMMA LedgersStep == IInv /\ VInv /\ LInv /\ TInv /\ [Next]_vars => LInv'
<1> SUFFICES ASSUME IInv, VInv, LInv, TInv, [Next]_vars PROVE LInv'
  OBVIOUS
<1>1. IInv' /\ VInv'
  BY Step, VersionsStep
<1>2. CASE UNCHANGED vars
  BY <1>2 DEF vars, graph, memory, LInv, LevelsInv, RootsInv, MarksInv, GraphInv, Graph
<1>3. ASSUME NEW h \in Objects, Edit(h) \/ MarkForDeletion(h) PROVE LInv'
  BY <1>1, <1>3, EditLedgers, MarkLedgers
<1>4. ASSUME NEW h \in Objects, NEW s \in Savers, Save(s, h) PROVE LInv'
  BY <1>4, SaveLedgers
<1>5. ASSUME NEW k \in Ids, Recover(k) PROVE LInv'
  BY <1>5, RecoverLedgers
<1>6. ASSUME NEW s \in Savers, Work(s) PROVE LInv'
  <2>1. CASE Reserve(s)
    BY <1>1, <2>1, ReserveLedgers
  <2>2. CASE Allocate(s)
    BY <1>1, <2>2, AllocateLedgers
  <2>3. CASE GiveUp(s)
    BY <1>1, <2>3, GiveUpLedgers
  <2>4. CASE CheckRaises(s)
    BY <1>1, <2>4, CheckRaisesLedgers
  <2>5. CASE Begin(s)
    BY <1>1, <2>5, BeginLedgers
  <2>6. CASE Write(s)
    BY <1>1, <2>6, WriteLedgers
  <2>7. CASE WriteFails(s)
    BY <1>1, <2>7, WriteFailsLedgers
  <2>8. CASE Commit(s) \/ CommitRaises(s)
    BY <1>1, <2>8, EndLedgers
  <2>9. CASE Settle(s)
    BY <1>1, <2>9, SettleLedgers
  <2>10. CASE Undo(s)
    BY <1>1, <2>10, UndoLedgers
  <2> QED BY <1>6, <2>1, <2>2, <2>3, <2>4, <2>5, <2>6, <2>7, <2>8, <2>9, <2>10 DEF Work
<1> QED BY <1>2, <1>3, <1>4, <1>5, <1>6 DEF Next

LEMMA ValuesKept == IInv /\ VInv /\ LInv /\ TInv /\ [Next]_vars => TInv'
<1> SUFFICES ASSUME IInv, VInv, LInv, TInv, [Next]_vars PROVE TInv'
  OBVIOUS
<1>1. CASE UNCHANGED vars
  BY <1>1 DEF vars, memory, TInv
<1>2. ASSUME NEW h \in Objects, Edit(h) \/ MarkForDeletion(h) PROVE TInv'
  BY <1>2, EditValues
<1>3. ASSUME NEW h \in Objects, NEW s \in Savers, Save(s, h) PROVE TInv'
  BY <1>3, SaveValues
<1>4. ASSUME NEW k \in Ids, Recover(k) PROVE TInv'
  BY <1>4, RecoverValues
<1>5. ASSUME NEW s \in Savers, Work(s) PROVE TInv'
  <2>1. CASE Reserve(s)
    BY <2>1, ReserveValues
  <2>2. CASE Allocate(s)
    BY <2>2, AllocateValues
  <2>3. CASE GiveUp(s) \/ WriteFails(s)
    BY <2>3, GiveUpValues
  <2>4. CASE CheckRaises(s)
    BY <2>4, CheckRaisesValues
  <2>5. CASE Begin(s)
    BY <2>5, BeginValues
  <2>6. CASE Write(s)
    BY <2>6, WriteValues
  <2>7. CASE Commit(s) \/ CommitRaises(s)
    BY <2>7, EndValues
  <2>8. CASE Settle(s)
    BY <2>8, SettleValues
  <2>9. CASE Undo(s)
    BY <2>9, UndoValues
  <2> QED BY <1>5, <2>1, <2>2, <2>3, <2>4, <2>5, <2>6, <2>7, <2>8, <2>9 DEF Work
<1> QED BY <1>1, <1>2, <1>3, <1>4, <1>5 DEF Next

LEMMA Ledgers == Spec => [](IInv /\ VInv /\ LInv /\ TInv)
<1>1. Init => IInv /\ VInv /\ LInv /\ TInv
  BY Start, VersionsStart, LedgersStart
<1>2. IInv /\ VInv /\ LInv /\ TInv /\ [Next]_vars => (IInv /\ VInv /\ LInv /\ TInv)'
  BY Step, VersionsStep, LedgersStep, ValuesKept
<1> QED BY <1>1, <1>2, PTL DEF Spec

LEMMA UndisturbedUntouched ==
  ASSUME NEW h \in Objects, Undisturbed(h)
  PROVE  Untouched(h, object, contested)
BY DEF Undisturbed, Untouched, Alone, Key, Root

-----------------------------------------------------------------------------
(* The theorems *)

\* A save that committed wrote every change of its graph: when commit_entity is
\* about to drop the changes of an object from its ledger they are in the
\* database, whatever failed and was called again before and whichever other
\* saves ran meanwhile (_teaql_save_within_graph, _teaql_cascade_children).
\* Left out are the objects NothingDropped names.
THEOREM CommittedWhole == Spec => []NothingDropped
<1>1. IInv /\ VInv /\ LInv => NothingDropped
  <2> SUFFICES ASSUME IInv, VInv, LInv, NEW s \in Savers, save[s].pc = "settle",
                      NEW h \in Range(save[s].graph), Undisturbed(h),
                      object[h].action # "Delete", object[Head(save[s].graph)].action # "Delete"
               PROVE  LET l == ledger[Root(h)]
                          fields == Fields(l, Key(h))
                          saved == <<h, Key(h)>> \in Range(save[s].written)
                      IN  /\ HasPending(l, Key(h)) => saved
                          /\ saved /\ "val" \in DOMAIN fields => fields["val"] = object[h].val
    BY DEF NothingDropped
  <2> DEFINE c == save[s]
             k == object[h].key
             l == ledger[object[h].root]
  <2>1. h \in Objects /\ \A w \in Range(c.written) : Wrote(c, w[1])
    BY WrittenFacts
  <2>2. contested[h] = {} /\ Alone(h, object) /\ Untouched(h, object, contested)
    BY <2>1, UndisturbedUntouched DEF Untouched
  <2>3. /\ ShowsInv(c, h, object, ledger, backed, contested)
        /\ PassedInv(c, h, object, ledger, contested)
    BY <2>1 DEF LInv, OwnInv
  <2>4. HasPending(l, k) => Wrote(c, h)
    BY <2>2, <2>3 DEF PassedInv
  <2>5. Wrote(c, h) =>
          /\ <<h, k>> \in Range(c.written)
          /\ "val" \in DOMAIN Fields(l, k) => Fields(l, k)["val"] = object[h].val
    BY <2>2, <2>3 DEF ShowsInv
  <2>6. <<h, k>> \in Range(c.written) => Wrote(c, h)
    <3>1. <<h, k>>[1] = h
      OBVIOUS
    <3> QED BY <2>1, <3>1
  <2> QED BY <2>4, <2>5, <2>6 DEF Root, Key
<1>2. Spec => [](IInv /\ VInv /\ LInv)
  BY Ledgers, PTL
<1> QED BY <1>1, <1>2, PTL

\* Between saves the ledger of an object holds what the object shows and the
\* database does not, whatever saves failed, were rolled back or overlapped
\* before: its version, its creation or deletion, and fields exactly if it shows
\* an unsaved value, which is pending as it was edited or as a checker of a
\* failed save left it (EntityRoot through merge_entity_from, rekey, clear_entity
\* and accept_committed_version; check_and_fix_mutation, rollback_entity).  With
\* it, the model is well typed.
THEOREM LedgersFaithful == Spec => []LedgerFaithful
<1>1. IInv /\ LInv /\ TInv => TypeOK
  <2> SUFFICES ASSUME IInv, LInv, TInv PROVE TypeOK
    OBVIOUS
  <2>1. ASSUME NEW h \in Objects
        PROVE  /\ object[h].key \in Ids \cup {h} /\ object[h].val \in -MaxEdits .. MaxEdits
               /\ object[h].action \in Actions /\ object[h].root \in Objects
               /\ Cardinality(object[h].ver) <= 1
    <3>1. object[h].key \in Ids \cup {h}
      BY OwnClaim DEF LInv, KeysInv
    <3>2. object[h].val \in -MaxEdits .. MaxEdits
      BY BoundsAssumption DEF TInv, ObjectIn, BoundsAssumption
    <3>3. object[h].action \in Actions /\ object[h].root \in Objects
      BY RootOwn DEF IInv, ObjectsOK, IsObject
    <3>4. CASE object[h].ver = {}
      BY <3>1, <3>2, <3>3, <3>4, FS_EmptySet
    <3>5. CASE \E v \in Int : object[h].ver = {v}
      <4>1. PICK v \in Int : object[h].ver = {v}
        BY <3>5
      <4>2. Cardinality({v}) = 1
        BY FS_Singleton
      <4> QED BY <3>1, <3>2, <3>3, <4>1, <4>2
    <3> QED BY <3>4, <3>5 DEF TInv, ObjectIn
  <2>2. DOMAIN table \subseteq Ids
    BY DEF TInv, RowsIn
  <2>3. \A s \in Savers : /\ save[s].pc \in Stages
                          /\ save[s].staged # <<>> => save[s].pc \in {"write", "commit"}
    BY DEF TInv, CallIn, StageIn
  <2> QED BY <2>1, <2>2, <2>3 DEF TypeOK, Key, Root, Actions
<1>2. IInv /\ LInv => \A h \in Objects :
        AtRest(h) /\ Undisturbed(h) => Faithful(object[h], ledger[object[h].root], snapshot[h], backed)
  <2> SUFFICES ASSUME IInv, LInv, NEW h \in Objects, AtRest(h), Undisturbed(h)
               PROVE  Faithful(object[h], ledger[object[h].root], snapshot[h], backed)
    OBVIOUS
  <2>1. \A s \in Savers : ~ Wrote(save[s], h)
    <3> SUFFICES ASSUME NEW s \in Savers, Wrote(save[s], h) PROVE FALSE
      OBVIOUS
    <3>1. CallOK(save[s], object, contested)
      BY DEF IInv
    <3>2. h \in Range(save[s].graph)
      BY <3>1, WroteGraph
    <3>3. save[s].pc # "idle"
      <4>1. Range(<<>>) = {}
        BY DEF Range
      <4> QED BY <3>1, <3>2, <4>1 DEF CallOK, CallType
    <3> QED BY <3>2, <3>3 DEF AtRest, Reaches
  <2> QED BY <2>1, UndisturbedUntouched DEF LInv, FaithInv
<1>3. IInv /\ LInv /\ TInv => LedgerFaithful
  <2> SUFFICES ASSUME IInv, LInv, TInv, NEW h \in Objects, AtRest(h), Undisturbed(h)
               PROVE  LET o == object[h]
                          l == ledger[o.root]
                          changed == o.val \notin (IF snapshot[h] = {} THEN {0} ELSE snapshot[h])
                      IN  /\ OriginalVersion(l, o.key) = o.ver
                          /\ o.action = "Create" => o.key \in l.new
                          /\ o.action = "Update" =>
                               /\ o.key \notin l.new \cup l.deleted
                               /\ (o.key \in DOMAIN l.changes) = changed
                               /\ changed => Holding(Fields(l, o.key), o.val)
                          /\ o.action = "Delete" =>
                               o.key \in l.deleted \cup backed \/ \E v \in o.ver : v < 0
    BY <1>1 DEF LedgerFaithful
  <2>1. Faithful(object[h], ledger[object[h].root], snapshot[h], backed)
    BY <1>2
  <2>2. \A l, k, v : Holding(Fields(l, k), v) => k \in DOMAIN l.changes
    <3>1. DOMAIN <<>> = {}
      OBVIOUS
    <3> QED BY <3>1 DEF Holding, Fields
  <2> QED BY <2>1, <2>2 DEF Faithful, Changed
<1>4. Spec => [](IInv /\ LInv /\ TInv)
  BY Ledgers, PTL
<1> QED BY <1>3, <1>4, PTL
=============================================================================
