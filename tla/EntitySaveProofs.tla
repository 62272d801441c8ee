-------------------------- MODULE EntitySaveProofs --------------------------
(***************************************************************************)
(* Theorems about EntitySave and their proofs: an object becomes one row,  *)
(* unless overlapping saves of it reserve an ID each; and a statement that *)
(* expects a version finds the row its object was loaded from or last      *)
(* saved as.  What a save does to the ledgers has no part in either        *)
(* argument; the keys and the versions of the objects have.                *)
(***************************************************************************)
EXTENDS EntitySave, NaturalsInduction, SequenceTheorems,
        FiniteSetTheorems, WellFoundedInduction, TLAPS

Actions == {"Create", "Update", "Delete"}
ObjectFields == {"key", "ver", "val", "action", "root"}
SaveFields == {"pc", "graph", "todo", "command", "staged", "back", "written", "old"}
RowFields == {"ver", "val", "by"}

\* Two saves reached h at the same time.
Crossed(h, con) == con[h] \cap {"saved", "crossed"} # {}

\* o, which is h, does not wait for an ID.
Ready(o, h) == ~(o.action = "Create" /\ o.key = h)

IsObject(o) == DOMAIN o = ObjectFields /\ o.action \in Actions
ObjectsOK(obj) == DOMAIN obj = Objects /\ \A h \in Objects : IsObject(obj[h])

\* The rows of f are of the objects that inserted them, which have had an ID since.
RowOK(row, k, obj, con) ==
  /\ DOMAIN row = RowFields /\ row.by \subseteq Objects
  /\ \A h \in row.by : Crossed(h, con) \/ (obj[h].key = k /\ k # h)
RowsOK(f, obj, con) == \A k \in DOMAIN f : RowOK(f[k], k, obj, con)

\* What a written object was before: it had its ID already.
EntryOK(e, hs, obj, con) ==
  /\ e[1] \in Range(hs) /\ IsObject(e[2])
  /\ Crossed(e[1], con) \/ e[2].key = obj[e[1]].key

\* The command of h, which is written next.
CommandOK(c, h, obj, con) ==
  /\ c.object = {h} /\ c.kind \in Actions
  /\ Crossed(h, con) \/ (c.key = obj[h].key /\ (c.kind = "Create" => c.key # h))

\* A save and the objects it reaches.
ReserveOK(c, obj, con) ==
  c.pc \in {"reserve", "allocate"} =>
    \A h \in Range(c.graph) : h \in Range(c.todo) \/ Crossed(h, con) \/ Ready(obj[h], h)
AllocateOK(c, obj, con) ==
  c.pc = "allocate" =>
    c.todo # <<>> /\ (Crossed(Head(c.todo), con) \/ obj[Head(c.todo)].key = Head(c.todo))
ReadyOK(c, obj, con) ==
  c.pc \in {"begin", "write"} => \A h \in Range(c.graph) : Crossed(h, con) \/ Ready(obj[h], h)
WriteOK(c, obj, con) ==
  c.pc = "write" => c.todo # <<>> /\ CommandOK(c.command, Head(c.todo), obj, con)
OldOK(c, obj, con) ==
  /\ c.old \in Seq(Range(c.old))
  /\ c.pc \in {"reserve", "allocate", "begin"} => c.old = <<>>
  /\ \A i \in DOMAIN c.old : EntryOK(c.old[i], c.graph, obj, con)
CallType(c) ==
  /\ DOMAIN c = SaveFields
  /\ c.graph \in Seq(Objects) /\ c.todo \in Seq(Objects) /\ Range(c.todo) \subseteq Range(c.graph)
  /\ c.pc = "idle" => c.graph = <<>>
CallOK(c, obj, con) ==
  /\ CallType(c)
  /\ ReserveOK(c, obj, con) /\ AllocateOK(c, obj, con) /\ ReadyOK(c, obj, con)
  /\ WriteOK(c, obj, con) /\ OldOK(c, obj, con)
  /\ RowsOK(c.staged, obj, con)

\* Saves that reach one object have crossed.
Exclusive(sv, con) ==
  \A s, t \in Savers : s # t =>
    \A h \in Range(sv[s].graph) \cap Range(sv[t].graph) : Crossed(h, con)

IInv ==
  /\ items \in [Objects -> Seq(Objects)]
  /\ ObjectsOK(object)
  /\ DOMAIN contested = Objects
  /\ DOMAIN save = Savers
  /\ \A s \in Savers : CallOK(save[s], object, contested)
  /\ Exclusive(save, contested)
  /\ RowsOK(table, object, contested)

-----------------------------------------------------------------------------
(* What the operators of the model do to keys and rows *)

\* The least number of a set.
LEMMA MinLeast ==
  ASSUME NEW T, T \subseteq Nat, T # {}
  PROVE  Min(T) \in T /\ \A y \in T : Min(T) <= y
<1>1. \E x \in T : \A y \in T : ~ <<y, x>> \in OpToRel(<, Nat)
  BY NatLessThanWellFounded, WFMin
<1>2. PICK x \in T : \A y \in T : ~ <<y, x>> \in OpToRel(<, Nat)
  BY <1>1
<1>3. ASSUME NEW y \in T PROVE x <= y
  <2>1. x \in Nat /\ y \in Nat
    OBVIOUS
  <2>2. ~ (y < x)
    BY <1>2, <2>1 DEF OpToRel
  <2> QED BY <2>1, <2>2
<1> QED BY <1>3 DEF Min

\* The places of a sequence from n on.
LEMMA FromPlace ==
  ASSUME NEW S, NEW q \in Seq(S), NEW n \in 1 .. Len(q)
  PROVE  /\ SubSeq(q, n, Len(q)) \in Seq(S) \ {<<>>}
         /\ Head(SubSeq(q, n, Len(q))) = q[n]
         /\ Range(SubSeq(q, n, Len(q))) = {q[i] : i \in n .. Len(q)}
<1> DEFINE r == SubSeq(q, n, Len(q))
<1>1. r \in Seq(S) /\ Len(r) = Len(q) - n + 1 /\ \A i \in 1 .. Len(r) : r[i] = q[n + i - 1]
  OBVIOUS
<1>2. r # <<>> /\ Head(r) = q[n]
  <2> HIDE DEF r
  <2>1. 1 \in 1 .. Len(r) /\ n + 1 - 1 = n
    BY <1>1
  <2> QED BY <1>1, <2>1
<1>3. \A i \in n .. Len(q) : i - n + 1 \in 1 .. Len(r) /\ r[i - n + 1] = q[i]
  BY <1>1
<1>4. Range(r) \subseteq {q[i] : i \in n .. Len(q)}
  BY <1>1 DEF Range
<1>5. {q[i] : i \in n .. Len(q)} \subseteq Range(r)
  <2> HIDE DEF r
  <2>1. DOMAIN r = 1 .. Len(r)
    BY <1>1
  <2> QED BY <1>3, <2>1 DEF Range
<1> QED BY <1>1, <1>2, <1>4, <1>5

LEMMA HeadAndTail ==
  ASSUME NEW S, NEW q \in Seq(S), q # <<>>
  PROVE  /\ Head(q) \in S /\ Tail(q) \in Seq(S)
         /\ Range(q) = {Head(q)} \cup Range(Tail(q))
<1> DEFINE r == Tail(q)
<1>1. /\ r \in Seq(S) /\ Len(q) \in Nat \ {0} /\ Len(r) = Len(q) - 1
      /\ DOMAIN q = 1 .. Len(q) /\ DOMAIN r = 1 .. Len(r)
      /\ \A i \in 1 .. Len(r) : r[i] = q[i + 1]
      /\ Head(q) = q[1] /\ Head(q) \in S
  OBVIOUS
<1> HIDE DEF r
<1>2. \A i \in DOMAIN q : i = 1 \/ (i - 1 \in DOMAIN r /\ q[i] = r[i - 1])
  BY <1>1
<1>3. \A i \in DOMAIN r : i + 1 \in DOMAIN q /\ r[i] = q[i + 1]
  BY <1>1
<1>4. 1 \in DOMAIN q
  BY <1>1
<1>5. Range(q) = {q[1]} \cup Range(r)
  <2>1. Range(q) \subseteq {q[1]} \cup Range(r)
    BY <1>2 DEF Range
  <2>2. {q[1]} \cup Range(r) \subseteq Range(q)
    BY <1>3, <1>4 DEF Range
  <2> QED BY <2>1, <2>2
<1> QED BY <1>1, <1>5 DEF r

\* What a sequence has after an append.
LEMMA AppendRange ==
  ASSUME NEW q, q \in Seq(Range(q)), NEW e
  PROVE  /\ Append(q, e) \in Seq(Range(Append(q, e)))
         /\ \A i \in DOMAIN Append(q, e) : Append(q, e)[i] = e \/ \E j \in DOMAIN q : Append(q, e)[i] = q[j]
<1> DEFINE r == Append(q, e)
           S == Range(q) \cup {e}
<1>1. q \in Seq(S) /\ e \in S
  OBVIOUS
<1>2. /\ r \in Seq(S) /\ Len(q) \in Nat /\ Len(r) = Len(q) + 1 /\ DOMAIN r = 1 .. Len(r)
      /\ DOMAIN q = 1 .. Len(q)
      /\ \A i \in 1 .. Len(r) : r[i] = IF i = Len(q) + 1 THEN e ELSE q[i]
  <2> HIDE DEF S
  <2> QED BY <1>1
<1> HIDE DEF r, S
<1>3. \A i \in DOMAIN r : r[i] \in Range(r)
  BY DEF Range
<1>4. r \in Seq(Range(r))
  BY <1>2, <1>3
<1>5. \A i \in DOMAIN r : r[i] = e \/ (i \in DOMAIN q /\ r[i] = q[i])
  BY <1>2
<1> QED BY <1>4, <1>5 DEF r

\* Rows laid over rows are rows of either.
LEMMA OverRows ==
  ASSUME NEW f, NEW g, NEW obj, NEW con, RowsOK(f, obj, con), RowsOK(g, obj, con)
  PROVE  RowsOK(Over(f, g), obj, con)
BY DEF RowsOK, Over

LEMMA WithRowRows ==
  ASSUME NEW f, NEW k, NEW row, NEW obj, NEW con, RowsOK(f, obj, con), RowOK(row, k, obj, con)
  PROVE  RowsOK(WithRow(f, k, row), obj, con)
<1>1. RowsOK([j \in {k} |-> row], obj, con)
  BY DEF RowsOK
<1> QED BY <1>1, OverRows DEF WithRow

\* An object keeps its key, and does not come to wait for an ID.
Keeps(h, o, p, con) ==
  Crossed(h, con) \/ (p[h].key = o[h].key /\ (p[h].action = o[h].action \/ p[h].action # "Create"))
KeepsRows(o, p, con) ==
  \A h \in Objects : Crossed(h, con) \/ p[h].key = o[h].key \/ o[h].key = h
Grows(con, don) == \A h \in Objects : Crossed(h, con) => Crossed(h, don)

LEMMA RowsKept ==
  ASSUME NEW f, NEW o, NEW p, NEW con, NEW don,
         RowsOK(f, o, con), KeepsRows(o, p, don), Grows(con, don)
  PROVE  RowsOK(f, p, don)
BY DEF RowsOK, RowOK, KeepsRows, Grows

\* A save is not disturbed as long as the objects it reaches keep their keys.
LEMMA Bystander ==
  ASSUME NEW c, NEW o, NEW p, NEW con, NEW don, CallOK(c, o, con), Grows(con, don),
         \A h \in Range(c.graph) : Keeps(h, o, p, don), KeepsRows(o, p, don)
  PROVE  CallOK(c, p, don)
<1>1. CallType(c) /\ RowsOK(c.staged, p, don)
  BY RowsKept DEF CallOK
<1>2. /\ Range(c.graph) \subseteq Objects
      /\ c.todo # <<>> => Head(c.todo) \in Range(c.graph)
  <2>1. Range(c.graph) \subseteq Objects
    BY <1>1 DEF CallType, Range
  <2>2. c.todo # <<>> => Head(c.todo) \in Range(c.todo)
    BY <1>1 DEF CallType, Range
  <2> QED BY <1>1, <2>1, <2>2 DEF CallType
<1>3. ReserveOK(c, p, don)
  BY <1>2 DEF CallOK, ReserveOK, Grows, Keeps, Ready
<1>4. AllocateOK(c, p, don)
  BY <1>2 DEF CallOK, AllocateOK, Grows, Keeps
<1>5. ReadyOK(c, p, don)
  BY <1>2 DEF CallOK, ReadyOK, Grows, Keeps, Ready
<1>6. WriteOK(c, p, don)
  BY <1>2 DEF CallOK, WriteOK, CommandOK, Grows, Keeps
<1>7. OldOK(c, p, don)
  <2>1. ASSUME NEW i \in DOMAIN c.old PROVE EntryOK(c.old[i], c.graph, p, don)
    BY <1>2, <2>1 DEF CallOK, OldOK, EntryOK, Grows, Keeps
  <2> QED BY <2>1 DEF CallOK, OldOK
<1> QED BY <1>1, <1>3, <1>4, <1>5, <1>6, <1>7 DEF CallOK

\* A step of one save: the others stay as they are.
LEMMA SaveStep ==
  ASSUME IInv, NEW s \in Savers, NEW c,
         items' = items, contested' = contested, save' = [save EXCEPT ![s] = c],
         c.graph = save[s].graph \/ c.graph = <<>>,
         ObjectsOK(object'), KeepsRows(object, object', contested),
         \A h \in Objects \ Range(save[s].graph) : Keeps(h, object, object', contested),
         CallOK(c, object', contested), RowsOK(table', object', contested)
  PROVE  IInv'
<1>1. Grows(contested, contested)
  BY DEF Grows
<1>2. \A t \in Savers : save'[t] = IF t = s THEN c ELSE save[t]
  BY DEF IInv
<1>3. ASSUME NEW t \in Savers \ {s} PROVE CallOK(save[t], object', contested)
  <2>1. CallOK(save[t], object, contested)
    BY DEF IInv
  <2>2. Range(save[t].graph) \subseteq Objects
    BY <2>1 DEF CallOK, CallType, Range
  <2>3. \A h \in Range(save[t].graph) : Keeps(h, object, object', contested)
    BY <2>2 DEF IInv, Exclusive, Keeps
  <2> QED BY <1>1, <2>1, <2>3, Bystander
<1>4. \A t \in Savers : CallOK(save'[t], object', contested)
  BY <1>2, <1>3
<1>5. Exclusive(save', contested)
  <2>1. Range(c.graph) \subseteq Range(save[s].graph)
    BY DEF Range
  <2> QED BY <1>2, <2>1 DEF IInv, Exclusive
<1> QED BY <1>4, <1>5 DEF IInv

-----------------------------------------------------------------------------
(* What attaching and building a command leave of the objects *)

\* The objects of p are those of o, by their keys and actions.
Alike(o, p) == \A h \in Objects : p[h].key = o[h].key /\ p[h].action = o[h].action

LEMMA AlikeKeeps ==
  ASSUME NEW o, NEW p, NEW con, Alike(o, p)
  PROVE  KeepsRows(o, p, con) /\ \A h \in Objects : Keeps(h, o, p, con)
BY DEF Alike, KeepsRows, Keeps

LEMMA AttachKeeps ==
  ASSUME NEW m, NEW hs, NEW r, ObjectsOK(m.object)
  PROVE  ObjectsOK(AttachAll(m, hs, r).object) /\ Alike(m.object, AttachAll(m, hs, r).object)
<1> DEFINE p == AttachAll(m, hs, r).object
<1>1. p = [h \in Objects |-> IF h \in Range(hs) THEN [m.object[h] EXCEPT !.root = r] ELSE m.object[h]]
  BY DEF AttachAll
<1>2. ASSUME NEW h \in Objects
      PROVE  IsObject(p[h]) /\ p[h].key = m.object[h].key /\ p[h].action = m.object[h].action
  <2>1. IsObject(m.object[h])
    BY DEF ObjectsOK
  <2>2. p[h] = IF h \in Range(hs) THEN [m.object[h] EXCEPT !.root = r] ELSE m.object[h]
    BY <1>1
  <2> HIDE DEF p
  <2> QED BY <2>1, <2>2 DEF IsObject, ObjectFields
<1>3. DOMAIN p = Objects
  BY <1>1
<1> QED BY <1>2, <1>3 DEF ObjectsOK, Alike

\* Checking a command only touches its ledger.
LEMMA CheckKeeps ==
  ASSUME NEW m, NEW hs, NEW r, NEW h
  PROVE  Check(AttachAll(m, hs, r), h).object = AttachAll(m, hs, r).object
BY DEF Check, AttachAll

\* A call whose work ends, goes on or is given up.
LEMMA FailedOK ==
  ASSUME NEW c, NEW obj, NEW con, CallType(c), OldOK(c, obj, con)
  PROVE  CallOK(Failed(c), obj, con) /\ Failed(c).graph = c.graph
<1>1. /\ DOMAIN Failed(c) = SaveFields /\ Failed(c).pc = "undo" /\ Failed(c).todo = <<>>
      /\ Failed(c).graph = c.graph /\ Failed(c).staged = <<>> /\ Failed(c).old = c.old
  BY DEF Failed, CallType, SaveFields
<1>2. RowsOK(Failed(c).staged, obj, con)
  <2>1. DOMAIN <<>> = {}
    OBVIOUS
  <2> QED BY <1>1, <2>1 DEF RowsOK
<1>3. Range(Failed(c).todo) = {}
  BY <1>1 DEF Range
<1> HIDE DEF Failed
<1>4. CallType(Failed(c))
  BY <1>1, <1>3 DEF CallType
<1>5. OldOK(Failed(c), obj, con)
  BY <1>1 DEF OldOK
<1> QED BY <1>1, <1>2, <1>4, <1>5 DEF CallOK, ReserveOK, AllocateOK, ReadyOK, WriteOK

LEMMA ProceedOK ==
  ASSUME NEW c, NEW m, NEW todo \in Seq(Objects), NEW con, ObjectsOK(m.object),
         CallType(c), Range(todo) \subseteq Range(c.graph), c.pc \in {"begin", "write"},
         ReadyOK(c, m.object, con), OldOK(c, m.object, con), RowsOK(c.staged, m.object, con)
  PROVE  LET next == Proceed(c, m, todo)
         IN  /\ ObjectsOK(next.memory.object) /\ Alike(m.object, next.memory.object)
             /\ CallOK(next.save, m.object, con) /\ next.save.graph = c.graph
<1> DEFINE r == m.object[Head(c.graph)].root
           pending == {i \in 1 .. Len(todo) : Pending(AttachAll(m, SubSeq(todo, 1, i), r), todo[i])}
           n == IF pending = {} THEN Len(todo) ELSE Min(pending)
           reached == SubSeq(todo, 1, n)
           attached == Attachable(m, reached, r)
           after == AttachAll(m, attached, r)
           done == [c EXCEPT !.pc = "commit", !.todo = <<>>, !.command = NoCommand]
           goes == [c EXCEPT !.pc = "write", !.todo = SubSeq(todo, n, Len(todo)),
                             !.command = Command(after, todo[n])]
           next == Proceed(c, m, todo)
<1>1. pending # {} => n \in pending /\ n \in 1 .. Len(todo)
  <2>1. pending \subseteq Nat
    OBVIOUS
  <2>2. pending # {} => Min(pending) \in pending
    <3> HIDE DEF pending
    <3> QED BY <2>1, MinLeast
  <2>3. pending \subseteq 1 .. Len(todo)
    OBVIOUS
  <2> HIDE DEF pending
  <2> QED BY <2>2, <2>3
<1>2. \/ next = [save |-> Failed(c), memory |-> after]
      \/ next = [save |-> done, memory |-> after]
      \/ pending # {} /\ next = [save |-> goes, memory |-> Check(after, todo[n])]
  <2>1. next = CASE attached # reached -> [save |-> Failed(c), memory |-> after]
                 [] attached = reached /\ pending = {} -> [save |-> done, memory |-> after]
                 [] OTHER -> [save |-> goes, memory |-> Check(after, todo[n])]
    BY DEF Proceed
  <2> HIDE DEF next, attached, reached, done, goes, after, pending, n
  <2> QED BY <2>1
<1>3. next.memory.object = after.object
  <2>1. Check(after, todo[n]).object = after.object
    <3> HIDE DEF attached, n, r
    <3> QED BY CheckKeeps
  <2> HIDE DEF next, after, pending, n, done, goes
  <2> QED BY <1>2, <2>1
<1>4. ObjectsOK(after.object) /\ Alike(m.object, after.object)
  BY AttachKeeps
<1>5. CallOK(done, m.object, con) /\ done.graph = c.graph
  <2>1. /\ DOMAIN done = SaveFields /\ done.pc = "commit" /\ done.todo = <<>>
        /\ done.graph = c.graph /\ done.staged = c.staged /\ done.old = c.old
    BY DEF CallType, SaveFields
  <2>2. Range(done.todo) = {}
    BY <2>1 DEF Range
  <2> HIDE DEF done
  <2>3. CallType(done) /\ OldOK(done, m.object, con)
    BY <2>1, <2>2 DEF CallType, OldOK
  <2> QED BY <2>1, <2>3 DEF CallOK, ReserveOK, AllocateOK, ReadyOK, WriteOK
<1>6. pending # {} => CallOK(goes, m.object, con) /\ goes.graph = c.graph
  <2> SUFFICES ASSUME pending # {} PROVE CallOK(goes, m.object, con) /\ goes.graph = c.graph
    OBVIOUS
  <2> DEFINE h == todo[n]
  <2>1. n \in 1 .. Len(todo)
    BY <1>1
  <2>2. /\ SubSeq(todo, n, Len(todo)) \in Seq(Objects) \ {<<>>}
        /\ Head(SubSeq(todo, n, Len(todo))) = h
        /\ Range(SubSeq(todo, n, Len(todo))) = {todo[i] : i \in n .. Len(todo)}
    <3> HIDE DEF n
    <3> QED BY <2>1, FromPlace
  <2>3. /\ DOMAIN goes = SaveFields /\ goes.pc = "write" /\ goes.todo = SubSeq(todo, n, Len(todo))
        /\ goes.graph = c.graph /\ goes.staged = c.staged /\ goes.old = c.old
        /\ goes.command = Command(after, h)
    <3> HIDE DEF n, after
    <3> QED BY DEF CallType, SaveFields
  <2>4. h \in Objects /\ h \in Range(c.graph) /\ Range(goes.todo) \subseteq Range(c.graph)
    <3> HIDE DEF n, goes
    <3>1. \A i \in n .. Len(todo) : todo[i] \in Range(todo)
      BY <2>1 DEF Range
    <3> QED BY <2>1, <2>2, <2>3, <3>1
  <2>5. /\ Command(after, h).object = {h}
        /\ Command(after, h).kind = m.object[h].action
        /\ Command(after, h).key = m.object[h].key
    <3> HIDE DEF after, n
    <3> QED BY <1>4, <2>4 DEF Command, Alike
  <2>6. m.object[h].action \in Actions
    BY <2>4 DEF ObjectsOK, IsObject
  <2>7. Crossed(h, con) \/ Ready(m.object[h], h)
    BY <2>4 DEF ReadyOK
  <2> HIDE DEF goes, after, n, h
  <2>8. WriteOK(goes, m.object, con)
    BY <2>2, <2>3, <2>5, <2>6, <2>7 DEF WriteOK, CommandOK, Ready
  <2>9. CallType(goes) /\ OldOK(goes, m.object, con)
    BY <2>2, <2>3, <2>4 DEF CallType, OldOK
  <2>10. ReadyOK(goes, m.object, con)
    BY <2>3 DEF ReadyOK
  <2> QED BY <2>3, <2>8, <2>9, <2>10 DEF CallOK, ReserveOK, AllocateOK
<1>7. CallOK(Failed(c), m.object, con) /\ Failed(c).graph = c.graph
  BY FailedOK
<1> HIDE DEF next, after, pending, n, done, goes
<1>8. CallOK(next.save, m.object, con) /\ next.save.graph = c.graph
  BY <1>2, <1>5, <1>6, <1>7
<1> QED BY <1>3, <1>4, <1>8 DEF next

-----------------------------------------------------------------------------
(* The invariant holds at the start *)

LEMMA IdleOK ==
  ASSUME NEW obj, NEW con
  PROVE  CallOK(Idle, obj, con)
<1>1. /\ DOMAIN Idle = SaveFields /\ Idle.pc = "idle" /\ Idle.graph = <<>> /\ Idle.todo = <<>>
      /\ Idle.staged = <<>> /\ Idle.old = <<>> /\ DOMAIN <<>> = {}
  BY DEF Idle, SaveFields
<1>2. Range(<<>>) = {}
  BY DEF Range
<1> HIDE DEF Idle
<1>3. CallType(Idle)
  BY <1>1, <1>2 DEF CallType
<1>4. OldOK(Idle, obj, con) /\ RowsOK(Idle.staged, obj, con)
  BY <1>1, <1>2 DEF OldOK, RowsOK
<1> QED BY <1>1, <1>3, <1>4 DEF CallOK, ReserveOK, AllocateOK, ReadyOK, WriteOK

LEMMA Start == Init => IInv
<1> SUFFICES ASSUME Init PROVE IInv
  OBVIOUS
<1> PICK shape \in Shapes :
      /\ items = shape.items
      /\ object = [h \in Objects |-> NewObject(shape, h)]
      /\ table = [k \in Range(shape.ids) |-> [ver |-> 1, val |-> 0, by |-> {}]]
      /\ save = [s \in Savers |-> Idle]
      /\ contested = [h \in Objects |-> {}]
  BY DEF Init
<1>1. items \in [Objects -> Seq(Objects)]
  BY ShapesAssumption DEF ShapesAssumption
<1>2. ObjectsOK(object)
  BY DEF ObjectsOK, IsObject, ObjectFields, NewObject, Actions
<1>3. \A s \in Savers : CallOK(save[s], object, contested)
  BY IdleOK
<1>4. Exclusive(save, contested)
  <2>1. \A s \in Savers : Range(save[s].graph) = {}
    BY DEF Idle, Range
  <2> QED BY <2>1 DEF Exclusive
<1>5. RowsOK(table, object, contested)
  BY DEF RowsOK, RowOK, RowFields
<1> QED BY <1>1, <1>2, <1>3, <1>4, <1>5 DEF IInv

-----------------------------------------------------------------------------
(* The application and other transactions keep it *)

\* No save makes a step.
LEMMA QuietStep ==
  ASSUME IInv, save' = save, items' = items, DOMAIN contested' = Objects,
         Grows(contested, contested'), ObjectsOK(object'), KeepsRows(object, object', contested'),
         \A h \in Objects : Keeps(h, object, object', contested'),
         RowsOK(table', object', contested')
  PROVE  IInv'
<1>1. ASSUME NEW s \in Savers PROVE CallOK(save[s], object', contested')
  <2>1. CallOK(save[s], object, contested)
    BY DEF IInv
  <2>2. Range(save[s].graph) \subseteq Objects
    BY <2>1 DEF CallOK, CallType, Range
  <2> QED BY <2>1, <2>2, Bystander
<1>2. Exclusive(save', contested')
  <2>1. \A s \in Savers : Range(save[s].graph) \subseteq Objects
    BY DEF IInv, CallOK, CallType, Range
  <2> QED BY <2>1 DEF IInv, Exclusive, Grows
<1> QED BY <1>1, <1>2 DEF IInv

LEMMA DisturbGrows ==
  ASSUME NEW h \in Objects, DOMAIN contested = Objects, Disturb(h)
  PROVE  DOMAIN contested' = Objects /\ Grows(contested, contested')
BY DEF Disturb, Grows, Crossed

LEMMA EditStep ==
  ASSUME IInv, NEW h \in Objects, Edit(h) \/ MarkForDeletion(h)
  PROVE  IInv'
<1>1. DOMAIN contested' = Objects /\ Grows(contested, contested')
  BY DisturbGrows DEF IInv, Edit, MarkForDeletion
<1>2. /\ \A g \in Objects : IsObject(object[g])
      /\ DOMAIN object = Objects
  BY DEF IInv, ObjectsOK
<1>3. \/ object' = [object EXCEPT ![h].val = edits']
      \/ object' = [object EXCEPT ![h].action = "Delete"]
  BY DEF Edit, MarkForDeletion
<1>4. /\ ObjectsOK(object')
      /\ \A g \in Objects : /\ object'[g].key = object[g].key
                            /\ object'[g].action \in {object[g].action, "Delete"}
  BY <1>2, <1>3 DEF ObjectsOK, IsObject, ObjectFields, Actions
<1>5. /\ KeepsRows(object, object', contested')
      /\ \A g \in Objects : Keeps(g, object, object', contested')
  BY <1>4 DEF KeepsRows, Keeps
<1>6. save' = save /\ items' = items /\ table' = table
  BY DEF Edit, MarkForDeletion, graph
<1>7. RowsOK(table', object', contested')
  BY <1>1, <1>5, <1>6, RowsKept DEF IInv
<1> QED BY <1>1, <1>4, <1>5, <1>6, <1>7, QuietStep

LEMMA RecoverStep ==
  ASSUME IInv, NEW k \in Ids, Recover(k)
  PROVE  IInv'
<1>1. save' = save /\ items' = items /\ object' = object /\ contested' = contested
  BY DEF Recover, graph, memory
<1>2. RowsOK(table', object, contested)
  <2>1. k \in DOMAIN table /\ table' = [table EXCEPT ![k].ver = 1 - @]
    BY DEF Recover, RecoverRow
  <2>2. RowsOK(table, object, contested)
    BY DEF IInv
  <2>3. ASSUME NEW j \in DOMAIN table' PROVE RowOK(table'[j], j, object, contested)
    <3>1. RowOK(table[j], j, object, contested)
      BY <2>1, <2>2 DEF RowsOK
    <3>2. DOMAIN table'[j] = DOMAIN table[j] /\ table'[j].by = table[j].by
      BY <2>1, <3>1 DEF RowOK, RowFields
    <3> QED BY <3>1, <3>2 DEF RowOK
  <2> QED BY <2>3 DEF RowsOK
<1> QED BY <1>1, <1>2 DEF IInv

LEMMA SaveCallStep ==
  ASSUME IInv, NEW s \in Savers, NEW h \in Objects, Save(s, h)
  PROVE  IInv'
<1> DEFINE hs == Graph(h)
           c == [Idle EXCEPT !.pc = "reserve", !.graph = hs, !.todo = hs]
<1>1. hs \in Seq(Objects)
  BY DEF IInv, Graph
<1>2. /\ items' = items /\ object' = object /\ table' = table
      /\ save' = [save EXCEPT ![s] = c]
      /\ contested' = [o \in Objects |-> contested[o] \cup
           IF o \notin Range(hs) THEN {}
           ELSE {IF context[t] = context[s] THEN "saved" ELSE "crossed" :
                   t \in {u \in Savers : Reaches(u, o)}}]
  BY DEF Save, graph, memory
<1>3. Grows(contested, contested')
  BY <1>2 DEF Grows, Crossed
<1>4. \A t \in Savers : save'[t] = IF t = s THEN c ELSE save[t]
  BY <1>2 DEF IInv
<1>5. /\ \A o, con : Keeps(o, object, object, con)
      /\ \A con : KeepsRows(object, object, con)
  BY DEF Keeps, KeepsRows
<1>6. CallOK(c, object, contested')
  <2>1. /\ DOMAIN c = SaveFields /\ c.pc = "reserve" /\ c.graph = hs /\ c.todo = hs
        /\ c.staged = <<>> /\ c.old = <<>> /\ DOMAIN <<>> = {}
    BY DEF Idle, SaveFields
  <2>2. Range(<<>>) = {}
    BY DEF Range
  <2> HIDE DEF c, hs
  <2>3. CallType(c)
    BY <1>1, <2>1 DEF CallType
  <2>4. OldOK(c, object, contested') /\ RowsOK(c.staged, object, contested')
    BY <2>1, <2>2 DEF OldOK, RowsOK
  <2> QED BY <2>1, <2>3, <2>4 DEF CallOK, ReserveOK, AllocateOK, ReadyOK, WriteOK
<1>7. ASSUME NEW t \in Savers PROVE CallOK(save'[t], object', contested')
  <2>1. CallOK(save[t], object, contested)
    BY DEF IInv
  <2>2. CallOK(save[t], object, contested')
    BY <1>3, <1>5, <2>1, Bystander
  <2> HIDE DEF c
  <2> QED BY <1>2, <1>4, <1>6, <2>2
<1>8. Exclusive(save', contested')
  <2>1. \A t \in Savers : Range(save[t].graph) \subseteq Objects
    BY DEF IInv, CallOK, CallType, Range
  <2>2. ASSUME NEW t \in Savers, NEW o \in Range(hs) \cap Range(save[t].graph)
        PROVE  Crossed(o, contested')
    <3>1. save[t].pc # "idle"
      <4>1. save[t].graph # <<>>
        BY DEF Range
      <4> QED BY <4>1 DEF IInv, CallOK, CallType
    <3>2. Reaches(t, o)
      BY <3>1 DEF Reaches
    <3>3. o \in Objects
      BY <2>1
    <3> HIDE DEF hs
    <3>4. \/ "saved" \in contested'[o]
          \/ "crossed" \in contested'[o]
      BY <1>2, <3>2, <3>3
    <3> QED BY <3>4 DEF Crossed
  <2>3. c.graph = hs
    BY DEF Idle
  <2> HIDE DEF c, hs
  <2>4. ASSUME NEW t \in Savers, NEW u \in Savers, t # u,
               NEW o \in Range(save'[t].graph) \cap Range(save'[u].graph)
        PROVE  Crossed(o, contested')
    <3>1. CASE t = s
      BY <1>4, <2>2, <2>3, <2>4, <3>1
    <3>2. CASE u = s
      BY <1>4, <2>2, <2>3, <2>4, <3>2
    <3>3. CASE t # s /\ u # s
      BY <1>3, <1>4, <2>1, <2>4, <3>3 DEF IInv, Exclusive, Grows
    <3> QED BY <3>1, <3>2, <3>3
  <2> QED BY <2>4 DEF Exclusive
<1>9. RowsOK(table', object', contested')
  BY <1>2, <1>3, <1>5, RowsKept DEF IInv
<1>10. DOMAIN contested' = Objects
  BY <1>2
<1>11. DOMAIN save' = Savers
  BY <1>2 DEF IInv
<1> QED BY <1>2, <1>7, <1>8, <1>9, <1>10, <1>11 DEF IInv

-----------------------------------------------------------------------------
(* The steps before the transaction keep it *)

\* A step that leaves the objects alike.
LEMMA AlikeStep ==
  ASSUME IInv, NEW s \in Savers, NEW c,
         items' = items, contested' = contested, save' = [save EXCEPT ![s] = c],
         c.graph = save[s].graph \/ c.graph = <<>>,
         ObjectsOK(object'), Alike(object, object'),
         CallOK(c, object, contested), RowsOK(table', object, contested)
  PROVE  IInv'
<1>1. /\ Grows(contested, contested) /\ KeepsRows(object, object', contested)
      /\ \A h \in Objects : Keeps(h, object, object', contested)
  BY AlikeKeeps DEF Grows
<1>2. RowsOK(table', object', contested)
  BY <1>1, RowsKept
<1>3. Range(c.graph) \subseteq Objects
  BY DEF CallOK, CallType, Range
<1>4. CallOK(c, object', contested)
  BY <1>1, <1>3, Bystander
<1> QED BY <1>1, <1>2, <1>4, SaveStep

LEMMA IdleStep ==
  ASSUME IInv, NEW s \in Savers, items' = items, object' = object, table' = table,
         contested' = contested, save' = [save EXCEPT ![s] = Idle]
  PROVE  IInv'
<1>1. CallOK(Idle, object, contested) /\ Idle.graph = <<>>
  BY IdleOK DEF Idle
<1>2. ObjectsOK(object') /\ Alike(object, object') /\ RowsOK(table', object, contested)
  BY DEF IInv, Alike
<1> QED BY <1>1, <1>2, AlikeStep

LEMMA ReserveStep ==
  ASSUME IInv, NEW s \in Savers, Reserve(s)
  PROVE  IInv'
<1> DEFINE todo == save[s].todo
           r == Root(Head(save[s].graph))
           waiting == {i \in 1 .. Len(todo) : NeedsId(todo[i])}
           n == IF waiting = {} THEN Len(todo) ELSE Min(waiting)
           reached == SubSeq(todo, 1, n)
           attached == Attachable(Memory, reached, r)
           begins == [save[s] EXCEPT !.pc = "begin", !.todo = <<>>]
           waits == [save[s] EXCEPT !.pc = "allocate", !.todo = SubSeq(todo, n, Len(todo))]
           c == IF attached # reached THEN Idle ELSE IF waiting = {} THEN begins ELSE waits
<1>1. /\ save[s].pc = "reserve" /\ items' = items /\ table' = table /\ contested' = contested
      /\ save' = [save EXCEPT ![s] = c]
      /\ object' = AttachAll(Memory, attached, r).object
  BY DEF Reserve, Remember, graph
<1>2. CallOK(save[s], object, contested)
  BY DEF IInv
<1>3. ObjectsOK(object') /\ Alike(object, object')
  <2>1. Memory.object = object
    BY DEF Memory
  <2> HIDE DEF attached, r
  <2>2. ObjectsOK(Memory.object)
    BY <2>1 DEF IInv
  <2> QED BY <1>1, <2>1, <2>2, AttachKeeps
<1>4. todo \in Seq(Objects) /\ Range(todo) = {todo[i] : i \in 1 .. Len(todo)}
  BY <1>2 DEF CallOK, CallType, Range
<1>5. /\ DOMAIN save[s] = SaveFields /\ save[s].old = <<>>
      /\ RowsOK(save[s].staged, object, contested) /\ OldOK(save[s], object, contested)
  BY <1>1, <1>2 DEF CallOK, CallType, OldOK
<1>6. waiting = {} => CallOK(begins, object, contested) /\ begins.graph = save[s].graph
  <2> SUFFICES ASSUME waiting = {}
               PROVE  CallOK(begins, object, contested) /\ begins.graph = save[s].graph
    OBVIOUS
  <2>1. /\ DOMAIN begins = SaveFields /\ begins.pc = "begin" /\ begins.todo = <<>>
        /\ begins.graph = save[s].graph /\ begins.staged = save[s].staged
        /\ begins.old = save[s].old
    BY <1>5 DEF SaveFields
  <2>2. \A h \in Range(todo) : Ready(object[h], h)
    BY <1>4 DEF NeedsId, Key, Ready
  <2>3. Range(begins.todo) = {}
    BY <2>1 DEF Range
  <2> HIDE DEF begins
  <2>4. ReadyOK(begins, object, contested)
    BY <1>1, <1>2, <2>1, <2>2 DEF ReadyOK, CallOK, ReserveOK
  <2>5. CallType(begins) /\ OldOK(begins, object, contested)
    BY <1>2, <1>5, <2>1, <2>3 DEF CallOK, CallType, OldOK
  <2> QED BY <1>5, <2>1, <2>4, <2>5 DEF CallOK, ReserveOK, AllocateOK, WriteOK
<1>7. waiting # {} => CallOK(waits, object, contested) /\ waits.graph = save[s].graph
  <2> SUFFICES ASSUME waiting # {}
               PROVE  CallOK(waits, object, contested) /\ waits.graph = save[s].graph
    OBVIOUS
  <2>1. waiting \subseteq Nat /\ waiting \subseteq 1 .. Len(todo)
    BY <1>4
  <2>2. n \in waiting
    <3> HIDE DEF waiting
    <3> QED BY <2>1, MinLeast
  <2>3. n \in 1 .. Len(todo) /\ NeedsId(todo[n])
    <3> HIDE DEF n
    <3> QED BY <2>2
  <2>4. \A i \in 1 .. Len(todo) : NeedsId(todo[i]) => i \in n .. Len(todo)
    <3>1. \A y \in waiting : n <= y
      <4> HIDE DEF waiting
      <4> QED BY <2>1, MinLeast
    <3>2. n \in Nat /\ Len(todo) \in Nat
      <4> HIDE DEF n
      <4> QED BY <1>4, <2>3
    <3>3. \A i \in 1 .. Len(todo) : NeedsId(todo[i]) => n <= i
      <4> HIDE DEF n
      <4> QED BY <3>1
    <3> HIDE DEF n, todo
    <3> QED BY <3>2, <3>3
  <2>5. /\ SubSeq(todo, n, Len(todo)) \in Seq(Objects) \ {<<>>}
        /\ Head(SubSeq(todo, n, Len(todo))) = todo[n]
        /\ Range(SubSeq(todo, n, Len(todo))) = {todo[i] : i \in n .. Len(todo)}
    <3> HIDE DEF n, todo
    <3> QED BY <1>4, <2>3, FromPlace
  <2>6. /\ DOMAIN waits = SaveFields /\ waits.pc = "allocate"
        /\ waits.todo = SubSeq(todo, n, Len(todo))
        /\ waits.graph = save[s].graph /\ waits.staged = save[s].staged
        /\ waits.old = save[s].old
    <3> HIDE DEF n
    <3> QED BY <1>5 DEF SaveFields
  <2> HIDE DEF n, waits
  <2>7. \A h \in Range(todo) : h \in Range(waits.todo) \/ Ready(object[h], h)
    BY <1>4, <2>4, <2>5, <2>6 DEF NeedsId, Key, Ready
  <2>8. Range(waits.todo) \subseteq Range(todo)
    BY <1>4, <2>3, <2>5, <2>6
  <2>9. ReserveOK(waits, object, contested)
    BY <1>1, <1>2, <2>6, <2>7 DEF ReserveOK, CallOK
  <2>10. AllocateOK(waits, object, contested)
    BY <2>3, <2>5, <2>6 DEF AllocateOK, NeedsId, Key
  <2>11. CallType(waits) /\ OldOK(waits, object, contested)
    BY <1>2, <1>5, <2>5, <2>6, <2>8 DEF CallOK, CallType, OldOK
  <2> QED BY <1>5, <2>6, <2>9, <2>10, <2>11 DEF CallOK, ReadyOK, WriteOK
<1>8. CallOK(c, object, contested) /\ (c.graph = save[s].graph \/ c.graph = <<>>)
  <2>1. CallOK(Idle, object, contested) /\ Idle.graph = <<>>
    BY IdleOK DEF Idle
  <2> HIDE DEF attached, reached, waiting, begins, waits
  <2> QED BY <1>6, <1>7, <2>1
<1>9. RowsOK(table', object, contested)
  BY <1>1 DEF IInv
<1> HIDE DEF c
<1> QED BY <1>1, <1>3, <1>8, <1>9, AlikeStep

\* The ID of the object is not one of the temporary ones: no row is its yet.
LEMMA AllocateStep ==
  ASSUME IInv, NEW s \in Savers, Allocate(s)
  PROVE  IInv'
<1> DEFINE h == Head(save[s].todo)
           c == [save[s] EXCEPT !.pc = "reserve", !.todo = Tail(@)]
<1>1. CallOK(save[s], object, contested)
  BY DEF IInv
<1>2. /\ DOMAIN save[s] = SaveFields /\ save[s].pc = "allocate" /\ save[s].todo # <<>>
      /\ save[s].todo \in Seq(Objects) /\ save[s].old = <<>>
      /\ OldOK(save[s], object, contested)
  BY <1>1 DEF Allocate, CallOK, CallType, AllocateOK, OldOK
<1>3. /\ items' = items /\ table' = table /\ contested' = contested
      /\ nextId \in Ids /\ object' = [object EXCEPT ![h].key = nextId]
  BY DEF Allocate, graph
<1>4. save' = [save EXCEPT ![s] = c]
  BY <1>2 DEF Allocate, SaveFields, IInv
<1>5. /\ h \in Objects /\ h \in Range(save[s].graph)
      /\ Tail(save[s].todo) \in Seq(Objects)
      /\ Range(save[s].todo) = {h} \cup Range(Tail(save[s].todo))
  <2>1. /\ h \in Objects /\ Tail(save[s].todo) \in Seq(Objects)
        /\ Range(save[s].todo) = {h} \cup Range(Tail(save[s].todo))
    BY <1>2, HeadAndTail
  <2> QED BY <1>1, <2>1 DEF CallOK, CallType
<1>6. nextId # h
  BY <1>3, <1>5, IdsAssumption DEF IdsAssumption
<1>7. Crossed(h, contested) \/ object[h].key = h
  BY <1>1, <1>2 DEF CallOK, AllocateOK
<1> HIDE DEF h
<1>8. /\ ObjectsOK(object') /\ object'[h].key = nextId
      /\ \A g \in Objects \ {h} : object'[g] = object[g]
  <2>1. \A g \in Objects : IsObject(object[g])
    BY DEF IInv, ObjectsOK
  <2> QED BY <1>3, <1>5, <2>1 DEF IInv, ObjectsOK, IsObject, ObjectFields
<1>9. /\ KeepsRows(object, object', contested) /\ Grows(contested, contested)
      /\ \A g \in Objects \ Range(save[s].graph) : Keeps(g, object, object', contested)
  BY <1>5, <1>7, <1>8 DEF KeepsRows, Grows, Keeps
<1>10. CallOK(c, object', contested)
  <2>1. /\ DOMAIN c = SaveFields /\ c.pc = "reserve" /\ c.todo = Tail(save[s].todo)
        /\ c.graph = save[s].graph /\ c.staged = save[s].staged /\ c.old = save[s].old
        /\ DOMAIN <<>> = {}
    BY <1>2 DEF SaveFields
  <2> HIDE DEF c
  <2>2. CallType(c)
    BY <1>1, <1>5, <2>1 DEF CallOK, CallType
  <2>3. OldOK(c, object', contested)
    BY <1>2, <2>1 DEF OldOK
  <2>4. Range(c.graph) \subseteq Objects
    BY <2>2 DEF CallType, Range
  <2>5. ReserveOK(c, object', contested)
    <3>1. ASSUME NEW g \in Range(c.graph)
          PROVE  g \in Range(c.todo) \/ Crossed(g, contested) \/ Ready(object'[g], g)
      <4>1. CASE g = h
        BY <1>6, <1>8, <4>1 DEF Ready
      <4>2. CASE g # h
        <5>1. g \in Range(save[s].todo) \/ Crossed(g, contested) \/ Ready(object[g], g)
          BY <1>1, <1>2, <2>1 DEF CallOK, ReserveOK
        <5>2. object'[g] = object[g]
          BY <1>8, <2>4, <4>2
        <5> QED BY <1>5, <2>1, <4>2, <5>1, <5>2
      <4> QED BY <4>1, <4>2
    <3> QED BY <3>1 DEF ReserveOK
  <2>6. RowsOK(c.staged, object', contested)
    BY <1>1, <1>9, <2>1, RowsKept DEF CallOK
  <2> QED BY <2>1, <2>2, <2>3, <2>5, <2>6 DEF CallOK, AllocateOK, ReadyOK, WriteOK
<1>11. RowsOK(table', object', contested)
  BY <1>3, <1>9, RowsKept DEF IInv
<1>12. c.graph = save[s].graph
  BY <1>2 DEF SaveFields
<1> HIDE DEF c
<1> QED BY <1>3, <1>4, <1>8, <1>9, <1>10, <1>11, <1>12, SaveStep

LEMMA GiveUpStep ==
  ASSUME IInv, NEW s \in Savers, GiveUp(s)
  PROVE  IInv'
BY IdleStep DEF GiveUp, graph, memory

-----------------------------------------------------------------------------
(* The transaction keeps it *)

LEMMA BeginStep ==
  ASSUME IInv, NEW s \in Savers, Begin(s)
  PROVE  IInv'
<1> DEFINE hs == save[s].graph
           r == Root(Head(hs))
           attached == Attachable(Memory, hs, r)
           refused == {i \in 1 .. Len(attached) :
                         Incomplete(AttachAll(Memory, SubSeq(hs, 1, i), r), hs[i])}
           reached == IF refused = {} THEN attached ELSE SubSeq(hs, 1, Min(refused))
           checked == IF refused = {} THEN attached ELSE SubSeq(hs, 1, Min(refused) - 1)
           after == AttachAll(Memory, reached, r)
           m == Preflight(r, reached, checked)
           next == Proceed(save[s], m, hs)
<1>1. /\ save[s].pc = "begin" /\ items' = items /\ table' = table /\ contested' = contested
      /\ \/ object' = m.object /\ save' = [save EXCEPT ![s] = Failed(save[s])]
         \/ object' = next.memory.object /\ save' = [save EXCEPT ![s] = next.save]
  BY DEF Begin, Remember, graph
<1>2. CallOK(save[s], object, contested)
  BY DEF IInv
<1>3. m.object = after.object
  BY DEF Preflight, AttachAll
<1>4. ObjectsOK(m.object) /\ Alike(object, m.object)
  <2>1. Memory.object = object
    BY DEF Memory
  <2> HIDE DEF reached, r
  <2>2. ObjectsOK(Memory.object)
    BY <2>1 DEF IInv
  <2> QED BY <1>3, <2>1, <2>2, AttachKeeps
<1> HIDE DEF m
<1>5. CallOK(save[s], m.object, contested)
  <2>1. Range(save[s].graph) \subseteq Objects
    BY <1>2 DEF CallOK, CallType, Range
  <2>2. Grows(contested, contested)
    BY DEF Grows
  <2> QED BY <1>2, <1>4, <2>1, <2>2, AlikeKeeps, Bystander
<1>6. /\ ObjectsOK(next.memory.object) /\ Alike(m.object, next.memory.object)
      /\ CallOK(next.save, m.object, contested) /\ next.save.graph = save[s].graph
  <2>1. /\ CallType(save[s]) /\ hs \in Seq(Objects) /\ Range(hs) \subseteq Range(save[s].graph)
        /\ save[s].pc \in {"begin", "write"} /\ ReadyOK(save[s], m.object, contested)
        /\ OldOK(save[s], m.object, contested) /\ RowsOK(save[s].staged, m.object, contested)
    BY <1>1, <1>5 DEF CallOK, CallType
  <2> HIDE DEF hs
  <2> QED BY <1>4, <2>1, ProceedOK
<1>7. CallOK(Failed(save[s]), m.object, contested) /\ Failed(save[s]).graph = save[s].graph
  BY <1>5, FailedOK DEF CallOK
<1> HIDE DEF next
<1>8. PICK c : /\ save' = [save EXCEPT ![s] = c] /\ c.graph = save[s].graph
               /\ CallOK(c, m.object, contested)
  BY <1>1, <1>6, <1>7
<1>9. ObjectsOK(object') /\ Alike(object, object') /\ Alike(m.object, object')
  BY <1>1, <1>4, <1>6 DEF Alike
<1>10. Alike(m.object, object)
  BY <1>4 DEF Alike
<1>11. CallOK(c, object, contested)
  <2>1. Range(c.graph) \subseteq Objects
    BY <1>8 DEF CallOK, CallType, Range
  <2>2. Grows(contested, contested)
    BY DEF Grows
  <2> QED BY <1>8, <1>10, <2>1, <2>2, AlikeKeeps, Bystander
<1>12. RowsOK(table', object, contested)
  BY <1>1 DEF IInv
<1> QED BY <1>1, <1>8, <1>9, <1>11, <1>12, AlikeStep

LEMMA CheckRaisesStep ==
  ASSUME IInv, NEW s \in Savers, CheckRaises(s)
  PROVE  IInv'
<1>1. PICK hs, r : /\ save[s].pc = "begin" /\ items' = items /\ table' = table
                   /\ contested' = contested /\ object' = AttachAll(Memory, hs, r).object
                   /\ save' = [save EXCEPT ![s] = Failed(save[s])]
  BY DEF CheckRaises, Remember, Preflight, graph
<1>2. CallOK(save[s], object, contested)
  BY DEF IInv
<1>3. ObjectsOK(object') /\ Alike(object, object')
  <2>1. Memory.object = object
    BY DEF Memory
  <2>2. ObjectsOK(Memory.object)
    BY <2>1 DEF IInv
  <2> QED BY <1>1, <2>1, <2>2, AttachKeeps
<1>4. CallOK(Failed(save[s]), object, contested) /\ Failed(save[s]).graph = save[s].graph
  BY <1>2, FailedOK DEF CallOK
<1>5. RowsOK(table', object, contested)
  BY <1>1 DEF IInv
<1> QED BY <1>1, <1>3, <1>4, <1>5, AlikeStep

\* A statement keeps whose row it is, and inserts one for an object with an ID.
LEMMA StatementRow ==
  ASSUME NEW c, NEW rows, NEW h \in Objects, NEW obj, NEW con,
         RowsOK(rows, obj, con), CommandOK(c, h, obj, con), Affects(c, rows)
  PROVE  RowOK(Statement(c, rows)[c.key], c.key, obj, con)
<1>1. CASE c.kind = "Create"
  <2>1. Statement(c, rows) = InsertRow(rows, c.key, c.values["val"], CHOOSE g \in c.object : TRUE)
    BY <1>1 DEF Statement
  <2>2. (CHOOSE g \in c.object : TRUE) = h
    BY DEF CommandOK
  <2>3. Statement(c, rows)[c.key] = [ver |-> 1, val |-> c.values["val"], by |-> {h}]
    BY <2>1, <2>2 DEF InsertRow, WithRow, Over
  <2>4. Crossed(h, con) \/ (obj[h].key = c.key /\ c.key # h)
    BY <1>1 DEF CommandOK
  <2> QED BY <2>3, <2>4 DEF RowOK, RowFields
<1>2. CASE c.kind # "Create"
  <2>1. c.key \in DOMAIN rows /\ RowOK(rows[c.key], c.key, obj, con)
    BY <1>2 DEF Affects, Matches, RowsOK
  <2>2. DOMAIN rows[c.key] = RowFields
    BY <2>1 DEF RowOK
  <2>3. Statement(c, rows) = UpdateRow(rows, c.key, c.expected, c.values)
          \/ Statement(c, rows) = DeleteRow(rows, c.key, c.expected)
    BY <1>2 DEF Statement, CommandOK, Actions
  <2>4. /\ DOMAIN Statement(c, rows)[c.key] = RowFields
        /\ Statement(c, rows)[c.key].by = rows[c.key].by
    <3>1. CASE Statement(c, rows) = UpdateRow(rows, c.key, c.expected, c.values)
      BY <2>1, <2>2, <3>1 DEF UpdateRow, RowFields
    <3>2. CASE Statement(c, rows) = DeleteRow(rows, c.key, c.expected)
      BY <2>1, <2>2, <3>2 DEF DeleteRow, RowFields
    <3> QED BY <2>3, <3>1, <3>2
  <2> QED BY <2>1, <2>4 DEF RowOK
<1> QED BY <1>1, <1>2

LEMMA WriteStep ==
  ASSUME IInv, NEW s \in Savers, Write(s)
  PROVE  IInv'
<1> DEFINE c == save[s].command
           h == Head(save[s].todo)
           row == Statement(c, View(s))[c.key]
           shown == [object[h] EXCEPT !.key = c.key, !.ver = {row.ver}, !.val = row.val,
                                      !.action = IF c.kind = "Delete" THEN @ ELSE "Update"]
           m == [object |-> [object EXCEPT ![h] = shown],
                 ledger |-> [ledger EXCEPT ![Root(h)] = Rekey(@, Key(h), c.key)]]
           rest == IF c.kind = "Delete" /\ h = Head(save[s].graph) THEN <<>> ELSE Tail(save[s].todo)
           entry == <<h, object[h], snapshot[h]>>
           after == [save[s] EXCEPT !.staged = WithRow(@, c.key, row),
                                    !.back = @ \cup SetBack(c.key, row, View(s)),
                                    !.written = Append(@, <<h, c.key>>),
                                    !.old = Append(@, entry)]
           next == Proceed(after, m, rest)
<1>1. /\ save[s].pc = "write" /\ items' = items /\ table' = table /\ contested' = contested
      /\ Affects(c, View(s)) /\ object' = next.memory.object
      /\ save' = [save EXCEPT ![s] = next.save]
  BY DEF Write, Remember, graph
<1>2. CallOK(save[s], object, contested)
  BY DEF IInv
<1>3. /\ save[s].todo \in Seq(Objects) /\ save[s].todo # <<>> /\ CommandOK(c, h, object, contested)
      /\ Range(save[s].todo) \subseteq Range(save[s].graph) /\ DOMAIN save[s] = SaveFields
      /\ CallType(save[s])
  BY <1>1, <1>2 DEF CallOK, CallType, WriteOK
<1>4. /\ h \in Objects /\ h \in Range(save[s].graph)
      /\ rest \in Seq(Objects) /\ Range(rest) \subseteq Range(save[s].graph)
  <2>1. /\ h \in Objects /\ Tail(save[s].todo) \in Seq(Objects)
        /\ Range(save[s].todo) = {h} \cup Range(Tail(save[s].todo))
    BY <1>3, HeadAndTail
  <2>2. <<>> \in Seq(Objects) /\ Range(<<>>) = {}
    BY DEF Range
  <2> HIDE DEF h, c
  <2> QED BY <1>3, <2>1, <2>2
<1>5. RowsOK(View(s), object, contested)
  BY <1>2, OverRows DEF View, CallOK, IInv
<1> HIDE DEF c, h
<1>6. RowOK(row, c.key, object, contested)
  BY <1>1, <1>3, <1>4, <1>5, StatementRow
<1>7. IsObject(object[h]) /\ DOMAIN object = Objects
  BY <1>4 DEF IInv, ObjectsOK
<1> HIDE DEF row
<1>8. /\ IsObject(shown) /\ shown.key = c.key
      /\ shown.action = IF c.kind = "Delete" THEN object[h].action ELSE "Update"
  BY <1>7 DEF IsObject, ObjectFields, Actions
<1> HIDE DEF shown
<1>9. /\ DOMAIN m.object = Objects /\ m.object[h] = shown
      /\ \A g \in Objects \ {h} : m.object[g] = object[g]
  BY <1>4, <1>7
<1> HIDE DEF m
<1>10. ObjectsOK(m.object)
  BY <1>8, <1>9 DEF IInv, ObjectsOK
<1>11. Crossed(h, contested) \/ c.key = object[h].key
  BY <1>3 DEF CommandOK
<1>12. \A g \in Objects : Keeps(g, object, m.object, contested)
  BY <1>8, <1>9, <1>11 DEF Keeps
<1>13. KeepsRows(object, m.object, contested) /\ Grows(contested, contested)
  BY <1>12 DEF KeepsRows, Keeps, Grows
<1>14. CallOK(save[s], m.object, contested)
  <2>1. Range(save[s].graph) \subseteq Objects
    BY <1>3 DEF CallType, Range
  <2> QED BY <1>2, <1>12, <1>13, <2>1, Bystander
<1>15. /\ DOMAIN after = SaveFields /\ after.pc = "write" /\ after.graph = save[s].graph
       /\ after.todo = save[s].todo /\ after.old = Append(save[s].old, entry)
       /\ after.staged = WithRow(save[s].staged, c.key, row)
  BY <1>1, <1>3 DEF SaveFields
<1> HIDE DEF after
<1>16. CallType(after) /\ ReadyOK(after, m.object, contested)
  BY <1>1, <1>3, <1>14, <1>15 DEF CallType, CallOK, ReadyOK
<1>17. RowsOK(after.staged, m.object, contested)
  <2>1. RowsOK(save[s].staged, object, contested)
    BY <1>2 DEF CallOK
  <2>2. RowsOK(after.staged, object, contested)
    BY <1>6, <1>15, <2>1, WithRowRows
  <2> QED BY <1>13, <2>2, RowsKept
<1>18. OldOK(after, m.object, contested)
  <2>1. /\ save[s].old \in Seq(Range(save[s].old))
        /\ \A i \in DOMAIN save[s].old : EntryOK(save[s].old[i], after.graph, m.object, contested)
    BY <1>14, <1>15 DEF CallOK, OldOK
  <2>2. EntryOK(entry, after.graph, m.object, contested)
    BY <1>4, <1>7, <1>8, <1>9, <1>11, <1>15 DEF EntryOK
  <2> HIDE DEF entry
  <2>3. /\ after.old \in Seq(Range(after.old))
        /\ \A i \in DOMAIN after.old : after.old[i] = entry \/ \E j \in DOMAIN save[s].old : after.old[i] = save[s].old[j]
    BY <1>15, <2>1, AppendRange
  <2>4. \A i \in DOMAIN after.old : EntryOK(after.old[i], after.graph, m.object, contested)
    BY <2>1, <2>2, <2>3
  <2> QED BY <1>15, <2>3, <2>4 DEF OldOK
<1> HIDE DEF rest
<1>19. /\ ObjectsOK(next.memory.object) /\ Alike(m.object, next.memory.object)
       /\ CallOK(next.save, m.object, contested) /\ next.save.graph = after.graph
  BY <1>4, <1>10, <1>15, <1>16, <1>17, <1>18, ProceedOK
<1> HIDE DEF next
<1>20. CallOK(next.save, object', contested)
  <2>1. Range(next.save.graph) \subseteq Objects
    BY <1>19 DEF CallOK, CallType, Range
  <2> QED BY <1>1, <1>13, <1>19, <2>1, AlikeKeeps, Bystander
<1>21. /\ KeepsRows(object, object', contested)
       /\ \A g \in Objects \ Range(save[s].graph) : Keeps(g, object, object', contested)
  BY <1>1, <1>12, <1>13, <1>19 DEF Alike, Keeps, KeepsRows
<1>22. RowsOK(table', object', contested)
  BY <1>1, <1>13, <1>21, RowsKept DEF IInv
<1> QED BY <1>1, <1>15, <1>19, <1>20, <1>21, <1>22, SaveStep

LEMMA WriteFailsStep ==
  ASSUME IInv, NEW s \in Savers, WriteFails(s)
  PROVE  IInv'
<1>1. /\ items' = items /\ object' = object /\ table' = table /\ contested' = contested
      /\ save' = [save EXCEPT ![s] = Failed(save[s])]
  BY DEF WriteFails, graph, memory
<1>2. CallOK(Failed(save[s]), object, contested) /\ Failed(save[s]).graph = save[s].graph
  BY FailedOK DEF IInv, CallOK
<1>3. ObjectsOK(object') /\ Alike(object, object') /\ RowsOK(table', object, contested)
  BY <1>1 DEF IInv, Alike
<1> QED BY <1>1, <1>2, <1>3, AlikeStep

\* The rows of the transaction reach the table, or they do not.
LEMMA CommitStep ==
  ASSUME IInv, NEW s \in Savers, Commit(s) \/ CommitRaises(s)
  PROVE  IInv'
<1>1. CallOK(save[s], object, contested) /\ DOMAIN save[s] = SaveFields
  BY DEF IInv, CallOK, CallType
<1>2. PICK pc \in {"settle", "undo"} :
        save' = [save EXCEPT ![s] = [save[s] EXCEPT !.pc = pc, !.staged = <<>>, !.back = {}]]
  BY <1>1 DEF Commit, CommitRaises, SaveFields, IInv
<1> DEFINE c == [save[s] EXCEPT !.pc = pc, !.staged = <<>>, !.back = {}]
<1>3. /\ items' = items /\ object' = object /\ contested' = contested
      /\ table' = View(s) \/ table' = table
  BY DEF Commit, CommitRaises, Apply, graph, memory
<1>4. RowsOK(table', object, contested)
  <2>1. RowsOK(View(s), object, contested)
    BY <1>1, OverRows DEF View, CallOK, IInv
  <2> QED BY <1>3, <2>1 DEF IInv
<1>5. /\ DOMAIN c = SaveFields /\ c.pc = pc /\ c.graph = save[s].graph /\ c.todo = save[s].todo
      /\ c.old = save[s].old /\ c.staged = <<>> /\ DOMAIN <<>> = {}
  BY <1>1 DEF SaveFields
<1> HIDE DEF c
<1>6. CallType(c) /\ OldOK(c, object, contested) /\ RowsOK(c.staged, object, contested)
  BY <1>1, <1>5 DEF CallOK, CallType, OldOK, RowsOK
<1>7. CallOK(c, object, contested)
  BY <1>5, <1>6 DEF CallOK, ReserveOK, AllocateOK, ReadyOK, WriteOK
<1>8. ObjectsOK(object') /\ Alike(object, object')
  BY <1>3 DEF IInv, Alike
<1> QED BY <1>2, <1>3, <1>4, <1>5, <1>7, <1>8, AlikeStep DEF c

LEMMA SettleStep ==
  ASSUME IInv, NEW s \in Savers, Settle(s)
  PROVE  IInv'
BY IdleStep DEF Settle, graph

\* An object that is restored had its ID before it was written.
LEMMA UndoStep ==
  ASSUME IInv, NEW s \in Savers, Undo(s)
  PROVE  IInv'
<1> DEFINE old == save[s].old
           entries(h) == {i \in DOMAIN old : old[i][1] = h}
<1>1. /\ items' = items /\ table' = table /\ contested' = contested
      /\ save' = [save EXCEPT ![s] = Idle]
      /\ object' = [h \in Objects |->
           IF entries(h) = {} THEN object[h] ELSE Earlier(object[h], old[Min(entries(h))])]
  BY DEF Undo, graph
<1>2. /\ OldOK(save[s], object, contested) /\ DOMAIN old \subseteq Nat
      /\ \A i \in DOMAIN old : EntryOK(old[i], save[s].graph, object, contested)
  BY DEF IInv, CallOK, OldOK
<1>3. /\ \A h \in Objects : IsObject(object[h])
      /\ DOMAIN object = Objects
  BY DEF IInv, ObjectsOK
<1>4. ASSUME NEW h \in Objects
      PROVE  /\ IsObject(object'[h])
             /\ Crossed(h, contested) \/ object'[h].key = object[h].key
             /\ h \notin Range(save[s].graph) => object'[h] = object[h]
  <2>1. CASE entries(h) = {}
    BY <1>1, <1>3, <2>1
  <2>2. CASE entries(h) # {}
    <3>1. Min(entries(h)) \in DOMAIN old /\ old[Min(entries(h))][1] = h
      <4>1. entries(h) \subseteq Nat
        BY <1>2
      <4>2. Min(entries(h)) \in entries(h)
        <5> HIDE DEF entries
        <5> QED BY <2>2, <4>1, MinLeast
      <4> QED BY <4>2
    <3>2. PICK e : e = old[Min(entries(h))]
      OBVIOUS
    <3>3. EntryOK(e, save[s].graph, object, contested) /\ e[1] = h
      BY <1>2, <3>1, <3>2
    <3>4. object'[h] = [e[2] EXCEPT !.root = object[h].root]
      BY <1>1, <2>2, <3>2 DEF Earlier
    <3>5. IsObject(e[2]) /\ h \in Range(save[s].graph)
          /\ (Crossed(h, contested) \/ e[2].key = object[h].key)
      BY <3>3 DEF EntryOK
    <3> QED BY <3>4, <3>5 DEF IsObject, ObjectFields
  <2> QED BY <2>1, <2>2
<1>5. ObjectsOK(object')
  BY <1>1, <1>4 DEF ObjectsOK
<1>6. KeepsRows(object, object', contested) /\ Grows(contested, contested)
  BY <1>4 DEF KeepsRows, Grows
<1>7. \A h \in Objects \ Range(save[s].graph) : Keeps(h, object, object', contested)
  BY <1>4 DEF Keeps
<1>8. RowsOK(table', object', contested)
  BY <1>1, <1>6, RowsKept DEF IInv
<1>9. CallOK(Idle, object', contested) /\ Idle.graph = <<>>
  BY IdleOK DEF Idle
<1> QED BY <1>1, <1>5, <1>6, <1>7, <1>8, <1>9, SaveStep

-----------------------------------------------------------------------------
LEMMA Step == IInv /\ [Next]_vars => IInv'
<1> SUFFICES ASSUME IInv, [Next]_vars PROVE IInv'
  OBVIOUS
<1>1. CASE UNCHANGED vars
  BY <1>1 DEF vars, graph, memory, IInv
<1>2. ASSUME NEW h \in Objects, Edit(h) \/ MarkForDeletion(h) PROVE IInv'
  BY <1>2, EditStep
<1>3. ASSUME NEW h \in Objects, NEW s \in Savers, Save(s, h) PROVE IInv'
  BY <1>3, SaveCallStep
<1>4. ASSUME NEW k \in Ids, Recover(k) PROVE IInv'
  BY <1>4, RecoverStep
<1>5. ASSUME NEW s \in Savers, Work(s) PROVE IInv'
  <2>1. CASE Reserve(s)
    BY <2>1, ReserveStep
  <2>2. CASE Allocate(s)
    BY <2>2, AllocateStep
  <2>3. CASE GiveUp(s)
    BY <2>3, GiveUpStep
  <2>4. CASE CheckRaises(s)
    BY <2>4, CheckRaisesStep
  <2>5. CASE Begin(s)
    BY <2>5, BeginStep
  <2>6. CASE Write(s)
    BY <2>6, WriteStep
  <2>7. CASE WriteFails(s)
    BY <2>7, WriteFailsStep
  <2>8. CASE Commit(s) \/ CommitRaises(s)
    BY <2>8, CommitStep
  <2>9. CASE Settle(s)
    BY <2>9, SettleStep
  <2>10. CASE Undo(s)
    BY <2>10, UndoStep
  <2> QED BY <1>5, <2>1, <2>2, <2>3, <2>4, <2>5, <2>6, <2>7, <2>8, <2>9, <2>10 DEF Work
<1> QED BY <1>1, <1>2, <1>3, <1>4, <1>5 DEF Next

LEMMA Invariant == Spec => []IInv
BY Start, Step, PTL DEF Spec

\* However saves of the objects of a program overlap, fail, take effect and raise
\* all the same and are called again, and whatever the application and other
\* transactions do meanwhile: a new object becomes at most one row, unless saves
\* of that object overlapped (_teaql_reserve_graph_ids).
THEOREM SavedOnce == Spec => []OneRow
<1>1. IInv => OneRow
  BY DEF IInv, RowsOK, RowOK, OneRow, Crossed
<1> QED BY <1>1, Invariant, PTL

-----------------------------------------------------------------------------
(* Versions: what an object knows of a row is still so, or its version is    *)
(* too low to match the row ever again                                       *)

\* Row k is still to reach each version in ver, or has it with a value in vals,
\* or is one of out.
Fits(k, ver, vals, rows, out) ==
  k \in DOMAIN rows \ out =>
    \A v \in ver : /\ Size(v) <= Size(rows[k].ver)
                   /\ v = rows[k].ver => rows[k].val \in vals

\* No two contexts saved h at the same time; nor was it edited during a save.
Solo(h, con) == "crossed" \notin con[h]
Clean(h, con) == con[h] \cap {"edited", "crossed"} = {}

\* Call c has written h.
Wrote(c, h) == \E e \in Range(c.old) : e[1] = h

\* k is an ID handed out before n, or a temporary one.
Known(k, n) == k \in Objects \/ (k \in Nat /\ k < n)

\* h went, goes or will go by key k in call c.
Marked(c, h, k) ==
  \/ \E e \in Range(c.old) : e[1] = h /\ e[2].key = k
  \/ <<h, k>> \in Range(c.written)
Used(c, h, k) == Marked(c, h, k) \/ (c.command.object = {h} /\ c.command.key = k)
Claims(h, k, obj, sv) == obj[h].key = k \/ \E s \in Savers : Used(sv[s], h, k)

InWork(c) == c.pc \in {"write", "commit"}
Holds(c) == c.pc \in {"write", "commit", "settle", "undo"}

\* The shape of a call: nothing is left of its work but in the stage it is for.
BlankInv(c) ==
  /\ ~Holds(c) => c.old = <<>> /\ c.written = <<>>
  /\ ~InWork(c) => DOMAIN c.staged = {} /\ c.back = {}
  /\ c.pc # "write" => c.command = NoCommand
WorkInv(c, n) ==
  /\ IsInjective(c.graph)
  /\ c.old \in Seq(Range(c.old)) /\ c.written \in Seq(Range(c.written))
  /\ \A w \in Range(c.written) : Wrote(c, w[1])
  /\ \A e \in Range(c.old) :
       /\ e[1] \in Range(c.graph) /\ e[2].ver \subseteq Int
       /\ \E w \in Range(c.written) : w[1] = e[1]
  /\ \A k \in DOMAIN c.staged : Known(k, n) /\ c.staged[k].ver \in Int
TodoInv(c) ==
  c.pc = "write" =>
    /\ c.todo # <<>> /\ IsInjective(c.todo)
    /\ \A h \in Range(c.todo) : ~Wrote(c, h)
    /\ c.command.object = {Head(c.todo)} /\ c.command.expected \subseteq Int
    /\ c.command.kind = "Create" => c.command.expected = {}

\* A staged row is one the call inserted, or has a higher version than the
\* committed one, unless a statement set it back.
StagedInv(c, tab) ==
  \A k \in DOMAIN c.staged :
    /\ k \notin DOMAIN tab => \E h \in Objects : <<h, k>> \in Range(c.written)
    /\ k \in DOMAIN tab \ c.back => Size(tab[k].ver) < Size(c.staged[k].ver)

\* What an object was before it was written fits the committed rows.
EntryInv(c, tab, bk, con) ==
  \A e \in Range(c.old) :
    /\ Solo(e[1], con) /\ e[2].action = "Create" => e[2].ver = {}
    /\ Clean(e[1], con) => Fits(e[2].key, e[2].ver, e[3], tab, bk)

\* An object had no version before its row was inserted.
InsertInv(c, tab, con) ==
  c.pc \notin {"settle", "undo"} =>
    \A e \in Range(c.old) : \A k :
      Solo(e[1], con) /\ <<e[1], k>> \in Range(c.written) /\ k \notin DOMAIN tab => e[2].ver = {}

\* What a written object shows fits the rows the call sees.
ShownInv(c, obj, tab, bk, con) ==
  c.pc # "undo" =>
    \A h \in Objects : Wrote(c, h) /\ Clean(h, con) =>
      Fits(obj[h].key, obj[h].ver, {obj[h].val}, Over(c.staged, tab), bk \cup c.back)

\* What the command expects fits the committed rows.
HeadInv(c, obj, snap, tab, bk, con) ==
  c.pc = "write" =>
    LET h == Head(c.todo)
    IN  /\ Solo(h, con) => /\ obj[h].action \in {c.command.kind, "Delete"}
                           /\ c.command.kind = "Create" => obj[h].ver = {}
        /\ Clean(h, con) => Fits(c.command.key, c.command.expected, snap[h], tab, bk)

CallInv(c, obj, snap, tab, bk, n, con) ==
  /\ BlankInv(c) /\ WorkInv(c, n) /\ TodoInv(c)
  /\ StagedInv(c, tab) /\ EntryInv(c, tab, bk, con) /\ InsertInv(c, tab, con)
  /\ ShownInv(c, obj, tab, bk, con) /\ HeadInv(c, obj, snap, tab, bk, con)

\* An object no call has written fits the committed rows.
ObjectInv(h, obj, snap, tab, bk, sv, con) ==
  /\ obj[h].ver \subseteq Int
  /\ Solo(h, con) /\ obj[h].action = "Create" => obj[h].ver = {}
  /\ Clean(h, con) /\ (\A s \in Savers : ~Wrote(sv[s], h)) =>
       Fits(obj[h].key, obj[h].ver, snap[h], tab, bk)

\* Calls in their work are of different contexts, and calls that share a context
\* or an object are known to.
LockInv(sv) ==
  \A s, t \in Savers : s # t /\ Holds(sv[s]) /\ Holds(sv[t]) => context[s] # context[t]
CrossInv(sv, con) ==
  \A s, t \in Savers : s # t =>
    \A h \in Range(sv[s].graph) \cap Range(sv[t].graph) : Solo(h, con) => context[s] = context[t]

\* An ID is one object's until there is a row.
ClaimInv(obj, sv, tab, n) ==
  \A h \in Objects : \A k :
    Claims(h, k, obj, sv) =>
      Known(k, n) /\ \A g \in Objects \ {h} : Claims(g, k, obj, sv) => k \in DOMAIN tab

RowLockInv(sv) ==
  \A s, t \in Savers : s # t => DOMAIN sv[s].staged \cap DOMAIN sv[t].staged = {}

TableInv(tab, n) == \A k \in DOMAIN tab : Known(k, n) /\ tab[k].ver \in Int

VInv ==
  /\ nextId \in Nat /\ TableInv(table, nextId)
  /\ \A h \in Objects : IsInjective(Graph(h))
  /\ \A s \in Savers : CallInv(save[s], object, snapshot, table, backed, nextId, contested)
  /\ \A h \in Objects : ObjectInv(h, object, snapshot, table, backed, save, contested)
  /\ LockInv(save) /\ CrossInv(save, contested) /\ RowLockInv(save)
  /\ ClaimInv(object, save, table, nextId)

-----------------------------------------------------------------------------
(* Rows that move on *)

LEMMA SizeOrder ==
  ASSUME NEW v \in Int
  PROVE  Size(v) \in Nat
BY DEF Size

\* A row that moves to a higher version fits what fitted it before.
LEMMA FitsAdvance ==
  ASSUME NEW k, NEW ver, NEW vals, NEW rows, NEW out, NEW rows2, NEW out2,
         Fits(k, ver, vals, rows, out), ver \subseteq Int,
         k \in DOMAIN rows2 \ out2 =>
           /\ k \in DOMAIN rows \ out
           /\ rows[k].ver \in Int /\ rows2[k].ver \in Int
           /\ rows2[k] = rows[k] \/ Size(rows[k].ver) < Size(rows2[k].ver)
  PROVE  Fits(k, ver, vals, rows2, out2)
<1> SUFFICES ASSUME k \in DOMAIN rows2 \ out2, NEW v \in ver
             PROVE  /\ Size(v) <= Size(rows2[k].ver)
                    /\ v = rows2[k].ver => rows2[k].val \in vals
  BY DEF Fits
<1>1. Size(v) <= Size(rows[k].ver) /\ (v = rows[k].ver => rows[k].val \in vals)
  BY DEF Fits
<1>2. Size(v) \in Nat /\ Size(rows[k].ver) \in Nat /\ Size(rows2[k].ver) \in Nat
  BY SizeOrder
<1>3. CASE rows2[k] = rows[k]
  BY <1>1, <1>3
<1>4. CASE Size(rows[k].ver) < Size(rows2[k].ver)
  <2>1. Size(v) < Size(rows2[k].ver)
    BY <1>1, <1>2, <1>4
  <2> QED BY <1>2, <2>1
<1> QED BY <1>3, <1>4

LEMMA FitsNothing ==
  ASSUME NEW k, NEW ver, NEW vals, NEW rows, NEW out, k \notin DOMAIN rows \/ ver = {}
  PROVE  Fits(k, ver, vals, rows, out)
BY DEF Fits

\* Rows laid over others.
LEMMA OverDomain ==
  ASSUME NEW f, NEW g
  PROVE  /\ DOMAIN Over(f, g) = DOMAIN f \cup DOMAIN g
         /\ \A k \in DOMAIN f : Over(f, g)[k] = f[k]
         /\ \A k \in DOMAIN g \ DOMAIN f : Over(f, g)[k] = g[k]
BY DEF Over

\* A history of touched objects grows.
Touched(con, don) ==
  \A h \in Objects : (Solo(h, don) => Solo(h, con)) /\ (Clean(h, don) => Clean(h, con))

LEMMA CleanSolo == \A h, con : Clean(h, con) => Solo(h, con)
BY DEF Clean, Solo

LEMMA KnownGrows ==
  ASSUME NEW k, NEW n \in Nat, NEW m \in Nat, n <= m, Known(k, n)
  PROVE  Known(k, m)
BY DEF Known

-----------------------------------------------------------------------------
(* A call stands by while others change objects *)

\* Object h stays what call c knows of it, as far as nobody else touched it.
Kept(h, c, o, p, sn, qn, tab, don) ==
  /\ Solo(h, don) => p[h].ver = o[h].ver /\ p[h].action \in {o[h].action, "Delete"}
  /\ Clean(h, don) => /\ p[h].val = o[h].val /\ qn[h] = sn[h]
                      /\ p[h].key = o[h].key \/ p[h].key \notin DOMAIN Over(c.staged, tab)

LEMMA CallKept ==
  ASSUME NEW c, NEW o, NEW p, NEW sn, NEW qn, NEW tab, NEW bk, NEW n \in Nat, NEW m \in Nat,
         NEW con, NEW don, CallType(c), CallInv(c, o, sn, tab, bk, n, con), n <= m,
         Touched(con, don),
         Holds(c) => \A h \in Range(c.graph) : Kept(h, c, o, p, sn, qn, tab, don)
  PROVE  CallInv(c, p, qn, tab, bk, m, don)
<1>1. /\ BlankInv(c) /\ WorkInv(c, n) /\ TodoInv(c) /\ StagedInv(c, tab)
      /\ EntryInv(c, tab, bk, con) /\ InsertInv(c, tab, con)
      /\ ShownInv(c, o, tab, bk, con) /\ HeadInv(c, o, sn, tab, bk, con)
  BY DEF CallInv
<1>2. Range(c.graph) \subseteq Objects /\ \A e \in Range(c.old) : e[1] \in Range(c.graph)
  <2>1. Range(c.graph) \subseteq Objects
    BY DEF CallType, Range
  <2>2. \A e \in Range(c.old) : e[1] \in Range(c.graph)
    BY <1>1 DEF WorkInv
  <2> QED BY <2>1, <2>2
<1>3. WorkInv(c, m)
  BY <1>1, KnownGrows DEF WorkInv
<1>4. EntryInv(c, tab, bk, don)
  BY <1>1, <1>2 DEF EntryInv, Touched
<1>5. InsertInv(c, tab, don)
  BY <1>1, <1>2 DEF InsertInv, Touched
<1>6. c.pc = "write" => Head(c.todo) \in Range(c.graph)
  <2>1. c.todo # <<>> => Head(c.todo) \in Range(c.todo)
    BY DEF CallType, Range
  <2> QED BY <1>1, <2>1 DEF CallType, TodoInv
<1>7. ShownInv(c, p, tab, bk, don)
  <2>1. SUFFICES ASSUME c.pc # "undo", NEW h \in Objects, Wrote(c, h), Clean(h, don)
                 PROVE  Fits(p[h].key, p[h].ver, {p[h].val}, Over(c.staged, tab), bk \cup c.back)
    BY DEF ShownInv
  <2>2. Holds(c)
    <3>1. c.old = <<>> => Range(c.old) = {}
      BY DEF Range
    <3> QED BY <1>1, <2>1, <3>1 DEF BlankInv, Wrote
  <2>3. h \in Range(c.graph) /\ Solo(h, don)
    BY <1>2, <2>1, CleanSolo DEF Wrote
  <2>4. /\ p[h].ver = o[h].ver /\ p[h].val = o[h].val
        /\ p[h].key = o[h].key \/ p[h].key \notin DOMAIN Over(c.staged, tab)
    BY <2>1, <2>2, <2>3 DEF Kept
  <2>5. Fits(o[h].key, o[h].ver, {o[h].val}, Over(c.staged, tab), bk \cup c.back)
    BY <1>1, <2>1 DEF ShownInv, Touched
  <2> QED BY <2>4, <2>5, FitsNothing
<1>8. HeadInv(c, p, qn, tab, bk, don)
  <2>1. SUFFICES ASSUME c.pc = "write", NEW h, h = Head(c.todo)
                 PROVE  /\ Solo(h, don) => /\ p[h].action \in {c.command.kind, "Delete"}
                                           /\ c.command.kind = "Create" => p[h].ver = {}
                        /\ Clean(h, don) => Fits(c.command.key, c.command.expected, qn[h], tab, bk)
    BY DEF HeadInv
  <2>2. h \in Range(c.graph) /\ h \in Objects /\ Holds(c)
    BY <1>2, <1>6, <2>1 DEF Holds
  <2>3. Kept(h, c, o, p, sn, qn, tab, don)
    BY <2>2
  <2>4. /\ Solo(h, con) => /\ o[h].action \in {c.command.kind, "Delete"}
                           /\ c.command.kind = "Create" => o[h].ver = {}
        /\ Clean(h, con) => Fits(c.command.key, c.command.expected, sn[h], tab, bk)
    BY <1>1, <2>1 DEF HeadInv
  <2> QED BY <2>2, <2>3, <2>4 DEF Kept, Touched
<1> QED BY <1>1, <1>3, <1>4, <1>5, <1>7, <1>8 DEF CallInv

\* An object that no call has written stays what it is.
LEMMA ObjectKept ==
  ASSUME NEW h \in Objects, NEW o, NEW p, NEW sn, NEW qn, NEW tab, NEW bk, NEW sv, NEW tv,
         NEW con, NEW don, ObjectInv(h, o, sn, tab, bk, sv, con), Touched(con, don),
         p[h].ver = o[h].ver, p[h].action \in {o[h].action, "Delete"},
         Clean(h, don) /\ (\A s \in Savers : ~Wrote(tv[s], h)) =>
           /\ \A s \in Savers : ~Wrote(sv[s], h)
           /\ qn[h] = sn[h] /\ (p[h].key = o[h].key \/ p[h].key \notin DOMAIN tab)
  PROVE  ObjectInv(h, p, qn, tab, bk, tv, don)
<1>1. p[h].ver \subseteq Int /\ (Solo(h, don) /\ p[h].action = "Create" => p[h].ver = {})
  BY DEF ObjectInv, Touched
<1>2. Clean(h, don) /\ (\A s \in Savers : ~Wrote(tv[s], h)) => Fits(p[h].key, p[h].ver, qn[h], tab, bk)
  BY FitsNothing DEF ObjectInv, Touched
<1> QED BY <1>1, <1>2 DEF ObjectInv

\* No object comes to claim an ID.
LEMMA ClaimsKept ==
  ASSUME NEW o, NEW p, NEW sv, NEW tv, NEW tab, NEW tab2, NEW n,
         ClaimInv(o, sv, tab, n), DOMAIN tab \subseteq DOMAIN tab2,
         \A h \in Objects : \A k : Claims(h, k, p, tv) => Claims(h, k, o, sv)
  PROVE  ClaimInv(p, tv, tab2, n)
BY DEF ClaimInv

-----------------------------------------------------------------------------
(* A call stands by while others commit *)

\* Rows are added, and the others move on or are known to be set back.
Moves(tab, bk, tab2, bk2) ==
  /\ DOMAIN tab \subseteq DOMAIN tab2 /\ bk \subseteq bk2
  /\ \A k \in DOMAIN tab \ bk2 : tab2[k] = tab[k] \/ Size(tab[k].ver) < Size(tab2[k].ver)

LEMMA FitsMoves ==
  ASSUME NEW k, NEW ver, NEW vals, NEW tab, NEW bk, NEW tab2, NEW bk2, NEW n,
         Moves(tab, bk, tab2, bk2), TableInv(tab, n), TableInv(tab2, n), ver \subseteq Int,
         Fits(k, ver, vals, tab, bk), k \in DOMAIN tab2 => k \in DOMAIN tab
  PROVE  Fits(k, ver, vals, tab2, bk2)
<1>1. k \in DOMAIN tab2 \ bk2 =>
        /\ k \in DOMAIN tab \ bk
        /\ tab[k].ver \in Int /\ tab2[k].ver \in Int
        /\ tab2[k] = tab[k] \/ Size(tab[k].ver) < Size(tab2[k].ver)
  BY DEF Moves, TableInv
<1> QED BY <1>1, FitsAdvance

LEMMA CallAdvance ==
  ASSUME NEW c, NEW obj, NEW snap, NEW tab, NEW bk, NEW tab2, NEW bk2, NEW n, NEW con,
         CallType(c), CallInv(c, obj, snap, tab, bk, n, con),
         Moves(tab, bk, tab2, bk2), TableInv(tab, n), TableInv(tab2, n),
         \A h \in Objects : obj[h].ver \subseteq Int,
         \A k \in DOMAIN c.staged : k \in DOMAIN tab2 => k \in DOMAIN tab /\ tab2[k] = tab[k],
         Holds(c) => \A h \in Range(c.graph) : \A k \in DOMAIN tab2 \ DOMAIN tab :
                       Solo(h, con) => obj[h].key # k /\ ~Used(c, h, k)
  PROVE  CallInv(c, obj, snap, tab2, bk2, n, con)
<1>1. /\ BlankInv(c) /\ WorkInv(c, n) /\ TodoInv(c) /\ StagedInv(c, tab)
      /\ EntryInv(c, tab, bk, con) /\ InsertInv(c, tab, con)
      /\ ShownInv(c, obj, tab, bk, con) /\ HeadInv(c, obj, snap, tab, bk, con)
  BY DEF CallInv
<1>2. /\ Range(c.graph) \subseteq Objects
      /\ \A e \in Range(c.old) : e[1] \in Range(c.graph) /\ e[2].ver \subseteq Int
  <2>1. Range(c.graph) \subseteq Objects
    BY DEF CallType, Range
  <2>2. \A e \in Range(c.old) : e[1] \in Range(c.graph) /\ e[2].ver \subseteq Int
    BY <1>1 DEF WorkInv
  <2> QED BY <2>1, <2>2
<1>3. DOMAIN tab \subseteq DOMAIN tab2 /\ bk \subseteq bk2
  BY DEF Moves
<1>4. \A h : Wrote(c, h) => Holds(c) /\ h \in Range(c.graph)
  <2>1. c.old = <<>> => Range(c.old) = {}
    BY DEF Range
  <2> QED BY <1>1, <1>2, <2>1 DEF BlankInv, Wrote
<1>5. StagedInv(c, tab2)
  BY <1>1, <1>3 DEF StagedInv
<1>6. EntryInv(c, tab2, bk2, con)
  <2>1. SUFFICES ASSUME NEW e \in Range(c.old), Clean(e[1], con)
                 PROVE  Fits(e[2].key, e[2].ver, e[3], tab2, bk2)
    BY <1>1 DEF EntryInv
  <2>2. Holds(c) /\ e[1] \in Range(c.graph) /\ Solo(e[1], con) /\ Used(c, e[1], e[2].key)
    BY <1>4, <2>1, CleanSolo DEF Wrote, Used, Marked
  <2>3. e[2].key \in DOMAIN tab2 => e[2].key \in DOMAIN tab
    BY <2>2
  <2>4. Fits(e[2].key, e[2].ver, e[3], tab, bk) /\ e[2].ver \subseteq Int
    BY <1>1, <1>2, <2>1 DEF EntryInv
  <2> QED BY <2>3, <2>4, FitsMoves
<1>7. InsertInv(c, tab2, con)
  BY <1>1, <1>3 DEF InsertInv
<1>8. ShownInv(c, obj, tab2, bk2, con)
  <2>1. SUFFICES ASSUME c.pc # "undo", NEW h \in Objects, Wrote(c, h), Clean(h, con)
                 PROVE  Fits(obj[h].key, obj[h].ver, {obj[h].val}, Over(c.staged, tab2), bk2 \cup c.back)
    BY DEF ShownInv
  <2> DEFINE k == obj[h].key
             rows == Over(c.staged, tab)
             rows2 == Over(c.staged, tab2)
  <2>2. Fits(k, obj[h].ver, {obj[h].val}, rows, bk \cup c.back) /\ obj[h].ver \subseteq Int
    BY <1>1, <2>1 DEF ShownInv
  <2>3. k \in DOMAIN tab2 => k \in DOMAIN tab
    BY <1>4, <2>1, CleanSolo
  <2>4. /\ DOMAIN rows = DOMAIN c.staged \cup DOMAIN tab
        /\ DOMAIN rows2 = DOMAIN c.staged \cup DOMAIN tab2
        /\ k \in DOMAIN c.staged => rows[k] = c.staged[k] /\ rows2[k] = c.staged[k]
        /\ k \in DOMAIN tab \ DOMAIN c.staged => rows[k] = tab[k]
        /\ k \in DOMAIN tab2 \ DOMAIN c.staged => rows2[k] = tab2[k]
    <3>1. /\ DOMAIN rows = DOMAIN c.staged \cup DOMAIN tab
          /\ \A j \in DOMAIN c.staged : rows[j] = c.staged[j]
          /\ \A j \in DOMAIN tab \ DOMAIN c.staged : rows[j] = tab[j]
      BY OverDomain
    <3>2. /\ DOMAIN rows2 = DOMAIN c.staged \cup DOMAIN tab2
          /\ \A j \in DOMAIN c.staged : rows2[j] = c.staged[j]
          /\ \A j \in DOMAIN tab2 \ DOMAIN c.staged : rows2[j] = tab2[j]
      BY OverDomain
    <3> HIDE DEF k, rows, rows2
    <3> QED BY <3>1, <3>2
  <2> HIDE DEF k, rows, rows2
  <2>5. \A j \in DOMAIN c.staged : c.staged[j].ver \in Int
    BY <1>1 DEF WorkInv
  <2>6. k \in DOMAIN rows2 \ (bk2 \cup c.back) =>
          /\ k \in DOMAIN rows \ (bk \cup c.back)
          /\ rows[k].ver \in Int /\ rows2[k].ver \in Int
          /\ rows2[k] = rows[k] \/ Size(rows[k].ver) < Size(rows2[k].ver)
    <3>1. CASE k \in DOMAIN c.staged
      BY <1>3, <2>4, <2>5, <3>1
    <3>2. CASE k \notin DOMAIN c.staged
      BY <1>3, <2>3, <2>4, <3>2 DEF Moves, TableInv
    <3> QED BY <3>1, <3>2
  <2>7. Fits(k, obj[h].ver, {obj[h].val}, rows2, bk2 \cup c.back)
    BY <2>2, <2>6, FitsAdvance
  <2> QED BY <2>7 DEF k, rows2
<1>9. HeadInv(c, obj, snap, tab2, bk2, con)
  <2>1. SUFFICES ASSUME c.pc = "write", NEW h, h = Head(c.todo), Clean(h, con)
                 PROVE  Fits(c.command.key, c.command.expected, snap[h], tab2, bk2)
    BY <1>1 DEF HeadInv
  <2>2. h \in Range(c.graph)
    <3>1. c.todo # <<>> => Head(c.todo) \in Range(c.todo)
      BY DEF CallType, Range
    <3> QED BY <1>1, <2>1, <3>1 DEF CallType, TodoInv
  <2>3. Used(c, h, c.command.key) /\ c.command.expected \subseteq Int /\ Holds(c)
    BY <1>1, <2>1 DEF TodoInv, Used, Holds
  <2>4. c.command.key \in DOMAIN tab2 => c.command.key \in DOMAIN tab
    BY <2>1, <2>2, <2>3, CleanSolo
  <2>5. Fits(c.command.key, c.command.expected, snap[h], tab, bk)
    BY <1>1, <2>1 DEF HeadInv
  <2> QED BY <2>3, <2>4, <2>5, FitsMoves
<1> QED BY <1>1, <1>5, <1>6, <1>7, <1>8, <1>9 DEF CallInv

LEMMA ObjectAdvance ==
  ASSUME NEW h, NEW obj, NEW snap, NEW tab, NEW bk, NEW tab2, NEW bk2, NEW n, NEW con,
         NEW sv, NEW tv, ObjectInv(h, obj, snap, tab, bk, sv, con),
         Moves(tab, bk, tab2, bk2), TableInv(tab, n), TableInv(tab2, n),
         \A s \in Savers : Wrote(tv[s], h) <=> Wrote(sv[s], h),
         Clean(h, con) /\ (\A s \in Savers : ~Wrote(sv[s], h)) =>
           (obj[h].key \in DOMAIN tab2 => obj[h].key \in DOMAIN tab)
  PROVE  ObjectInv(h, obj, snap, tab2, bk2, tv, con)
<1>1. SUFFICES ASSUME Clean(h, con), \A s \in Savers : ~Wrote(sv[s], h)
               PROVE  Fits(obj[h].key, obj[h].ver, snap[h], tab2, bk2)
  BY DEF ObjectInv
<1>2. Fits(obj[h].key, obj[h].ver, snap[h], tab, bk) /\ obj[h].ver \subseteq Int
  BY <1>1 DEF ObjectInv
<1> QED BY <1>1, <1>2, FitsMoves

-----------------------------------------------------------------------------
(* A step of one call that writes no row *)

\* a and b are the same object, but for its root.
Same(a, b) == b.key = a.key /\ b.ver = a.ver /\ b.val = a.val /\ b.action = a.action
Standing(h, o, p, sn, qn) == Same(o[h], p[h]) /\ qn[h] = sn[h]

LEMMA StandingKept ==
  ASSUME NEW h, NEW c, NEW o, NEW p, NEW sn, NEW qn, NEW tab, NEW don, Standing(h, o, p, sn, qn)
  PROVE  Kept(h, c, o, p, sn, qn, tab, don)
BY DEF Standing, Same, Kept

\* Two calls in their work share no object that is only one's.
LEMMA OneWriter ==
  ASSUME VInv, NEW s \in Savers, NEW t \in Savers, s # t, Holds(save[s]), Holds(save[t]),
         NEW h \in Range(save[s].graph), h \in Range(save[t].graph)
  PROVE  ~Solo(h, contested) /\ ~Clean(h, contested)
<1>1. Solo(h, contested) => context[s] = context[t]
  BY DEF VInv, CrossInv
<1>2. context[s] # context[t]
  BY DEF VInv, LockInv
<1> QED BY <1>1, <1>2, CleanSolo

LEMMA MemoryStep ==
  ASSUME IInv, VInv, NEW s \in Savers, NEW c,
         items' = items, context' = context, table' = table, backed' = backed,
         nextId' = nextId, contested' = contested, save' = [save EXCEPT ![s] = c],
         c.graph = save[s].graph \/ c.graph = <<>>,
         Holds(c) => Holds(save[s]) \/ \A t \in Savers : Holds(save[t]) => context[t] # context[s],
         \A t \in Savers \ {s} : DOMAIN c.staged \cap DOMAIN save[t].staged = {},
         \A h \in Objects : Claims(h, object'[h].key, object, save),
         \A h \in Objects : \A k : Used(c, h, k) => Claims(h, k, object, save),
         \A h \in Objects : \/ Standing(h, object, object', snapshot, snapshot')
                            \/ Holds(save[s]) /\ h \in Range(save[s].graph),
         CallInv(c, object', snapshot', table, backed, nextId, contested),
         \A h \in Objects : ObjectInv(h, object', snapshot', table, backed, save', contested)
  PROVE  VInv'
<1>1. \A t \in Savers : save'[t] = IF t = s THEN c ELSE save[t]
  BY DEF IInv
<1>2. \A t \in Savers : CallType(save[t]) /\ Range(save[t].graph) \subseteq Objects
  <2>1. \A t \in Savers : CallType(save[t])
    BY DEF IInv, CallOK
  <2>2. \A t \in Savers : save[t].graph \in Seq(Objects)
    BY <2>1 DEF CallType
  <2>3. \A q \in Seq(Objects) : Range(q) \subseteq Objects
    BY DEF Range
  <2> QED BY <2>1, <2>2, <2>3
<1>3. nextId \in Nat /\ nextId <= nextId /\ Touched(contested, contested)
  BY DEF VInv, Touched
<1>4. ASSUME NEW t \in Savers \ {s}
      PROVE  CallInv(save[t], object', snapshot', table, backed, nextId, contested)
  <2>1. CallInv(save[t], object, snapshot, table, backed, nextId, contested)
    BY DEF VInv
  <2>2. ASSUME Holds(save[t]), NEW h \in Range(save[t].graph)
        PROVE  Kept(h, save[t], object, object', snapshot, snapshot', table, contested)
    <3>1. h \in Objects
      BY <1>2
    <3>2. CASE Standing(h, object, object', snapshot, snapshot')
      BY <3>2, StandingKept
    <3>3. CASE Holds(save[s]) /\ h \in Range(save[s].graph)
      <4>1. ~Solo(h, contested) /\ ~Clean(h, contested)
        BY <2>2, <3>3, OneWriter
      <4> QED BY <4>1 DEF Kept
    <3> QED BY <3>1, <3>2, <3>3
  <2> QED BY <1>2, <1>3, <2>1, <2>2, CallKept
<1>5. \A t \in Savers : CallInv(save'[t], object', snapshot', table, backed, nextId, contested)
  BY <1>1, <1>4
<1>6. LockInv(save)'
  BY <1>1 DEF VInv, LockInv
<1>7. CrossInv(save, contested)'
  <2>1. \A t \in Savers : Range(save'[t].graph) \subseteq Range(save[t].graph)
    BY <1>1 DEF Range
  <2> QED BY <2>1 DEF VInv, CrossInv
<1>8. RowLockInv(save')
  BY <1>1 DEF VInv, RowLockInv
<1>9. ClaimInv(object', save', table, nextId)
  <2>1. ASSUME NEW h \in Objects, NEW k, Claims(h, k, object', save')
        PROVE  Claims(h, k, object, save)
    BY <1>1, <2>1 DEF Claims
  <2>2. ClaimInv(object, save, table, nextId)
    BY DEF VInv
  <2> QED BY <2>1, <2>2, ClaimsKept
<1>10. TableInv(table, nextId) /\ \A h \in Objects : IsInjective(Graph(h))'
  BY DEF VInv, Graph
<1> QED BY <1>3, <1>5, <1>6, <1>7, <1>8, <1>9, <1>10 DEF VInv

-----------------------------------------------------------------------------
(* What is left of a call when its work fails, ends or goes on *)

LEMMA AttachSame ==
  ASSUME NEW m, NEW hs, NEW r, ObjectsOK(m.object)
  PROVE  \A h \in Objects : Same(m.object[h], AttachAll(m, hs, r).object[h])
<1> DEFINE p == AttachAll(m, hs, r).object
<1>1. p = [h \in Objects |-> IF h \in Range(hs) THEN [m.object[h] EXCEPT !.root = r] ELSE m.object[h]]
  BY DEF AttachAll
<1>2. ASSUME NEW h \in Objects PROVE Same(m.object[h], p[h])
  <2>1. IsObject(m.object[h])
    BY DEF ObjectsOK
  <2>2. p[h] = IF h \in Range(hs) THEN [m.object[h] EXCEPT !.root = r] ELSE m.object[h]
    BY <1>1
  <2> HIDE DEF p
  <2> QED BY <2>1, <2>2 DEF IsObject, ObjectFields, Same
<1> QED BY <1>2

LEMMA FailedShape ==
  ASSUME NEW c, DOMAIN c = SaveFields
  PROVE  /\ Failed(c).pc = "undo" /\ Failed(c).staged = <<>> /\ Failed(c).back = {}
         /\ Failed(c).command = NoCommand /\ Failed(c).graph = c.graph
         /\ Failed(c).old = c.old /\ Failed(c).written = c.written
BY DEF Failed, SaveFields

\* The work goes on with the object that comes n-th, and builds its command.
GoesOn(c, d, obj, todo) ==
  /\ d.pc = "write" /\ d.staged = c.staged /\ d.back = c.back
  /\ \E n \in 1 .. Len(todo) :
       /\ d.todo = SubSeq(todo, n, Len(todo))
       /\ d.command.object = {todo[n]} /\ d.command.key = obj[todo[n]].key
       /\ d.command.kind = obj[todo[n]].action
       /\ d.command.expected = IF obj[todo[n]].action = "Create" THEN {} ELSE obj[todo[n]].ver
Ends(c, d) == d.pc = "commit" /\ d.staged = c.staged /\ d.back = c.back /\ d.command = NoCommand
Fails(d) == d.pc = "undo" /\ d.staged = <<>> /\ d.back = {} /\ d.command = NoCommand
History(c, d) == d.graph = c.graph /\ d.old = c.old /\ d.written = c.written

LEMMA GoesSame ==
  ASSUME NEW c, NEW d, NEW o, NEW p, NEW todo \in Seq(Objects), GoesOn(c, d, o, todo),
         \A h \in Objects : Same(o[h], p[h])
  PROVE  GoesOn(c, d, p, todo)
<1>1. PICK n \in 1 .. Len(todo) :
        /\ d.todo = SubSeq(todo, n, Len(todo))
        /\ d.command.object = {todo[n]} /\ d.command.key = o[todo[n]].key
        /\ d.command.kind = o[todo[n]].action
        /\ d.command.expected = IF o[todo[n]].action = "Create" THEN {} ELSE o[todo[n]].ver
  BY DEF GoesOn
<1> DEFINE h == todo[n]
<1>2. Same(o[h], p[h])
  OBVIOUS
<1> HIDE DEF h
<1>3. /\ d.command.object = {h} /\ d.command.key = p[h].key /\ d.command.kind = p[h].action
      /\ d.command.expected = IF p[h].action = "Create" THEN {} ELSE p[h].ver
  BY <1>1, <1>2 DEF Same, h
<1>4. d.pc = "write" /\ d.staged = c.staged /\ d.back = c.back
  BY DEF GoesOn
<1> QED BY <1>1, <1>3, <1>4 DEF GoesOn, h

LEMMA ProceedShape ==
  ASSUME NEW c, NEW m, NEW todo \in Seq(Objects), ObjectsOK(m.object), DOMAIN c = SaveFields
  PROVE  LET next == Proceed(c, m, todo)
         IN  /\ \A h \in Objects : Same(m.object[h], next.memory.object[h])
             /\ History(c, next.save)
             /\ Fails(next.save) \/ Ends(c, next.save) \/ GoesOn(c, next.save, next.memory.object, todo)
<1> DEFINE r == m.object[Head(c.graph)].root
           pending == {i \in 1 .. Len(todo) : Pending(AttachAll(m, SubSeq(todo, 1, i), r), todo[i])}
           n == IF pending = {} THEN Len(todo) ELSE Min(pending)
           reached == SubSeq(todo, 1, n)
           attached == Attachable(m, reached, r)
           after == AttachAll(m, attached, r)
           done == [c EXCEPT !.pc = "commit", !.todo = <<>>, !.command = NoCommand]
           goes == [c EXCEPT !.pc = "write", !.todo = SubSeq(todo, n, Len(todo)),
                             !.command = Command(after, todo[n])]
           next == Proceed(c, m, todo)
<1>1. pending # {} => n \in 1 .. Len(todo)
  <2>1. pending \subseteq Nat /\ pending \subseteq 1 .. Len(todo)
    OBVIOUS
  <2>2. pending # {} => Min(pending) \in pending
    <3> HIDE DEF pending
    <3> QED BY <2>1, MinLeast
  <2> HIDE DEF pending
  <2> QED BY <2>1, <2>2
<1>2. \/ next = [save |-> Failed(c), memory |-> after]
      \/ next = [save |-> done, memory |-> after]
      \/ pending # {} /\ next = [save |-> goes, memory |-> Check(after, todo[n])]
  <2>1. next = CASE attached # reached -> [save |-> Failed(c), memory |-> after]
                 [] attached = reached /\ pending = {} -> [save |-> done, memory |-> after]
                 [] OTHER -> [save |-> goes, memory |-> Check(after, todo[n])]
    BY DEF Proceed
  <2> HIDE DEF next, attached, reached, done, goes, after, pending, n
  <2> QED BY <2>1
<1>3. next.memory.object = after.object
  <2>1. Check(after, todo[n]).object = after.object
    <3> HIDE DEF attached, n, r
    <3> QED BY CheckKeeps
  <2> HIDE DEF next, after, pending, n, done, goes
  <2> QED BY <1>2, <2>1
<1>4. \A h \in Objects : Same(m.object[h], after.object[h])
  <2> HIDE DEF attached, r
  <2> QED BY AttachSame
<1>5. History(c, done) /\ Ends(c, done)
  BY DEF History, Ends, SaveFields
<1>6. History(c, Failed(c)) /\ Fails(Failed(c))
  BY FailedShape DEF History, Fails
<1>7. pending # {} => History(c, goes) /\ GoesOn(c, goes, m.object, todo)
  <2> SUFFICES ASSUME pending # {} PROVE History(c, goes) /\ GoesOn(c, goes, m.object, todo)
    OBVIOUS
  <2> DEFINE h == todo[n]
  <2>1. n \in 1 .. Len(todo) /\ h \in Objects
    <3>1. n \in 1 .. Len(todo)
      BY <1>1
    <3> HIDE DEF n
    <3> QED BY <3>1
  <2>2. /\ History(c, goes) /\ goes.pc = "write" /\ goes.todo = SubSeq(todo, n, Len(todo))
        /\ goes.staged = c.staged /\ goes.back = c.back /\ goes.command = Command(after, h)
    <3> HIDE DEF n, after
    <3> QED BY DEF History, SaveFields
  <2>3. Same(m.object[h], after.object[h])
    <3> HIDE DEF after, h
    <3> QED BY <1>4, <2>1
  <2>4. /\ Command(after, h).object = {h}
        /\ Command(after, h).kind = m.object[h].action
        /\ Command(after, h).key = m.object[h].key
        /\ Command(after, h).expected = IF m.object[h].action = "Create" THEN {} ELSE m.object[h].ver
    <3> HIDE DEF after, n, h
    <3> QED BY <2>3 DEF Command, Same
  <2> HIDE DEF goes, after, n
  <2> QED BY <2>1, <2>2, <2>4 DEF GoesOn
<1> HIDE DEF next, after, pending, n, done, goes
<1>8. /\ History(c, next.save)
      /\ Fails(next.save) \/ Ends(c, next.save) \/ GoesOn(c, next.save, m.object, todo)
  BY <1>2, <1>5, <1>6, <1>7
<1>9. GoesOn(c, next.save, m.object, todo) => GoesOn(c, next.save, next.memory.object, todo)
  BY <1>3, <1>4, GoesSame
<1> QED BY <1>3, <1>4, <1>8, <1>9 DEF next

\* A sequence without repetition, from a place on and without its head.
LEMMA RestInjective ==
  ASSUME NEW S, NEW q \in Seq(S), IsInjective(q), NEW n \in 1 .. Len(q)
  PROVE  IsInjective(SubSeq(q, n, Len(q)))
<1> DEFINE r == SubSeq(q, n, Len(q))
<1>1. /\ Len(q) \in Nat /\ Len(r) = Len(q) - n + 1 /\ DOMAIN r = 1 .. Len(r) /\ DOMAIN q = 1 .. Len(q)
      /\ \A i \in 1 .. Len(r) : r[i] = q[n + i - 1]
  OBVIOUS
<1> HIDE DEF r
<1>2. \A i \in DOMAIN r : n + i - 1 \in DOMAIN q /\ i \in Nat
  BY <1>1
<1>3. ASSUME NEW i \in DOMAIN r, NEW j \in DOMAIN r, r[i] = r[j] PROVE i = j
  <2>1. n + i - 1 = n + j - 1
    BY <1>1, <1>2, <1>3 DEF IsInjective
  <2> QED BY <1>2, <2>1
<1> QED BY <1>3 DEF IsInjective, r

LEMMA TailInjective ==
  ASSUME NEW S, NEW q \in Seq(S), q # <<>>, IsInjective(q)
  PROVE  IsInjective(Tail(q)) /\ Head(q) \notin Range(Tail(q))
<1> DEFINE r == Tail(q)
<1>1. /\ Len(q) \in Nat \ {0} /\ Len(r) = Len(q) - 1
      /\ DOMAIN q = 1 .. Len(q) /\ DOMAIN r = 1 .. Len(r)
      /\ \A i \in 1 .. Len(r) : r[i] = q[i + 1]
      /\ Head(q) = q[1]
  OBVIOUS
<1> HIDE DEF r
<1>2. \A i \in DOMAIN r : i + 1 \in DOMAIN q /\ r[i] = q[i + 1] /\ i \in Nat /\ i # 0
  BY <1>1
<1>3. 1 \in DOMAIN q
  BY <1>1
<1>4. ASSUME NEW i \in DOMAIN r, NEW j \in DOMAIN r, r[i] = r[j] PROVE i = j
  <2>1. i + 1 = j + 1
    BY <1>2, <1>4 DEF IsInjective
  <2> QED BY <1>2, <2>1
<1>5. ASSUME Head(q) \in Range(r) PROVE FALSE
  <2>1. PICK i \in DOMAIN r : r[i] = q[1]
    BY <1>1, <1>5 DEF Range
  <2>2. i + 1 = 1
    BY <1>2, <1>3, <2>1 DEF IsInjective
  <2> QED BY <1>2, <2>2
<1>6. IsInjective(r)
  BY <1>4 DEF IsInjective
<1> QED BY <1>5, <1>6 DEF r

\* A call before its work.
Blank(c) ==
  /\ ~Holds(c) /\ c.old = <<>> /\ c.written = <<>> /\ DOMAIN c.staged = {} /\ c.back = {}
  /\ c.command = NoCommand

LEMMA BlankCall ==
  ASSUME NEW c, NEW obj, NEW snap, NEW tab, NEW bk, NEW n, NEW con, Blank(c), IsInjective(c.graph)
  PROVE  /\ CallInv(c, obj, snap, tab, bk, n, con)
         /\ \A h : ~Wrote(c, h) /\ \A k : ~Used(c, h, k)
<1>1. Range(<<>>) = {} /\ DOMAIN <<>> = {}
  BY DEF Range
<1>2. <<>> \in Seq(Range(<<>>))
  OBVIOUS
<1>3. /\ c.old = <<>> /\ c.written = <<>> /\ DOMAIN c.staged = {} /\ c.back = {} /\ c.command = NoCommand
      /\ c.pc \notin {"write", "commit", "settle", "undo"}
  BY DEF Blank, Holds
<1>4. Range(c.old) = {} /\ Range(c.written) = {} /\ DOMAIN c.staged = {}
  BY <1>1, <1>3
<1>5. \A h : NoCommand.object # {h}
  BY DEF NoCommand
<1>6. \A h : ~Wrote(c, h) /\ \A k : ~Used(c, h, k)
  BY <1>3, <1>4, <1>5 DEF Wrote, Used, Marked
<1>7. BlankInv(c) /\ TodoInv(c) /\ StagedInv(c, tab)
  BY <1>3, <1>4 DEF BlankInv, TodoInv, StagedInv
<1>8. WorkInv(c, n)
  BY <1>2, <1>3, <1>4 DEF WorkInv
<1>9. EntryInv(c, tab, bk, con) /\ InsertInv(c, tab, con)
  BY <1>4 DEF EntryInv, InsertInv
<1>10. ShownInv(c, obj, tab, bk, con) /\ HeadInv(c, obj, snap, tab, bk, con)
  BY <1>3, <1>6 DEF ShownInv, HeadInv
<1> QED BY <1>6, <1>7, <1>8, <1>9, <1>10 DEF CallInv

LEMMA CallBlank ==
  ASSUME VInv, NEW s \in Savers, ~Holds(save[s])
  PROVE  /\ save[s].old = <<>> /\ save[s].written = <<>> /\ save[s].back = {}
         /\ DOMAIN save[s].staged = {} /\ save[s].command = NoCommand
         /\ IsInjective(save[s].graph)
         /\ \A h : ~Wrote(save[s], h)
<1>1. BlankInv(save[s]) /\ WorkInv(save[s], nextId)
  BY DEF VInv, CallInv
<1>2. Range(<<>>) = {}
  BY DEF Range
<1> QED BY <1>1, <1>2 DEF BlankInv, WorkInv, Wrote, Holds, InWork

\* What the next command is built from.
Source(h, obj, snap, tab, bk, con) ==
  /\ obj[h].ver \subseteq Int
  /\ Solo(h, con) /\ obj[h].action = "Create" => obj[h].ver = {}
  /\ Clean(h, con) => Fits(obj[h].key, obj[h].ver, snap[h], tab, bk)

\* Call d is what the work of c proceeds to, over the objects of todo.
Outcome(c, d, obj, snap, tab, bk, n, con, todo) ==
  /\ todo \in Seq(Objects) /\ IsInjective(todo)
  /\ History(c, d) /\ (Fails(d) \/ Ends(c, d) \/ GoesOn(c, d, obj, todo))
  /\ c.pc \in {"begin", "write"} /\ WorkInv(c, n) /\ StagedInv(c, tab) /\ EntryInv(c, tab, bk, con)
  /\ InsertInv(c, tab, con) /\ ShownInv(c, obj, tab, bk, con)
  /\ \A h \in Range(todo) : ~Wrote(c, h) /\ Source(h, obj, snap, tab, bk, con)

LEMMA OutcomeInv ==
  ASSUME NEW c, NEW d, NEW obj, NEW snap, NEW tab, NEW bk, NEW n, NEW con, NEW todo,
         Outcome(c, d, obj, snap, tab, bk, n, con, todo)
  PROVE  /\ CallInv(d, obj, snap, tab, bk, n, con)
         /\ Holds(d) /\ DOMAIN d.staged \subseteq DOMAIN c.staged
         /\ \A h : Wrote(d, h) <=> Wrote(c, h)
         /\ \A h, k : Used(d, h, k) => Marked(c, h, k) \/ (h \in Range(todo) /\ k = obj[h].key)
<1> /\ todo \in Seq(Objects) /\ IsInjective(todo)
    /\ History(c, d) /\ (Fails(d) \/ Ends(c, d) \/ GoesOn(c, d, obj, todo))
    /\ c.pc \in {"begin", "write"} /\ WorkInv(c, n) /\ StagedInv(c, tab) /\ EntryInv(c, tab, bk, con)
    /\ InsertInv(c, tab, con) /\ ShownInv(c, obj, tab, bk, con)
    /\ \A h \in Range(todo) : ~Wrote(c, h) /\ Source(h, obj, snap, tab, bk, con)
  BY DEF Outcome
<1>1. DOMAIN <<>> = {}
  OBVIOUS
<1>2. /\ d.graph = c.graph /\ d.old = c.old /\ d.written = c.written
      /\ d.pc \in {"write", "commit", "undo"}
      /\ \/ DOMAIN d.staged = {} /\ d.back = {} /\ d.pc = "undo"
         \/ d.staged = c.staged /\ d.back = c.back /\ d.pc \in {"write", "commit"}
      /\ d.pc # "write" => d.command = NoCommand
      /\ d.pc = "write" => GoesOn(c, d, obj, todo)
  BY <1>1 DEF History, Fails, Ends, GoesOn
<1>3. /\ \A h : Wrote(d, h) <=> Wrote(c, h)
      /\ \A h, k : Marked(d, h, k) <=> Marked(c, h, k)
  BY <1>2 DEF Wrote, Marked
<1>4. BlankInv(d) /\ WorkInv(d, n)
  BY <1>2, <1>3 DEF BlankInv, WorkInv, Holds, InWork
<1>5. StagedInv(d, tab)
  BY <1>2 DEF StagedInv
<1>6. EntryInv(d, tab, bk, con) /\ InsertInv(d, tab, con)
  BY <1>2 DEF EntryInv, InsertInv
<1>7. ShownInv(d, obj, tab, bk, con)
  BY <1>2, <1>3 DEF ShownInv
<1>8. \A q \in Seq(Objects) : q # <<>> => Head(q) \in Range(q)
  BY DEF Range
<1>9. ASSUME d.pc = "write"
      PROVE  /\ TodoInv(d) /\ HeadInv(d, obj, snap, tab, bk, con)
             /\ \E h \in Range(todo) : d.command.object = {h} /\ d.command.key = obj[h].key
  <2>1. PICK i \in 1 .. Len(todo) :
          /\ d.todo = SubSeq(todo, i, Len(todo))
          /\ d.command.object = {todo[i]} /\ d.command.key = obj[todo[i]].key
          /\ d.command.kind = obj[todo[i]].action
          /\ d.command.expected = IF obj[todo[i]].action = "Create" THEN {} ELSE obj[todo[i]].ver
    BY <1>2, <1>9 DEF GoesOn
  <2>2. /\ d.todo \in Seq(Objects) \ {<<>>} /\ Head(d.todo) = todo[i]
        /\ Range(d.todo) = {todo[j] : j \in i .. Len(todo)}
    BY <2>1, FromPlace
  <2>3. IsInjective(d.todo)
    BY <2>1, RestInjective
  <2>4. \A j \in i .. Len(todo) : todo[j] \in Range(todo)
    <3>1. Len(todo) \in Nat /\ DOMAIN todo = 1 .. Len(todo)
      OBVIOUS
    <3>2. \A j \in i .. Len(todo) : j \in DOMAIN todo
      BY <3>1
    <3> QED BY <3>2 DEF Range
  <2>5. i \in i .. Len(todo)
    OBVIOUS
  <2>6. Range(d.todo) \subseteq Range(todo) /\ todo[i] \in Range(todo)
    BY <2>2, <2>4, <2>5
  <2> DEFINE h == todo[i]
  <2> HIDE DEF h
  <2>7. h \in Range(todo) /\ Source(h, obj, snap, tab, bk, con)
    BY <2>6 DEF h
  <2>8. /\ d.command.object = {h} /\ d.command.key = obj[h].key /\ d.command.kind = obj[h].action
        /\ d.command.expected = IF obj[h].action = "Create" THEN {} ELSE obj[h].ver
        /\ Head(d.todo) = h
    BY <2>1, <2>2 DEF h
  <2>9. TodoInv(d)
    <3>1. \A g \in Range(d.todo) : ~Wrote(d, g)
      BY <1>3, <2>6
    <3>2. d.command.expected \subseteq Int /\ (d.command.kind = "Create" => d.command.expected = {})
      BY <2>7, <2>8 DEF Source
    <3> QED BY <2>2, <2>3, <2>8, <3>1, <3>2 DEF TodoInv
  <2>10. HeadInv(d, obj, snap, tab, bk, con)
    <3>1. Fits(d.command.key, {}, snap[h], tab, bk)
      BY DEF Fits
    <3> QED BY <2>7, <2>8, <3>1 DEF HeadInv, Source
  <2> QED BY <2>7, <2>8, <2>9, <2>10
<1>10. d.pc # "write" => TodoInv(d) /\ HeadInv(d, obj, snap, tab, bk, con)
  BY DEF TodoInv, HeadInv
<1>11. \A h, k : Used(d, h, k) => Marked(c, h, k) \/ (h \in Range(todo) /\ k = obj[h].key)
  <2>1. \A h : NoCommand.object # {h}
    BY DEF NoCommand
  <2> QED BY <1>2, <1>3, <1>9, <2>1 DEF Used
<1>12. Holds(d) /\ DOMAIN d.staged \subseteq DOMAIN c.staged
  BY <1>2 DEF Holds
<1>13. CallInv(d, obj, snap, tab, bk, n, con)
  BY <1>4, <1>5, <1>6, <1>7, <1>9, <1>10 DEF CallInv
<1> QED BY <1>3, <1>11, <1>12, <1>13

\* The work fails.
LEMMA FailedInv ==
  ASSUME NEW c, NEW obj, NEW snap, NEW tab, NEW bk, NEW n, NEW con,
         NEW d, History(c, d), Fails(d), WorkInv(c, n), EntryInv(c, tab, bk, con)
  PROVE  /\ CallInv(d, obj, snap, tab, bk, n, con)
         /\ \A h : Wrote(d, h) <=> Wrote(c, h)
         /\ \A h, k : Used(d, h, k) => Marked(c, h, k)
<1>1. /\ d.pc = "undo" /\ d.staged = <<>> /\ d.back = {} /\ d.command = NoCommand
      /\ d.graph = c.graph /\ d.old = c.old /\ d.written = c.written
  BY DEF Fails, History
<1>2. DOMAIN d.staged = {}
  <2>1. DOMAIN <<>> = {}
    OBVIOUS
  <2> QED BY <1>1, <2>1
<1>3. \A h : NoCommand.object # {h}
  BY DEF NoCommand
<1>4. \A h : Wrote(d, h) <=> Wrote(c, h)
  BY <1>1 DEF Wrote
<1>5. \A h, k : Used(d, h, k) => Marked(c, h, k)
  BY <1>1, <1>3 DEF Used, Marked
<1>6. BlankInv(d) /\ TodoInv(d) /\ StagedInv(d, tab)
  BY <1>1, <1>2 DEF BlankInv, TodoInv, StagedInv, Holds, InWork
<1>7. WorkInv(d, n)
  BY <1>1, <1>2, <1>4 DEF WorkInv
<1>8. EntryInv(d, tab, bk, con) /\ InsertInv(d, tab, con)
  BY <1>1 DEF EntryInv, InsertInv
<1>9. ShownInv(d, obj, tab, bk, con) /\ HeadInv(d, obj, snap, tab, bk, con)
  BY <1>1 DEF ShownInv, HeadInv
<1> QED BY <1>4, <1>5, <1>6, <1>7, <1>8, <1>9 DEF CallInv

-----------------------------------------------------------------------------
(* The invariant of versions holds at the start *)

LEMMA VersionsStart == Init => VInv
<1> SUFFICES ASSUME Init PROVE VInv
  OBVIOUS
<1> PICK shape \in Shapes :
      /\ items = shape.items
      /\ object = [h \in Objects |-> NewObject(shape, h)]
      /\ snapshot = [h \in Objects |-> IF NewObject(shape, h).ver = {} THEN {} ELSE {0}]
      /\ table = [k \in Range(shape.ids) |-> [ver |-> 1, val |-> 0, by |-> {}]]
      /\ nextId = Cardinality(Range(shape.ids)) + 1
      /\ save = [s \in Savers |-> Idle]
      /\ contested = [h \in Objects |-> {}]
  BY DEF Init
<1> DEFINE R == Range(shape.ids)
<1>1. /\ \A h \in Objects : IsInjective(<<h>> \o shape.items[h])
      /\ IsFiniteSet(R) /\ R = 1 .. Cardinality(R)
  BY ShapesAssumption DEF ShapesAssumption
<1>2. Cardinality(R) \in Nat
  BY <1>1, FS_CardinalityType
<1>3. \A h \in DOMAIN shape.ids : shape.ids[h] \in R
  BY DEF Range
<1> HIDE DEF R
<1>4. nextId \in Nat /\ \A k \in R : k \in Nat /\ k < nextId
  <2>1. nextId = Cardinality(R) + 1
    BY DEF R
  <2>2. \A k \in R : k \in 1 .. Cardinality(R)
    BY <1>1
  <2> QED BY <1>2, <2>1, <2>2
<1>5. DOMAIN table = R /\ \A k \in R : table[k].ver = 1 /\ table[k].val = 0
  BY DEF R
<1>6. \A h \in Objects :
        /\ object[h].key = IF h \in DOMAIN shape.ids THEN shape.ids[h] ELSE h
        /\ object[h].ver \in {{}, {1}}
        /\ object[h].action = "Create" => object[h].ver = {}
        /\ object[h].ver = {1} => snapshot[h] = {0}
  BY DEF NewObject
<1>7. TableInv(table, nextId)
  BY <1>4, <1>5 DEF TableInv, Known
<1>8. \A h \in Objects : IsInjective(Graph(h))
  BY <1>1 DEF Graph
<1>9. \A s \in Savers : save[s] = Idle
  OBVIOUS
<1>10. Blank(Idle) /\ Idle.graph = <<>> /\ Idle.staged = <<>> /\ IsInjective(<<>>) /\ Range(<<>>) = {}
       /\ DOMAIN <<>> = {} /\ ~Holds(Idle)
  <2>1. DOMAIN <<>> = {}
    OBVIOUS
  <2> QED BY <2>1 DEF Idle, Blank, Holds, IsInjective, Range
<1>11. /\ \A s \in Savers : CallInv(save[s], object, snapshot, table, backed, nextId, contested)
       /\ \A s \in Savers : \A h : ~Wrote(save[s], h) /\ \A k : ~Used(save[s], h, k)
  BY <1>9, <1>10, BlankCall
<1>12. \A h \in Objects : ObjectInv(h, object, snapshot, table, backed, save, contested)
  <2>1. ASSUME NEW h \in Objects
        PROVE  Fits(object[h].key, object[h].ver, snapshot[h], table, backed)
    <3>1. CASE object[h].ver = {}
      BY <3>1, FitsNothing
    <3>2. CASE object[h].ver = {1}
      <4>1. \A k \in DOMAIN table : table[k].ver = 1 /\ table[k].val = 0
        BY <1>5
      <4>2. snapshot[h] = {0} /\ Size(1) = 1
        BY <1>6, <3>2 DEF Size
      <4> QED BY <3>2, <4>1, <4>2 DEF Fits
    <3> QED BY <1>6, <3>1, <3>2
  <2>2. ASSUME NEW h \in Objects
        PROVE  object[h].ver \subseteq Int /\ (object[h].action = "Create" => object[h].ver = {})
    BY <1>6
  <2> QED BY <2>1, <2>2 DEF ObjectInv
<1>13. LockInv(save) /\ CrossInv(save, contested) /\ RowLockInv(save)
  BY <1>9, <1>10 DEF LockInv, CrossInv, RowLockInv
<1>14. ClaimInv(object, save, table, nextId)
  <2>1. ASSUME NEW h \in Objects, NEW k, Claims(h, k, object, save)
        PROVE  Known(k, nextId) /\ \A g \in Objects \ {h} : Claims(g, k, object, save) => k \in DOMAIN table
    <3>1. \A g \in Objects : Claims(g, k, object, save) => object[g].key = k
      BY <1>11 DEF Claims
    <3>2. k \in R \/ k = h
      BY <1>3, <1>6, <2>1, <3>1
    <3>3. \A g \in Objects : object[g].key = k => k \in R \/ k = g
      BY <1>3, <1>6
    <3> QED BY <1>4, <1>5, <3>1, <3>2, <3>3 DEF Known
  <2> QED BY <2>1 DEF ClaimInv
<1> QED BY <1>4, <1>7, <1>8, <1>11, <1>12, <1>13, <1>14 DEF VInv

-----------------------------------------------------------------------------
(* The application and other transactions keep it *)

LEMMA CallGraph ==
  ASSUME IInv, NEW s \in Savers
  PROVE  /\ CallType(save[s]) /\ DOMAIN save[s] = SaveFields
         /\ save[s].graph \in Seq(Objects) /\ Range(save[s].graph) \subseteq Objects
         /\ save[s].todo \in Seq(Objects) /\ Range(save[s].todo) \subseteq Range(save[s].graph)
<1>1. CallType(save[s])
  BY DEF IInv, CallOK
<1>2. save[s].graph \in Seq(Objects)
  BY <1>1 DEF CallType
<1>3. \A q \in Seq(Objects) : Range(q) \subseteq Objects
  BY DEF Range
<1> QED BY <1>1, <1>2, <1>3 DEF CallType

LEMMA EditVersions ==
  ASSUME IInv, VInv, NEW h \in Objects, Edit(h) \/ MarkForDeletion(h)
  PROVE  VInv'
<1>1. /\ items' = items /\ context' = context /\ table' = table /\ backed' = backed
      /\ nextId' = nextId /\ save' = save /\ snapshot' = snapshot /\ Disturb(h)
      /\ \/ object' = [object EXCEPT ![h].val = edits']
         \/ object' = [object EXCEPT ![h].action = "Delete"]
  BY DEF Edit, MarkForDeletion, graph
<1>2. DOMAIN object = Objects /\ DOMAIN contested = Objects /\ \A g \in Objects : DOMAIN object[g] = ObjectFields
  BY DEF IInv, ObjectsOK, IsObject
<1>3. /\ \A g \in Objects : /\ object'[g].key = object[g].key /\ object'[g].ver = object[g].ver
                            /\ object'[g].action \in {object[g].action, "Delete"}
      /\ \A g \in Objects \ {h} : object'[g] = object[g]
  BY <1>1, <1>2 DEF ObjectFields
<1>4. /\ \A g \in Objects \ {h} : contested'[g] = contested[g]
      /\ contested'[h] = IF \E s \in Savers : Reaches(s, h) THEN contested[h] \cup {"edited"} ELSE contested[h]
  BY <1>1, <1>2 DEF Disturb
<1>5. Touched(contested, contested')
  BY <1>4 DEF Touched, Solo, Clean
<1>6. nextId \in Nat /\ nextId <= nextId
  BY DEF VInv
<1>7. ASSUME NEW s \in Savers
      PROVE  CallInv(save[s], object', snapshot', table, backed, nextId, contested')
  <2>1. CallType(save[s]) /\ Range(save[s].graph) \subseteq Objects
    BY CallGraph
  <2>2. CallInv(save[s], object, snapshot, table, backed, nextId, contested)
    BY DEF VInv
  <2>3. ASSUME Holds(save[s]), NEW g \in Range(save[s].graph)
        PROVE  Kept(g, save[s], object, object', snapshot, snapshot', table, contested')
    <3>1. g \in Objects
      BY <2>1
    <3>2. CASE g = h
      <4>1. Reaches(s, h)
        BY <2>3, <3>2 DEF Reaches, Holds
      <4>2. ~Clean(g, contested')
        BY <1>4, <3>2, <4>1 DEF Clean
      <4> QED BY <1>3, <3>1, <4>2 DEF Kept
    <3>3. CASE g # h
      BY <1>1, <1>3, <3>1, <3>3 DEF Kept
    <3> QED BY <3>2, <3>3
  <2> QED BY <1>5, <1>6, <2>1, <2>2, <2>3, CallKept
<1>8. \A g \in Objects : ObjectInv(g, object', snapshot', table, backed, save', contested')
  <2>1. ASSUME NEW g \in Objects PROVE ObjectInv(g, object, snapshot, table, backed, save, contested)
    BY DEF VInv
  <2> QED BY <1>1, <1>3, <1>5, <2>1, ObjectKept
<1>9. ClaimInv(object', save', table, nextId)
  <2>1. \A g \in Objects : \A k : Claims(g, k, object', save) => Claims(g, k, object, save)
    BY <1>3 DEF Claims
  <2>2. ClaimInv(object, save, table, nextId)
    BY DEF VInv
  <2> QED BY <1>1, <2>1, <2>2, ClaimsKept
<1>10. CrossInv(save, contested)'
  <2>1. \A s \in Savers : Range(save[s].graph) \subseteq Objects
    BY CallGraph
  <2> QED BY <1>1, <1>5, <2>1 DEF VInv, CrossInv, Touched
<1>11. LockInv(save)' /\ RowLockInv(save')
  BY <1>1 DEF VInv, LockInv
<1>12. TableInv(table, nextId) /\ \A g \in Objects : IsInjective(Graph(g))'
  BY <1>1 DEF VInv, Graph
<1> QED BY <1>1, <1>6, <1>7, <1>8, <1>9, <1>10, <1>11, <1>12 DEF VInv

LEMMA RecoverVersions ==
  ASSUME IInv, VInv, NEW r \in Ids, Recover(r)
  PROVE  VInv'
<1>1. /\ items' = items /\ context' = context /\ backed' = backed /\ nextId' = nextId
      /\ save' = save /\ snapshot' = snapshot /\ object' = object /\ contested' = contested
      /\ r \in DOMAIN table /\ table[r].ver \in -MaxVersion .. -1
      /\ \A s \in Savers : r \notin DOMAIN save[s].staged
      /\ table' = [table EXCEPT ![r].ver = 1 - @]
  BY DEF Recover, RecoverRow, graph, memory
<1>2. DOMAIN table[r] = RowFields /\ TableInv(table, nextId)
  BY <1>1 DEF IInv, RowsOK, RowOK, VInv
<1>3. /\ DOMAIN table' = DOMAIN table /\ table'[r].ver = 1 - table[r].ver
      /\ \A k \in DOMAIN table \ {r} : table'[k] = table[k]
  BY <1>1, <1>2 DEF RowFields
<1>4. table[r].ver \in Int /\ table[r].ver < 0
  <2>1. table[r].ver \in Int
    BY <1>1, <1>2 DEF TableInv
  <2> QED BY <1>1, <2>1
<1>5. table'[r].ver \in Int /\ Size(table[r].ver) < Size(table'[r].ver)
  BY <1>3, <1>4 DEF Size
<1>6. Moves(table, backed, table', backed) /\ TableInv(table', nextId)
  BY <1>1, <1>2, <1>3, <1>5 DEF Moves, TableInv
<1>7. \A h \in Objects : ObjectInv(h, object, snapshot, table, backed, save, contested)
  BY DEF VInv
<1>8. \A h \in Objects : object[h].ver \subseteq Int
  BY <1>7 DEF ObjectInv
<1>9. ASSUME NEW s \in Savers
      PROVE  CallInv(save[s], object, snapshot, table', backed, nextId, contested)
  <2>1. CallInv(save[s], object, snapshot, table, backed, nextId, contested)
    BY DEF VInv
  <2>2. CallType(save[s])
    BY CallGraph
  <2>3. \A k \in DOMAIN save[s].staged : k \in DOMAIN table' => k \in DOMAIN table /\ table'[k] = table[k]
    BY <1>1, <1>3
  <2> QED BY <1>2, <1>3, <1>6, <1>8, <2>1, <2>2, <2>3, CallAdvance
<1>10. \A h \in Objects : ObjectInv(h, object, snapshot, table', backed, save, contested)
  <2>1. ASSUME NEW h \in Objects PROVE ObjectInv(h, object, snapshot, table', backed, save, contested)
    BY <1>2, <1>3, <1>6, <1>7, ObjectAdvance
  <2> QED BY <2>1
<1>11. ClaimInv(object, save, table', nextId)
  BY <1>3 DEF VInv, ClaimInv
<1> QED BY <1>1, <1>6, <1>9, <1>10, <1>11 DEF VInv, LockInv, CrossInv, Graph

LEMMA SaveVersions ==
  ASSUME IInv, VInv, NEW s \in Savers, NEW h \in Objects, Save(s, h)
  PROVE  VInv'
<1> DEFINE hs == Graph(h)
           c == [Idle EXCEPT !.pc = "reserve", !.graph = hs, !.todo = hs]
<1>1. /\ items' = items /\ context' = context /\ object' = object /\ snapshot' = snapshot
      /\ table' = table /\ backed' = backed /\ nextId' = nextId
      /\ save' = [save EXCEPT ![s] = c]
      /\ contested' = [o \in Objects |-> contested[o] \cup
           IF o \notin Range(hs) THEN {}
           ELSE {IF context[t] = context[s] THEN "saved" ELSE "crossed" :
                   t \in {u \in Savers : Reaches(u, o)}}]
  BY DEF Save, graph, memory
<1>2. Blank(c) /\ c.graph = hs /\ c.pc = "reserve" /\ DOMAIN c.staged = {} /\ ~Holds(c)
  <2>1. DOMAIN <<>> = {}
    OBVIOUS
  <2> QED BY <2>1 DEF Idle, Blank, Holds
<1>3. IsInjective(hs)
  BY DEF VInv
<1>4. \A t \in Savers : save'[t] = IF t = s THEN c ELSE save[t]
  BY <1>1 DEF IInv
<1>5. Touched(contested, contested')
  BY <1>1 DEF Touched, Solo, Clean
<1>6. ASSUME NEW t \in Savers, NEW o \in Objects, Reaches(t, o), o \in Range(hs), Solo(o, contested')
      PROVE  context[t] = context[s]
  <2> HIDE DEF hs
  <2>1. (IF context[t] = context[s] THEN "saved" ELSE "crossed") \in contested'[o]
    BY <1>1, <1>6
  <2> QED BY <1>6, <2>1 DEF Solo
<1> HIDE DEF c, hs
<1>7. /\ CallInv(c, object, snapshot, table, backed, nextId, contested')
      /\ \A o : ~Wrote(c, o) /\ \A k : ~Used(c, o, k)
  BY <1>2, <1>3, BlankCall
<1>8. nextId \in Nat /\ nextId <= nextId
  BY DEF VInv
<1>9. ASSUME NEW t \in Savers
      PROVE  CallInv(save[t], object, snapshot, table, backed, nextId, contested')
  <2>1. CallInv(save[t], object, snapshot, table, backed, nextId, contested) /\ CallType(save[t])
    BY CallGraph DEF VInv
  <2>2. \A o : Kept(o, save[t], object, object, snapshot, snapshot, table, contested')
    BY DEF Kept
  <2> QED BY <1>5, <1>8, <2>1, <2>2, CallKept
<1>10. \A t \in Savers : CallInv(save'[t], object, snapshot, table, backed, nextId, contested')
  BY <1>4, <1>7, <1>9
<1>11. save[s].pc = "idle"
  BY DEF Save
<1>12. \A o : ~Wrote(save[s], o)
  BY <1>11, CallBlank DEF Holds
<1>13. \A o \in Objects : ObjectInv(o, object, snapshot, table, backed, save', contested')
  <2>1. ASSUME NEW o \in Objects PROVE ObjectInv(o, object, snapshot, table, backed, save', contested')
    <3>1. ObjectInv(o, object, snapshot, table, backed, save, contested)
      BY DEF VInv
    <3>2. (\A t \in Savers : ~Wrote(save'[t], o)) => \A t \in Savers : ~Wrote(save[t], o)
      BY <1>4, <1>12
    <3> QED BY <1>5, <3>1, <3>2, ObjectKept
  <2> QED BY <2>1
<1>14. LockInv(save)' /\ RowLockInv(save')
  BY <1>1, <1>2, <1>4 DEF VInv, LockInv, RowLockInv
<1>15. CrossInv(save, contested)'
  <2>1. \A t \in Savers : Range(save[t].graph) \subseteq Objects
    BY CallGraph
  <2>2. ASSUME NEW t \in Savers \ {s}, NEW o \in Range(hs) \cap Range(save[t].graph), Solo(o, contested')
        PROVE  context[t] = context[s]
    <3>1. save[t].graph # <<>>
      BY <2>2 DEF Range
    <3>2. save[t].pc # "idle"
      BY <3>1, CallGraph DEF CallType
    <3>3. o \in Objects
      BY <2>1
    <3> QED BY <1>6, <2>2, <3>2, <3>3 DEF Reaches
  <2>3. ASSUME NEW t \in Savers, NEW u \in Savers, t # u,
               NEW o \in Range(save'[t].graph) \cap Range(save'[u].graph), Solo(o, contested')
        PROVE  context[t] = context[u]
    <3>1. CASE t = s
      BY <1>2, <1>4, <2>2, <2>3, <3>1
    <3>2. CASE u = s
      BY <1>2, <1>4, <2>2, <2>3, <3>2
    <3>3. CASE t # s /\ u # s
      BY <1>4, <1>5, <2>1, <2>3, <3>3 DEF VInv, CrossInv, Touched
    <3> QED BY <3>1, <3>2, <3>3
  <2> QED BY <1>1, <2>3 DEF CrossInv
<1>16. ClaimInv(object, save', table, nextId)
  <2>1. \A o \in Objects : \A k : Claims(o, k, object, save') => Claims(o, k, object, save)
    BY <1>4, <1>7 DEF Claims
  <2>2. ClaimInv(object, save, table, nextId)
    BY DEF VInv
  <2> QED BY <2>1, <2>2, ClaimsKept
<1>17. TableInv(table, nextId) /\ \A o \in Objects : IsInjective(Graph(o))'
  BY <1>1 DEF VInv, Graph
<1> QED BY <1>1, <1>8, <1>10, <1>13, <1>14, <1>15, <1>16, <1>17 DEF VInv

-----------------------------------------------------------------------------
(* The steps before the transaction keep it *)

\* Calls that have written nothing change no object but its root.
LEMMA BlankStep ==
  ASSUME IInv, VInv, NEW s \in Savers, NEW c,
         items' = items, context' = context, table' = table, backed' = backed,
         nextId' = nextId, contested' = contested, snapshot' = snapshot,
         save' = [save EXCEPT ![s] = c], ~Holds(save[s]), Blank(c),
         c.graph = save[s].graph \/ c.graph = <<>>,
         \A h \in Objects : Same(object[h], object'[h])
  PROVE  VInv'
<1>1. IsInjective(c.graph) /\ \A h : ~Wrote(save[s], h)
  BY CallBlank DEF IsInjective
<1>2. /\ CallInv(c, object', snapshot', table, backed, nextId, contested)
      /\ \A h : ~Wrote(c, h) /\ \A k : ~Used(c, h, k)
  BY <1>1, BlankCall
<1>3. ~Holds(c) /\ DOMAIN c.staged = {}
  BY DEF Blank
<1>4. \A h \in Objects : Standing(h, object, object', snapshot, snapshot')
  BY DEF Standing
<1>5. \A h \in Objects : Claims(h, object'[h].key, object, save)
  BY DEF Claims, Same
<1>6. \A t \in Savers : save'[t] = IF t = s THEN c ELSE save[t]
  BY DEF IInv
<1>7. \A h \in Objects : ObjectInv(h, object', snapshot', table, backed, save', contested)
  <2>1. ASSUME NEW h \in Objects PROVE ObjectInv(h, object', snapshot', table, backed, save', contested)
    <3>1. ObjectInv(h, object, snapshot, table, backed, save, contested)
      BY DEF VInv
    <3>2. (\A t \in Savers : ~Wrote(save'[t], h)) => \A t \in Savers : ~Wrote(save[t], h)
      BY <1>1, <1>6
    <3>3. Same(object[h], object'[h]) /\ Touched(contested, contested)
      BY DEF Touched
    <3> QED BY <3>1, <3>2, <3>3, ObjectKept DEF Same
  <2> QED BY <2>1
<1> QED BY <1>2, <1>3, <1>4, <1>5, <1>7, MemoryStep

LEMMA IdleBlank ==
  ASSUME IInv, VInv, NEW s \in Savers,
         items' = items, context' = context, table' = table, backed' = backed,
         nextId' = nextId, contested' = contested, snapshot' = snapshot, object' = object,
         save' = [save EXCEPT ![s] = Idle], ~Holds(save[s])
  PROVE  VInv'
<1>1. Blank(Idle) /\ Idle.graph = <<>>
  <2>1. DOMAIN <<>> = {}
    OBVIOUS
  <2> QED BY <2>1 DEF Idle, Blank, Holds
<1>2. \A h \in Objects : Same(object[h], object'[h])
  BY DEF Same
<1> QED BY <1>1, <1>2, BlankStep

LEMMA ReserveVersions ==
  ASSUME IInv, VInv, NEW s \in Savers, Reserve(s)
  PROVE  VInv'
<1> DEFINE todo == save[s].todo
           r == Root(Head(save[s].graph))
           waiting == {i \in 1 .. Len(todo) : NeedsId(todo[i])}
           n == IF waiting = {} THEN Len(todo) ELSE Min(waiting)
           reached == SubSeq(todo, 1, n)
           attached == Attachable(Memory, reached, r)
           begins == [save[s] EXCEPT !.pc = "begin", !.todo = <<>>]
           waits == [save[s] EXCEPT !.pc = "allocate", !.todo = SubSeq(todo, n, Len(todo))]
           c == IF attached # reached THEN Idle ELSE IF waiting = {} THEN begins ELSE waits
<1>1. /\ save[s].pc = "reserve" /\ items' = items /\ context' = context /\ table' = table
      /\ backed' = backed /\ nextId' = nextId /\ contested' = contested /\ snapshot' = snapshot
      /\ save' = [save EXCEPT ![s] = c]
      /\ object' = AttachAll(Memory, attached, r).object
  BY DEF Reserve, Remember, graph
<1>2. \A h \in Objects : Same(object[h], object'[h])
  <2>1. Memory.object = object
    BY DEF Memory
  <2> HIDE DEF attached, r
  <2>2. ObjectsOK(Memory.object)
    BY <2>1 DEF IInv
  <2> QED BY <1>1, <2>1, <2>2, AttachSame
<1>3. ~Holds(save[s]) /\ DOMAIN save[s] = SaveFields
  BY <1>1, CallGraph DEF Holds
<1>4. Blank(save[s])
  BY <1>3, CallBlank DEF Blank
<1>5. Blank(Idle) /\ Idle.graph = <<>>
  <2>1. DOMAIN <<>> = {}
    OBVIOUS
  <2> QED BY <2>1 DEF Idle, Blank, Holds
<1>6. Blank(begins) /\ begins.graph = save[s].graph
  BY <1>3, <1>4 DEF SaveFields, Blank, Holds
<1>7. Blank(waits) /\ waits.graph = save[s].graph
  <2> HIDE DEF n, todo
  <2> QED BY <1>3, <1>4 DEF SaveFields, Blank, Holds
<1>8. Blank(c) /\ (c.graph = save[s].graph \/ c.graph = <<>>)
  <2> HIDE DEF attached, reached, waiting, begins, waits
  <2> QED BY <1>5, <1>6, <1>7
<1> HIDE DEF c
<1> QED BY <1>1, <1>2, <1>3, <1>8, BlankStep

LEMMA GiveUpVersions ==
  ASSUME IInv, VInv, NEW s \in Savers, GiveUp(s)
  PROVE  VInv'
<1>1. ~Holds(save[s])
  BY DEF GiveUp, Holds
<1> QED BY <1>1, IdleBlank DEF GiveUp, graph, memory

\* The new ID is nobody's, and there is no row of it.
LEMMA AllocateVersions ==
  ASSUME IInv, VInv, NEW s \in Savers, Allocate(s)
  PROVE  VInv'
<1> DEFINE h == Head(save[s].todo)
           c == [save[s] EXCEPT !.pc = "reserve", !.todo = Tail(@)]
<1>1. CallType(save[s]) /\ DOMAIN save[s] = SaveFields /\ save[s].pc = "allocate"
  BY CallGraph DEF Allocate
<1>2. /\ items' = items /\ context' = context /\ table' = table /\ backed' = backed
      /\ contested' = contested /\ snapshot' = snapshot
      /\ nextId \in Ids /\ nextId' = nextId + 1 /\ object' = [object EXCEPT ![h].key = nextId]
  BY DEF Allocate, graph
<1>3. save' = [save EXCEPT ![s] = c]
  BY <1>1 DEF Allocate, SaveFields, IInv
<1>4. h \in Objects
  <2>1. save[s].todo # <<>>
    BY <1>1 DEF IInv, CallOK, AllocateOK
  <2> QED BY <1>1, <2>1 DEF CallType
<1>5. nextId \in Nat /\ nextId' \in Nat /\ nextId <= nextId' /\ ~Known(nextId, nextId) /\ Known(nextId, nextId')
  <2>1. nextId \in Nat /\ nextId \notin Objects
    BY <1>2, IdsAssumption DEF VInv, IdsAssumption
  <2> QED BY <1>2, <2>1 DEF Known
<1>6. /\ object'[h].key = nextId /\ object'[h].ver = object[h].ver
      /\ object'[h].val = object[h].val /\ object'[h].action = object[h].action
      /\ \A g \in Objects \ {h} : object'[g] = object[g]
  <2>1. DOMAIN object[h] = ObjectFields /\ DOMAIN object = Objects
    BY <1>4 DEF IInv, ObjectsOK, IsObject
  <2> HIDE DEF h
  <2> QED BY <1>2, <1>4, <2>1 DEF ObjectFields
<1>7. ~Holds(save[s]) /\ Blank(save[s])
  <2>1. ~Holds(save[s])
    BY <1>1 DEF Holds
  <2> QED BY <2>1, CallBlank DEF Blank
<1>8. Blank(c) /\ c.graph = save[s].graph /\ c.staged = save[s].staged
  BY <1>1, <1>7 DEF SaveFields, Blank, Holds
<1> HIDE DEF h, c
<1>9. /\ CallInv(c, object', snapshot', table, backed, nextId', contested)
      /\ \A g : ~Wrote(c, g) /\ \A k : ~Used(c, g, k)
  BY <1>7, <1>8, CallBlank, BlankCall
<1>10. \A t \in Savers : save'[t] = IF t = s THEN c ELSE save[t]
  BY <1>3 DEF IInv
<1>11. Touched(contested, contested)
  BY DEF Touched
<1>12. nextId \notin DOMAIN table
  BY <1>5 DEF VInv, TableInv
<1>13. ASSUME NEW t \in Savers \ {s}
       PROVE  CallInv(save[t], object', snapshot', table, backed, nextId', contested)
  <2>1. CallInv(save[t], object, snapshot, table, backed, nextId, contested)
    BY DEF VInv
  <2>2. CallType(save[t]) /\ Range(save[t].graph) \subseteq Objects
    BY CallGraph
  <2>3. nextId \notin DOMAIN Over(save[t].staged, table)
    <3>1. WorkInv(save[t], nextId)
      BY <2>1 DEF CallInv
    <3>2. nextId \notin DOMAIN save[t].staged
      BY <1>5, <3>1 DEF WorkInv
    <3>3. DOMAIN Over(save[t].staged, table) = DOMAIN save[t].staged \cup DOMAIN table
      BY OverDomain
    <3> QED BY <1>12, <3>2, <3>3
  <2>4. \A g \in Objects : Kept(g, save[t], object, object', snapshot, snapshot', table, contested)
    BY <1>2, <1>6, <2>3 DEF Kept
  <2> QED BY <1>5, <1>11, <2>1, <2>2, <2>4, CallKept
<1>14. \A t \in Savers : CallInv(save'[t], object', snapshot', table, backed, nextId', contested)
  BY <1>9, <1>10, <1>13
<1>15. \A g : ~Wrote(save[s], g)
  BY <1>7, CallBlank
<1>16. \A g \in Objects : ObjectInv(g, object', snapshot', table, backed, save', contested)
  <2>1. ASSUME NEW g \in Objects PROVE ObjectInv(g, object', snapshot', table, backed, save', contested)
    <3>1. ObjectInv(g, object, snapshot, table, backed, save, contested)
      BY DEF VInv
    <3>2. (\A t \in Savers : ~Wrote(save'[t], g)) => \A t \in Savers : ~Wrote(save[t], g)
      BY <1>10, <1>15
    <3>3. /\ object'[g].ver = object[g].ver /\ object'[g].action = object[g].action
          /\ object'[g].key = object[g].key \/ object'[g].key \notin DOMAIN table
      BY <1>6, <1>12
    <3> QED BY <1>2, <1>11, <3>1, <3>2, <3>3, ObjectKept
  <2> QED BY <2>1
<1>17. LockInv(save)' /\ RowLockInv(save') /\ CrossInv(save, contested)'
  BY <1>2, <1>7, <1>8, <1>10 DEF VInv, LockInv, RowLockInv, CrossInv, Blank
<1>18. ClaimInv(object', save', table, nextId')
  <2>1. ASSUME NEW g \in Objects, NEW k, Claims(g, k, object', save')
        PROVE  Claims(g, k, object, save) \/ (g = h /\ k = nextId)
    BY <1>6, <1>9, <1>10, <2>1 DEF Claims
  <2>2. ClaimInv(object, save, table, nextId)
    BY DEF VInv
  <2>3. \A g \in Objects : ~Claims(g, nextId, object, save)
    BY <1>5, <2>2 DEF ClaimInv
  <2>4. \A k : Known(k, nextId) => Known(k, nextId')
    BY <1>5, KnownGrows
  <2> QED BY <1>5, <2>1, <2>2, <2>3, <2>4 DEF ClaimInv
<1>19. TableInv(table, nextId') /\ \A g \in Objects : IsInjective(Graph(g))'
  BY <1>2, <1>5, KnownGrows DEF VInv, TableInv, Graph
<1> QED BY <1>2, <1>5, <1>14, <1>16, <1>17, <1>18, <1>19 DEF VInv

-----------------------------------------------------------------------------
(* The transaction keeps it *)

\* A call that begins its work, and goes on, ends it or fails.
LEMMA StartVersions ==
  ASSUME IInv, VInv, NEW s \in Savers, NEW d,
         save[s].pc = "begin", TakesLock(s),
         items' = items, context' = context, table' = table, backed' = backed,
         nextId' = nextId, contested' = contested, snapshot' = snapshot,
         save' = [save EXCEPT ![s] = d], History(save[s], d),
         Fails(d) \/ Ends(save[s], d) \/ GoesOn(save[s], d, object', save[s].graph),
         \A h \in Objects : Same(object[h], object'[h])
  PROVE  VInv'
<1> DEFINE hs == save[s].graph
<1>1. \A t \in Savers : Holds(save[t]) => context[t] # context[s]
  BY DEF TakesLock, Locked, Holds
<1>3. /\ CallType(save[s]) /\ DOMAIN save[s] = SaveFields
      /\ hs \in Seq(Objects) /\ Range(hs) \subseteq Objects
  BY CallGraph
<1>4. /\ ~Holds(save[s]) /\ Blank(save[s]) /\ IsInjective(hs)
      /\ \A h : ~Wrote(save[s], h) /\ \A k : ~Marked(save[s], h, k)
  <2>1. ~Holds(save[s])
    BY DEF Holds
  <2>2. Blank(save[s]) /\ IsInjective(hs)
    BY <2>1, CallBlank DEF Blank
  <2> QED BY <2>1, <2>2, BlankCall DEF Used
<1>5. /\ WorkInv(save[s], nextId) /\ StagedInv(save[s], table)
      /\ EntryInv(save[s], table, backed, contested) /\ InsertInv(save[s], table, contested)
  BY DEF VInv, CallInv
<1>6. \A obj : ShownInv(save[s], obj, table, backed, contested)
  BY <1>4 DEF ShownInv
<1>7. /\ History(save[s], d)
      /\ Fails(d) \/ Ends(save[s], d) \/ GoesOn(save[s], d, object', hs)
      /\ \A h \in Objects : Same(object[h], object'[h])
  OBVIOUS
<1>8. ASSUME NEW h \in Range(hs)
      PROVE  ~Wrote(save[s], h) /\ Source(h, object', snapshot, table, backed, contested)
  <2>1. h \in Objects /\ Same(object[h], object'[h])
    BY <1>3, <1>7
  <2>2. ObjectInv(h, object, snapshot, table, backed, save, contested)
    BY <2>1 DEF VInv
  <2>3. ASSUME Clean(h, contested), NEW t \in Savers PROVE ~Wrote(save[t], h)
    <3>1. SUFFICES ASSUME Wrote(save[t], h) PROVE FALSE
      OBVIOUS
    <3>2. Holds(save[t]) /\ h \in Range(save[t].graph)
      <4>1. WorkInv(save[t], nextId)
        BY DEF VInv, CallInv
      <4> QED BY <3>1, <4>1, CallBlank DEF WorkInv, Wrote
    <3>3. t # s /\ context[t] # context[s]
      BY <1>1, <1>4, <3>2
    <3> QED BY <2>3, <3>2, <3>3, CleanSolo DEF VInv, CrossInv
  <2> QED BY <1>4, <2>1, <2>2, <2>3 DEF ObjectInv, Source, Same
<1>9. /\ CallInv(d, object', snapshot, table, backed, nextId, contested)
      /\ Holds(d) /\ DOMAIN d.staged \subseteq DOMAIN save[s].staged
      /\ \A h : Wrote(d, h) <=> Wrote(save[s], h)
      /\ \A h, k : Used(d, h, k) => Marked(save[s], h, k) \/ (h \in Range(hs) /\ k = object'[h].key)
  <2> HIDE DEF hs
  <2>1. hs \in Seq(Objects) /\ IsInjective(hs)
    BY <1>3, <1>4
  <2>2. save[s].pc \in {"begin", "write"}
    BY <1>1
  <2>3. History(save[s], d) /\ (Fails(d) \/ Ends(save[s], d) \/ GoesOn(save[s], d, object', hs))
    BY <1>7
  <2>4. ShownInv(save[s], object', table, backed, contested)
    BY <1>6
  <2>5. \A h \in Range(hs) : ~Wrote(save[s], h) /\ Source(h, object', snapshot, table, backed, contested)
    BY <1>8
  <2>6. /\ WorkInv(save[s], nextId) /\ StagedInv(save[s], table)
        /\ EntryInv(save[s], table, backed, contested) /\ InsertInv(save[s], table, contested)
    BY <1>5
  <2>7. Outcome(save[s], d, object', snapshot, table, backed, nextId, contested, hs)
    BY <2>1, <2>2, <2>3, <2>4, <2>5, <2>6 DEF Outcome
  <2> QED BY <2>7, OutcomeInv
<1>10. /\ \A h \in Objects : Standing(h, object, object', snapshot, snapshot')
       /\ \A h \in Objects : Claims(h, object'[h].key, object, save)
       /\ \A h \in Objects : \A k : Used(d, h, k) => Claims(h, k, object, save)
  BY <1>1, <1>4, <1>7, <1>9 DEF Standing, Same, Claims
<1>11. \A t \in Savers : save'[t] = IF t = s THEN d ELSE save[t]
  BY DEF IInv
<1>12. \A h \in Objects : ObjectInv(h, object', snapshot', table, backed, save', contested)
  <2>1. ASSUME NEW h \in Objects PROVE ObjectInv(h, object', snapshot', table, backed, save', contested)
    <3>1. ObjectInv(h, object, snapshot, table, backed, save, contested)
      BY DEF VInv
    <3>2. (\A t \in Savers : ~Wrote(save'[t], h)) => \A t \in Savers : ~Wrote(save[t], h)
      BY <1>9, <1>11
    <3>3. Same(object[h], object'[h]) /\ Touched(contested, contested)
      BY <1>7 DEF Touched
    <3> QED BY <1>1, <3>1, <3>2, <3>3, ObjectKept DEF Same
  <2> QED BY <2>1
<1>13. \A t \in Savers \ {s} : DOMAIN d.staged \cap DOMAIN save[t].staged = {}
  BY <1>4, <1>9 DEF Blank
<1>14. d.graph = save[s].graph
  BY <1>7 DEF History
<1> QED BY <1>1, <1>7, <1>9, <1>10, <1>12, <1>13, <1>14, MemoryStep

LEMMA BeginVersions ==
  ASSUME IInv, VInv, NEW s \in Savers, Begin(s)
  PROVE  VInv'
<1> DEFINE hs == save[s].graph
           r == Root(Head(hs))
           attached == Attachable(Memory, hs, r)
           refused == {i \in 1 .. Len(attached) :
                         Incomplete(AttachAll(Memory, SubSeq(hs, 1, i), r), hs[i])}
           reached == IF refused = {} THEN attached ELSE SubSeq(hs, 1, Min(refused))
           checked == IF refused = {} THEN attached ELSE SubSeq(hs, 1, Min(refused) - 1)
           after == AttachAll(Memory, reached, r)
           m == Preflight(r, reached, checked)
           next == Proceed(save[s], m, hs)
<1>1. /\ save[s].pc = "begin" /\ items' = items /\ context' = context /\ table' = table
      /\ backed' = backed /\ nextId' = nextId /\ contested' = contested /\ snapshot' = snapshot
      /\ TakesLock(s)
      /\ \/ object' = m.object /\ save' = [save EXCEPT ![s] = Failed(save[s])]
         \/ object' = next.memory.object /\ save' = [save EXCEPT ![s] = next.save]
  BY DEF Begin, Remember, graph
<1>2. ObjectsOK(m.object) /\ \A h \in Objects : Same(object[h], m.object[h])
  <2>1. Memory.object = object /\ m.object = after.object
    BY DEF Memory, Preflight, AttachAll
  <2> HIDE DEF reached, r, m
  <2>2. ObjectsOK(Memory.object)
    BY <2>1 DEF IInv
  <2> QED BY <2>1, <2>2, AttachKeeps, AttachSame
<1> HIDE DEF m
<1>3. /\ CallType(save[s]) /\ DOMAIN save[s] = SaveFields
      /\ hs \in Seq(Objects) /\ Range(hs) \subseteq Objects
  BY CallGraph
<1>4. PICK d : /\ save' = [save EXCEPT ![s] = d] /\ History(save[s], d)
               /\ Fails(d) \/ Ends(save[s], d) \/ GoesOn(save[s], d, object', hs)
               /\ \A h \in Objects : Same(object[h], object'[h])
  <2>1. /\ \A h \in Objects : Same(m.object[h], next.memory.object[h])
        /\ History(save[s], next.save)
        /\ Fails(next.save) \/ Ends(save[s], next.save) \/ GoesOn(save[s], next.save, next.memory.object, hs)
    <3> HIDE DEF hs
    <3> QED BY <1>2, <1>3, ProceedShape
  <2>2. History(save[s], Failed(save[s])) /\ Fails(Failed(save[s]))
    BY <1>3, FailedShape DEF History, Fails
  <2> HIDE DEF next, hs
  <2>3. \A h \in Objects : Same(object[h], next.memory.object[h])
    BY <1>2, <2>1 DEF Same
  <2> QED BY <1>1, <1>2, <2>1, <2>2, <2>3
<1> HIDE DEF next, hs
<1> QED BY <1>1, <1>4, StartVersions DEF hs

LEMMA CheckRaisesVersions ==
  ASSUME IInv, VInv, NEW s \in Savers, CheckRaises(s)
  PROVE  VInv'
<1> DEFINE d == Failed(save[s])
<1>1. PICK hs, r : /\ save[s].pc = "begin" /\ items' = items /\ context' = context /\ table' = table
                   /\ backed' = backed /\ nextId' = nextId /\ contested' = contested
                   /\ snapshot' = snapshot /\ TakesLock(s)
                   /\ object' = AttachAll(Memory, hs, r).object
                   /\ save' = [save EXCEPT ![s] = d]
  BY DEF CheckRaises, Remember, Preflight, graph
<1>2. \A h \in Objects : Same(object[h], object'[h])
  <2>1. Memory.object = object
    BY DEF Memory
  <2>2. ObjectsOK(Memory.object)
    BY <2>1 DEF IInv
  <2> QED BY <1>1, <2>1, <2>2, AttachKeeps, AttachSame
<1>3. History(save[s], d) /\ Fails(d)
  BY CallGraph, FailedShape DEF History, Fails
<1> HIDE DEF d
<1> QED BY <1>1, <1>2, <1>3, StartVersions

LEMMA WriteFailsVersions ==
  ASSUME IInv, VInv, NEW s \in Savers, WriteFails(s)
  PROVE  VInv'
<1> DEFINE d == Failed(save[s])
<1>1. /\ items' = items /\ context' = context /\ table' = table /\ backed' = backed
      /\ nextId' = nextId /\ contested' = contested /\ snapshot' = snapshot /\ object' = object
      /\ save' = [save EXCEPT ![s] = d] /\ save[s].pc = "write"
  BY DEF WriteFails, graph, memory
<1>2. History(save[s], d) /\ Fails(d)
  BY CallGraph, FailedShape DEF History, Fails
<1>3. /\ CallInv(d, object, snapshot, table, backed, nextId, contested)
      /\ \A h : Wrote(d, h) <=> Wrote(save[s], h)
      /\ \A h, k : Used(d, h, k) => Marked(save[s], h, k)
  BY <1>2, FailedInv DEF VInv, CallInv
<1>4. d.graph = save[s].graph /\ DOMAIN d.staged = {}
  <2>1. d.graph = save[s].graph /\ d.staged = <<>> /\ DOMAIN <<>> = {}
    BY <1>2 DEF History, Fails
  <2> QED BY <2>1
<1> HIDE DEF d
<1>5. /\ \A h \in Objects : Standing(h, object, object', snapshot, snapshot')
      /\ \A h \in Objects : Claims(h, object'[h].key, object, save)
      /\ \A h \in Objects : \A k : Used(d, h, k) => Claims(h, k, object, save)
  BY <1>1, <1>3 DEF Standing, Same, Claims, Used
<1>6. \A t \in Savers : save'[t] = IF t = s THEN d ELSE save[t]
  BY <1>1 DEF IInv
<1>7. \A h \in Objects : ObjectInv(h, object', snapshot', table, backed, save', contested)
  BY <1>1, <1>3, <1>6 DEF VInv, ObjectInv
<1>8. Holds(save[s])
  BY <1>1 DEF Holds
<1> QED BY <1>1, <1>3, <1>4, <1>5, <1>7, <1>8, MemoryStep

\* A call that ends: what it has written is what it shows, or what it was.
LEMMA EndStep ==
  ASSUME IInv, VInv, NEW s \in Savers, Holds(save[s]),
         items' = items, context' = context, table' = table, backed' = backed,
         nextId' = nextId, contested' = contested, save' = [save EXCEPT ![s] = Idle],
         \A h \in Objects : Claims(h, object'[h].key, object, save),
         \A h \in Objects : Wrote(save[s], h) \/ (object'[h] = object[h] /\ snapshot'[h] = snapshot[h]),
         \A h \in Objects : Wrote(save[s], h) => Source(h, object', snapshot', table, backed, contested)
  PROVE  VInv'
<1>1. Blank(Idle) /\ Idle.graph = <<>> /\ DOMAIN Idle.staged = {} /\ ~Holds(Idle) /\ IsInjective(<<>>)
  <2>1. DOMAIN <<>> = {}
    OBVIOUS
  <2> QED BY <2>1 DEF Idle, Blank, Holds, IsInjective
<1>2. /\ CallInv(Idle, object', snapshot', table, backed, nextId, contested)
      /\ \A h : ~Wrote(Idle, h) /\ \A k : ~Used(Idle, h, k)
  BY <1>1, BlankCall
<1>3. \A t \in Savers : save'[t] = IF t = s THEN Idle ELSE save[t]
  BY DEF IInv
<1>4. \A h \in Objects : Wrote(save[s], h) => h \in Range(save[s].graph)
  <2>1. WorkInv(save[s], nextId)
    BY DEF VInv, CallInv
  <2> QED BY <2>1 DEF WorkInv, Wrote
<1>5. \A h \in Objects : \/ Standing(h, object, object', snapshot, snapshot')
                         \/ h \in Range(save[s].graph)
  BY <1>4 DEF Standing, Same
<1>6. \A h \in Objects : ObjectInv(h, object', snapshot', table, backed, save', contested)
  <2>1. ASSUME NEW h \in Objects PROVE ObjectInv(h, object', snapshot', table, backed, save', contested)
    <3>1. CASE Wrote(save[s], h)
      BY <3>1 DEF Source, ObjectInv
    <3>2. CASE ~Wrote(save[s], h)
      <4>1. ObjectInv(h, object, snapshot, table, backed, save, contested)
        BY DEF VInv
      <4>2. (\A t \in Savers : ~Wrote(save'[t], h)) => \A t \in Savers : ~Wrote(save[t], h)
        BY <1>3, <3>2
      <4> QED BY <3>2, <4>1, <4>2 DEF ObjectInv
    <3> QED BY <3>1, <3>2
  <2> QED BY <2>1
<1> QED BY <1>1, <1>2, <1>5, <1>6, MemoryStep

\* What a saved object shows is its row, unless others moved it on.
LEMMA SettleVersions ==
  ASSUME IInv, VInv, NEW s \in Savers, Settle(s)
  PROVE  VInv'
<1>1. /\ save[s].pc = "settle" /\ items' = items /\ context' = context /\ table' = table
      /\ backed' = backed /\ nextId' = nextId /\ contested' = contested /\ object' = object
      /\ save' = [save EXCEPT ![s] = Idle]
      /\ snapshot' = [h \in Objects |->
           IF \E w \in Range(save[s].written) : w[1] = h THEN {object[h].val} ELSE snapshot[h]]
  BY DEF Settle, graph
<1>2. /\ BlankInv(save[s]) /\ WorkInv(save[s], nextId)
      /\ ShownInv(save[s], object, table, backed, contested)
  BY DEF VInv, CallInv
<1>3. \A h : Wrote(save[s], h) <=> \E w \in Range(save[s].written) : w[1] = h
  BY <1>2 DEF WorkInv, Wrote
<1>4. \A h \in Objects : snapshot'[h] = IF Wrote(save[s], h) THEN {object[h].val} ELSE snapshot[h]
  BY <1>1, <1>3
<1>5. ASSUME NEW h \in Objects, Wrote(save[s], h)
      PROVE  Source(h, object', snapshot', table, backed, contested)
  <2>1. ObjectInv(h, object, snapshot, table, backed, save, contested)
    BY DEF VInv
  <2>2. Clean(h, contested) => Fits(object[h].key, object[h].ver, {object[h].val}, table, backed)
    <3>1. SUFFICES ASSUME Clean(h, contested)
                   PROVE  Fits(object[h].key, object[h].ver, {object[h].val}, table, backed)
      OBVIOUS
    <3>2. DOMAIN save[s].staged = {} /\ save[s].back = {}
      BY <1>1, <1>2 DEF BlankInv, InWork
    <3>3. /\ DOMAIN Over(save[s].staged, table) = DOMAIN table
          /\ \A k \in DOMAIN table : Over(save[s].staged, table)[k] = table[k]
      BY <3>2 DEF Over
    <3>4. Fits(object[h].key, object[h].ver, {object[h].val}, Over(save[s].staged, table), backed \cup save[s].back)
      BY <1>1, <1>2, <1>5, <3>1 DEF ShownInv
    <3>5. backed \cup save[s].back = backed
      BY <3>2
    <3> QED BY <3>3, <3>4, <3>5 DEF Fits
  <2> QED BY <1>1, <1>4, <1>5, <2>1, <2>2 DEF Source, ObjectInv
<1>6. \A h \in Objects : Claims(h, object'[h].key, object, save)
  BY <1>1 DEF Claims
<1>7. Holds(save[s])
  BY <1>1 DEF Holds
<1> QED BY <1>1, <1>4, <1>5, <1>6, <1>7, EndStep

LEMMA UndoVersions ==
  ASSUME IInv, VInv, NEW s \in Savers, Undo(s)
  PROVE  VInv'
<1> DEFINE old == save[s].old
           entries(h) == {i \in DOMAIN old : old[i][1] = h}
<1>1. /\ save[s].pc = "undo" /\ items' = items /\ context' = context /\ table' = table
      /\ backed' = backed /\ nextId' = nextId /\ contested' = contested
      /\ save' = [save EXCEPT ![s] = Idle]
      /\ object' = [h \in Objects |->
           IF entries(h) = {} THEN object[h] ELSE Earlier(object[h], old[Min(entries(h))])]
      /\ snapshot' = [h \in Objects |->
           IF entries(h) = {} THEN snapshot[h] ELSE old[Min(entries(h))][3]]
  BY DEF Undo, graph
<1>2. /\ WorkInv(save[s], nextId) /\ EntryInv(save[s], table, backed, contested)
      /\ OldOK(save[s], object, contested) /\ DOMAIN old \subseteq Nat
  BY DEF VInv, CallInv, IInv, CallOK, OldOK
<1>3. ASSUME NEW h \in Objects, entries(h) # {}
      PROVE  \E e \in Range(old) :
               /\ e[1] = h /\ Wrote(save[s], h) /\ snapshot'[h] = e[3]
               /\ object'[h].key = e[2].key /\ object'[h].ver = e[2].ver
               /\ object'[h].action = e[2].action
  <2>1. Min(entries(h)) \in DOMAIN old /\ old[Min(entries(h))][1] = h
    <3>1. entries(h) \subseteq Nat
      BY <1>2
    <3>2. Min(entries(h)) \in entries(h)
      <4> HIDE DEF entries
      <4> QED BY <1>3, <3>1, MinLeast
    <3> QED BY <3>2
  <2>2. PICK e : e = old[Min(entries(h))]
    OBVIOUS
  <2>3. e \in Range(old) /\ e[1] = h /\ IsObject(e[2])
    BY <1>2, <2>1, <2>2 DEF OldOK, EntryOK, Range
  <2>4. object'[h] = [e[2] EXCEPT !.root = object[h].root] /\ snapshot'[h] = e[3]
    BY <1>1, <1>3, <2>2 DEF Earlier
  <2> QED BY <2>3, <2>4 DEF Wrote, IsObject, ObjectFields
<1>4. ASSUME NEW h \in Objects, entries(h) = {}
      PROVE  object'[h] = object[h] /\ snapshot'[h] = snapshot[h] /\ ~Wrote(save[s], h)
  <2>1. ~Wrote(save[s], h)
    BY <1>4 DEF Wrote, Range
  <2> QED BY <1>1, <1>4, <2>1
<1> HIDE DEF entries, old
<1>5. \A h \in Objects : Claims(h, object'[h].key, object, save)
  <2>1. ASSUME NEW h \in Objects PROVE Claims(h, object'[h].key, object, save)
    <3>1. CASE entries(h) = {}
      BY <1>4, <3>1 DEF Claims
    <3>2. CASE entries(h) # {}
      BY <1>3, <3>2 DEF Claims, Used, Marked, old
    <3> QED BY <3>1, <3>2
  <2> QED BY <2>1
<1>6. ASSUME NEW h \in Objects, Wrote(save[s], h)
      PROVE  Source(h, object', snapshot', table, backed, contested)
  <2>1. entries(h) # {}
    BY <1>4, <1>6
  <2>2. PICK e \in Range(old) :
          /\ e[1] = h /\ snapshot'[h] = e[3]
          /\ object'[h].key = e[2].key /\ object'[h].ver = e[2].ver
          /\ object'[h].action = e[2].action
    BY <1>3, <2>1
  <2>3. /\ e[2].ver \subseteq Int
        /\ Solo(h, contested) /\ e[2].action = "Create" => e[2].ver = {}
        /\ Clean(h, contested) => Fits(e[2].key, e[2].ver, e[3], table, backed)
    BY <1>2, <2>2 DEF WorkInv, EntryInv, old
  <2> QED BY <2>2, <2>3 DEF Source
<1>7. \A h \in Objects : Wrote(save[s], h) \/ (object'[h] = object[h] /\ snapshot'[h] = snapshot[h])
  BY <1>3, <1>4
<1>8. Holds(save[s])
  BY <1>1 DEF Holds
<1> QED BY <1>1, <1>5, <1>6, <1>7, <1>8, EndStep

-----------------------------------------------------------------------------
(* A statement keeps it *)

\* The rows a call sees.
LEMMA ViewRows ==
  ASSUME VInv, NEW s \in Savers
  PROVE  /\ DOMAIN View(s) = DOMAIN save[s].staged \cup DOMAIN table
         /\ \A k \in DOMAIN save[s].staged : View(s)[k] = save[s].staged[k]
         /\ \A k \in DOMAIN table \ DOMAIN save[s].staged : View(s)[k] = table[k]
         /\ \A k \in DOMAIN View(s) : Known(k, nextId) /\ View(s)[k].ver \in Int
<1>1. /\ DOMAIN View(s) = DOMAIN save[s].staged \cup DOMAIN table
      /\ \A k \in DOMAIN save[s].staged : View(s)[k] = save[s].staged[k]
      /\ \A k \in DOMAIN table \ DOMAIN save[s].staged : View(s)[k] = table[k]
  BY OverDomain DEF View
<1>2. WorkInv(save[s], nextId) /\ TableInv(table, nextId)
  BY DEF VInv, CallInv
<1> QED BY <1>1, <1>2 DEF WorkInv, TableInv

\* The object a call writes next and those after it are still what they were
\* before any call wrote them, and no row of its own is uncommitted.
LEMMA NextObject ==
  ASSUME IInv, VInv, NEW s \in Savers, save[s].pc = "write"
  PROVE  LET c == save[s].command
             h == Head(save[s].todo)
         IN  /\ save[s].todo \in Seq(Objects) /\ save[s].todo # <<>> /\ IsInjective(save[s].todo)
             /\ h \in Range(save[s].todo) /\ c.object = {h} /\ c.kind \in Actions
             /\ \A g \in Range(save[s].todo) :
                  /\ g \in Objects /\ g \in Range(save[s].graph) /\ ~Wrote(save[s], g)
                  /\ Solo(g, contested) => \A t \in Savers : ~Wrote(save[t], g)
             /\ Claims(h, c.key, object, save)
             /\ c.key \in DOMAIN View(s) => c.key \in DOMAIN table
<1> DEFINE c == save[s].command
           h == Head(save[s].todo)
<1>1. /\ save[s].todo \in Seq(Objects) /\ Range(save[s].graph) \subseteq Objects
      /\ Range(save[s].todo) \subseteq Range(save[s].graph)
  BY CallGraph
<1>2. /\ save[s].todo # <<>> /\ IsInjective(save[s].todo) /\ c.object = {h}
      /\ \A g \in Range(save[s].todo) : ~Wrote(save[s], g)
  BY DEF VInv, CallInv, TodoInv
<1>3. h \in Range(save[s].todo)
  BY <1>1, <1>2, HeadAndTail
<1>4. c.kind \in Actions
  BY DEF IInv, CallOK, WriteOK, CommandOK
<1> HIDE DEF c, h
<1>5. ASSUME NEW g \in Range(save[s].todo), Solo(g, contested), NEW t \in Savers
      PROVE  ~Wrote(save[t], g)
  <2>1. CASE t = s
    BY <1>2, <2>1
  <2>2. CASE t # s
    <3>1. SUFFICES ASSUME Wrote(save[t], g) PROVE FALSE
      OBVIOUS
    <3>2. Holds(save[t])
      BY <3>1, CallBlank
    <3>3. g \in Range(save[t].graph)
      BY <3>1 DEF VInv, CallInv, WorkInv, Wrote
    <3>4. Holds(save[s]) /\ g \in Range(save[s].graph)
      BY <1>1 DEF Holds
    <3> QED BY <1>5, <2>2, <3>2, <3>3, <3>4, OneWriter
  <2> QED BY <2>1, <2>2
<1>6. h \in Objects /\ Claims(h, c.key, object, save)
  BY <1>1, <1>2, <1>3 DEF Claims, Used, c
<1>7. ASSUME c.key \in DOMAIN View(s), c.key \notin DOMAIN table PROVE FALSE
  <2>1. c.key \in DOMAIN save[s].staged
    BY <1>7, ViewRows
  <2>2. PICK g \in Objects : <<g, c.key>> \in Range(save[s].written)
    BY <1>7, <2>1 DEF VInv, CallInv, StagedInv
  <2>3. Claims(g, c.key, object, save)
    BY <2>2 DEF Claims, Used, Marked
  <2>4. g = h
    BY <1>6, <1>7, <2>3 DEF VInv, ClaimInv
  <2>5. Wrote(save[s], g)
    <3>1. \A w \in Range(save[s].written) : Wrote(save[s], w[1])
      BY DEF VInv, CallInv, WorkInv
    <3>2. <<g, c.key>>[1] = g
      OBVIOUS
    <3> QED BY <2>2, <3>1, <3>2
  <2> QED BY <1>2, <1>3, <2>4, <2>5
<1> QED BY <1>1, <1>2, <1>3, <1>4, <1>5, <1>6, <1>7 DEF c, h

\* What a statement sets the version to is a version.
LEMMA StatementVersion ==
  ASSUME NEW c, NEW rows, c.kind \in Actions, Affects(c, rows),
         c.key \in DOMAIN rows => rows[c.key].ver \in Int /\ DOMAIN rows[c.key] = RowFields
  PROVE  Statement(c, rows)[c.key].ver \in Int
<1>1. CASE c.kind = "Create"
  <2>1. Statement(c, rows) = InsertRow(rows, c.key, c.values["val"], CHOOSE g \in c.object : TRUE)
    BY <1>1 DEF Statement
  <2>2. Statement(c, rows)[c.key].ver = 1
    BY <2>1 DEF InsertRow, WithRow, Over
  <2> QED BY <2>2
<1>2. CASE c.kind # "Create"
  <2>1. c.key \in DOMAIN rows /\ rows[c.key].ver \in Int /\ DOMAIN rows[c.key] = RowFields
    BY <1>2 DEF Affects, Matches
  <2>2. Statement(c, rows) = UpdateRow(rows, c.key, c.expected, c.values)
          \/ Statement(c, rows) = DeleteRow(rows, c.key, c.expected)
    BY <1>2 DEF Statement, Actions
  <2>3. CASE Statement(c, rows) = UpdateRow(rows, c.key, c.expected, c.values)
    BY <2>1, <2>3 DEF UpdateRow, RowFields
  <2>4. CASE Statement(c, rows) = DeleteRow(rows, c.key, c.expected)
    BY <2>1, <2>4 DEF DeleteRow, RowFields
  <2> QED BY <2>2, <2>3, <2>4
<1> QED BY <1>1, <1>2

LEMMA AppendHas ==
  ASSUME NEW q, q \in Seq(Range(q)), NEW e
  PROVE  Range(Append(q, e)) = Range(q) \cup {e}
<1> DEFINE r == Append(q, e)
           S == Range(q) \cup {e}
<1>1. q \in Seq(S) /\ e \in S
  OBVIOUS
<1>2. /\ Len(q) \in Nat /\ DOMAIN r = 1 .. Len(q) + 1 /\ DOMAIN q = 1 .. Len(q)
      /\ \A i \in 1 .. Len(q) + 1 : r[i] = IF i = Len(q) + 1 THEN e ELSE q[i]
  <2> HIDE DEF S
  <2> QED BY <1>1
<1> HIDE DEF r, S
<1>3. \A i \in DOMAIN q : i \in DOMAIN r /\ r[i] = q[i]
  BY <1>2
<1>4. Len(q) + 1 \in DOMAIN r /\ r[Len(q) + 1] = e
  BY <1>2
<1>5. \A i \in DOMAIN r : r[i] = e \/ (i \in DOMAIN q /\ r[i] = q[i])
  BY <1>2
<1> QED BY <1>3, <1>4, <1>5 DEF Range, r

\* Call a is c after it wrote row k for h, which was e before.
Writes(c, a, h, k, row, e, rows) ==
  /\ a.graph = c.graph /\ a.pc = c.pc
  /\ DOMAIN a.staged = DOMAIN c.staged \cup {k} /\ a.staged[k] = row
  /\ \A j \in DOMAIN c.staged \ {k} : a.staged[j] = c.staged[j]
  /\ a.back = c.back \cup SetBack(k, row, rows)
  /\ a.old \in Seq(Range(a.old)) /\ Range(a.old) = Range(c.old) \cup {e}
  /\ a.written \in Seq(Range(a.written)) /\ Range(a.written) = Range(c.written) \cup {<<h, k>>}

LEMMA WritesShape ==
  ASSUME NEW c, NEW h, NEW k, NEW row, NEW e, NEW rows, DOMAIN c = SaveFields,
         c.old \in Seq(Range(c.old)), c.written \in Seq(Range(c.written))
  PROVE  Writes(c, [c EXCEPT !.staged = WithRow(@, k, row), !.back = @ \cup SetBack(k, row, rows),
                             !.written = Append(@, <<h, k>>), !.old = Append(@, e)], h, k, row, e, rows)
<1> DEFINE a == [c EXCEPT !.staged = WithRow(@, k, row), !.back = @ \cup SetBack(k, row, rows),
                          !.written = Append(@, <<h, k>>), !.old = Append(@, e)]
<1>1. /\ a.graph = c.graph /\ a.pc = c.pc /\ a.staged = WithRow(c.staged, k, row)
      /\ a.back = c.back \cup SetBack(k, row, rows)
      /\ a.written = Append(c.written, <<h, k>>) /\ a.old = Append(c.old, e)
  BY DEF SaveFields
<1> HIDE DEF a
<1>2. /\ DOMAIN a.staged = DOMAIN c.staged \cup {k} /\ a.staged[k] = row
      /\ \A j \in DOMAIN c.staged \ {k} : a.staged[j] = c.staged[j]
  <2> DEFINE st == c.staged
  <2> HIDE DEF st
  <2>1. /\ DOMAIN WithRow(st, k, row) = DOMAIN st \cup {k}
        /\ WithRow(st, k, row)[k] = row
        /\ \A j \in DOMAIN st \ {k} : WithRow(st, k, row)[j] = st[j]
    BY DEF WithRow, Over
  <2>2. a.staged = WithRow(st, k, row)
    BY <1>1 DEF st
  <2> QED BY <2>1, <2>2 DEF st
<1>3. a.old \in Seq(Range(a.old)) /\ Range(a.old) = Range(c.old) \cup {e}
  BY <1>1, AppendRange, AppendHas
<1>4. a.written \in Seq(Range(a.written)) /\ Range(a.written) = Range(c.written) \cup {<<h, k>>}
  <2> DEFINE w == <<h, k>>
  <2>1. a.written = Append(c.written, w)
    BY <1>1
  <2> HIDE DEF w
  <2>2. a.written \in Seq(Range(a.written)) /\ Range(a.written) = Range(c.written) \cup {w}
    BY <2>1, AppendRange, AppendHas
  <2> QED BY <2>2 DEF w
<1> QED BY <1>1, <1>2, <1>3, <1>4 DEF Writes, a

\* A row that is not set back is written with a higher version.
LEMMA RowAdvances ==
  ASSUME VInv, NEW s \in Savers, NEW k, NEW row, NEW a, row.ver \in Int,
         a.back = save[s].back \cup SetBack(k, row, View(s))
  PROVE  /\ k \in DOMAIN View(s) \ a.back => Size(View(s)[k].ver) < Size(row.ver)
         /\ k \in DOMAIN table \ a.back => Size(table[k].ver) < Size(row.ver)
<1>1. /\ DOMAIN View(s) = DOMAIN save[s].staged \cup DOMAIN table
      /\ k \in DOMAIN save[s].staged => View(s)[k] = save[s].staged[k]
      /\ k \in DOMAIN table \ DOMAIN save[s].staged => View(s)[k] = table[k]
      /\ k \in DOMAIN View(s) => View(s)[k].ver \in Int
  BY ViewRows
<1>2. k \in DOMAIN table => table[k].ver \in Int
  BY DEF VInv, TableInv
<1>3. k \in DOMAIN View(s) \ a.back => Size(View(s)[k].ver) < Size(row.ver)
  <2>1. SUFFICES ASSUME k \in DOMAIN View(s) \ a.back
                 PROVE  Size(View(s)[k].ver) < Size(row.ver)
    OBVIOUS
  <2>2. ~(Size(row.ver) <= Size(View(s)[k].ver))
    BY <2>1 DEF SetBack
  <2>3. Size(row.ver) \in Nat /\ Size(View(s)[k].ver) \in Nat
    BY <1>1, <2>1, SizeOrder
  <2> QED BY <2>2, <2>3
<1>4. k \in DOMAIN table \ a.back => Size(table[k].ver) < Size(row.ver)
  <2>1. SUFFICES ASSUME k \in DOMAIN table \ a.back
                 PROVE  Size(table[k].ver) < Size(row.ver)
    OBVIOUS
  <2>2. Size(View(s)[k].ver) < Size(row.ver)
    BY <1>1, <1>3, <2>1
  <2>3. CASE k \in DOMAIN save[s].staged
    <3>1. Size(table[k].ver) < Size(View(s)[k].ver)
      BY <1>1, <2>1, <2>3 DEF VInv, CallInv, StagedInv
    <3>2. Size(table[k].ver) \in Nat /\ Size(View(s)[k].ver) \in Nat /\ Size(row.ver) \in Nat
      BY <1>1, <1>2, <2>1, SizeOrder
    <3> QED BY <2>2, <3>1, <3>2
  <2>4. CASE k \notin DOMAIN save[s].staged
    BY <1>1, <2>1, <2>2, <2>4
  <2> QED BY <2>3, <2>4
<1> QED BY <1>3, <1>4

\* Objects p are objects o, but h shows row k.
Shows(o, p, h, k, row) ==
  /\ p[h].key = k /\ p[h].ver = {row.ver} /\ p[h].val = row.val
  /\ \A g \in Objects \ {h} : Same(o[g], p[g])

\* What a call is after a statement, before it proceeds.
LEMMA WriteInv ==
  ASSUME IInv, VInv, NEW s \in Savers, save[s].pc = "write",
         NEW h, h = Head(save[s].todo), NEW k, k = save[s].command.key,
         NEW row, row.ver \in Int, Affects(save[s].command, View(s)),
         NEW e, e = <<h, object[h], snapshot[h]>>, NEW a, Writes(save[s], a, h, k, row, e, View(s)),
         NEW p, Shows(object, p, h, k, row)
  PROVE  /\ WorkInv(a, nextId) /\ StagedInv(a, table) /\ EntryInv(a, table, backed, contested)
         /\ InsertInv(a, table, contested) /\ ShownInv(a, p, table, backed, contested)
         /\ \A g : Wrote(a, g) <=> Wrote(save[s], g) \/ g = h
<1> DEFINE c == save[s]
<1>1. /\ BlankInv(c) /\ WorkInv(c, nextId) /\ TodoInv(c) /\ StagedInv(c, table)
      /\ EntryInv(c, table, backed, contested) /\ InsertInv(c, table, contested)
      /\ ShownInv(c, object, table, backed, contested)
      /\ HeadInv(c, object, snapshot, table, backed, contested)
  BY DEF VInv, CallInv
<1>2. /\ h \in Range(c.todo) /\ c.command.object = {h} /\ h \in Objects /\ h \in Range(c.graph)
      /\ ~Wrote(c, h) /\ (Solo(h, contested) => \A t \in Savers : ~Wrote(save[t], h))
      /\ Claims(h, k, object, save) /\ (k \in DOMAIN View(s) => k \in DOMAIN table)
  BY NextObject
<1>3. /\ a.graph = c.graph /\ a.pc = "write"
      /\ DOMAIN a.staged = DOMAIN c.staged \cup {k} /\ a.staged[k] = row
      /\ \A j \in DOMAIN c.staged \ {k} : a.staged[j] = c.staged[j]
      /\ a.back = c.back \cup SetBack(k, row, View(s))
      /\ a.old \in Seq(Range(a.old)) /\ Range(a.old) = Range(c.old) \cup {e}
      /\ a.written \in Seq(Range(a.written)) /\ Range(a.written) = Range(c.written) \cup {<<h, k>>}
  BY DEF Writes
<1>4. e[1] = h /\ e[2] = object[h] /\ e[3] = snapshot[h]
  OBVIOUS
<1>5. ObjectInv(h, object, snapshot, table, backed, save, contested)
  BY <1>2 DEF VInv
<1>6. \A w \in Range(c.written) : w[1] # h
  BY <1>1, <1>2 DEF WorkInv
<1>7. /\ k \in DOMAIN View(s) \ a.back => Size(View(s)[k].ver) < Size(row.ver)
      /\ k \in DOMAIN table \ a.back => Size(table[k].ver) < Size(row.ver)
  BY <1>3, RowAdvances
<1>8. Known(k, nextId)
  BY <1>2 DEF VInv, ClaimInv
<1> HIDE DEF c
<1>9. \A g : Wrote(a, g) <=> Wrote(c, g) \/ g = h
  BY <1>3, <1>4 DEF Wrote
<1>10. WorkInv(a, nextId)
  <2>1. IsInjective(a.graph)
    BY <1>1, <1>3 DEF WorkInv
  <2>2. \A w \in Range(a.written) : Wrote(a, w[1])
    <3>1. <<h, k>>[1] = h
      OBVIOUS
    <3>2. \A w \in Range(c.written) : Wrote(c, w[1])
      BY <1>1 DEF WorkInv
    <3> QED BY <1>3, <1>9, <3>1, <3>2
  <2>3. ASSUME NEW x \in Range(a.old)
        PROVE  /\ x[1] \in Range(a.graph) /\ x[2].ver \subseteq Int
               /\ \E w \in Range(a.written) : w[1] = x[1]
    <3>1. CASE x = e
      <4>1. <<h, k>>[1] = h /\ <<h, k>> \in Range(a.written)
        BY <1>3
      <4>2. object[h].ver \subseteq Int
        BY <1>5 DEF ObjectInv
      <4> QED BY <1>2, <1>3, <1>4, <3>1, <4>1, <4>2
    <3>2. CASE x \in Range(c.old)
      BY <1>1, <1>3, <3>2 DEF WorkInv
    <3> QED BY <1>3, <3>1, <3>2
  <2>4. \A j \in DOMAIN a.staged : Known(j, nextId) /\ a.staged[j].ver \in Int
    BY <1>1, <1>3, <1>8 DEF WorkInv
  <2> QED BY <1>3, <2>1, <2>2, <2>3, <2>4 DEF WorkInv
<1>11. StagedInv(a, table)
  <2>1. ASSUME NEW j \in DOMAIN a.staged
        PROVE  /\ j \notin DOMAIN table => \E g \in Objects : <<g, j>> \in Range(a.written)
               /\ j \in DOMAIN table \ a.back => Size(table[j].ver) < Size(a.staged[j].ver)
    <3>1. CASE j = k
      BY <1>2, <1>3, <1>7, <3>1
    <3>2. CASE j # k
      <4>1. /\ j \notin DOMAIN table => \E g \in Objects : <<g, j>> \in Range(c.written)
            /\ j \in DOMAIN table \ c.back => Size(table[j].ver) < Size(c.staged[j].ver)
        BY <1>1, <1>3, <2>1, <3>2 DEF StagedInv
      <4> QED BY <1>3, <2>1, <3>2, <4>1
    <3> QED BY <3>1, <3>2
  <2> QED BY <2>1 DEF StagedInv
<1>12. EntryInv(a, table, backed, contested)
  <2>1. ASSUME NEW x \in Range(a.old)
        PROVE  /\ Solo(x[1], contested) /\ x[2].action = "Create" => x[2].ver = {}
               /\ Clean(x[1], contested) => Fits(x[2].key, x[2].ver, x[3], table, backed)
    <3>1. CASE x = e
      BY <1>2, <1>4, <1>5, <3>1, CleanSolo DEF ObjectInv
    <3>2. CASE x \in Range(c.old)
      BY <1>1, <3>2 DEF EntryInv
    <3> QED BY <1>3, <3>1, <3>2
  <2> QED BY <2>1 DEF EntryInv
<1>13. InsertInv(a, table, contested)
  <2>1. SUFFICES ASSUME NEW x \in Range(a.old), NEW j, Solo(x[1], contested),
                        <<x[1], j>> \in Range(a.written), j \notin DOMAIN table
                 PROVE  x[2].ver = {}
    BY DEF InsertInv
  <2>2. CASE x = e
    <3>1. <<x[1], j>> \notin Range(c.written)
      <4>1. <<x[1], j>>[1] = h
        BY <1>4, <2>2
      <4> QED BY <1>6, <4>1
    <3>2. j = k
      BY <1>3, <2>1, <3>1
    <3>3. c.command.kind = "Create"
      BY <1>2, <2>1, <3>2 DEF Affects, Matches, c
    <3>4. object[h].ver = {}
      BY <1>1, <1>4, <2>1, <2>2, <3>3 DEF HeadInv, c
    <3> QED BY <1>4, <2>2, <3>4
  <2>3. CASE x \in Range(c.old)
    <3>1. x[1] # h
      BY <1>2, <2>3 DEF Wrote, c
    <3>2. <<x[1], j>> \in Range(c.written)
      BY <1>3, <2>1, <3>1
    <3>3. c.pc \notin {"settle", "undo"}
      BY DEF c
    <3> QED BY <1>1, <2>1, <2>3, <3>2, <3>3 DEF InsertInv
  <2> QED BY <1>3, <2>1, <2>2, <2>3
<1>14. ShownInv(a, p, table, backed, contested)
  <2> DEFINE rows == View(s)
             rows2 == Over(a.staged, table)
             out2 == backed \cup a.back
  <2>1. /\ DOMAIN rows2 = DOMAIN rows \cup {k} /\ rows2[k] = row
        /\ \A j \in DOMAIN rows \ {k} : rows2[j] = rows[j]
    <3>1. /\ DOMAIN rows = DOMAIN c.staged \cup DOMAIN table
          /\ \A j \in DOMAIN c.staged : rows[j] = c.staged[j]
          /\ \A j \in DOMAIN table \ DOMAIN c.staged : rows[j] = table[j]
      BY ViewRows DEF c
    <3>2. /\ DOMAIN rows2 = DOMAIN a.staged \cup DOMAIN table
          /\ \A j \in DOMAIN a.staged : rows2[j] = a.staged[j]
          /\ \A j \in DOMAIN table \ DOMAIN a.staged : rows2[j] = table[j]
      BY OverDomain
    <3> HIDE DEF rows, rows2
    <3> QED BY <1>3, <3>1, <3>2
  <2>2. \A j \in DOMAIN rows : rows[j].ver \in Int
    BY ViewRows
  <2>3. SUFFICES ASSUME NEW g \in Objects, Wrote(a, g), Clean(g, contested)
                 PROVE  Fits(p[g].key, p[g].ver, {p[g].val}, rows2, out2)
    BY DEF ShownInv
  <2>4. CASE g = h
    <3>1. Size(row.ver) \in Nat
      BY SizeOrder
    <3> HIDE DEF rows2
    <3>2. Fits(k, {row.ver}, {row.val}, rows2, out2)
      BY <2>1, <3>1 DEF Fits
    <3> QED BY <2>4, <3>2 DEF Shows
  <2>5. CASE g # h
    <3>1. Fits(object[g].key, object[g].ver, {object[g].val}, rows, backed \cup c.back)
      BY <1>1, <1>9, <2>3, <2>5 DEF ShownInv, View, c
    <3>2. object[g].ver \subseteq Int /\ Same(object[g], p[g])
      BY <2>5 DEF VInv, ObjectInv, Shows
    <3>3. object[g].key = k => k \in DOMAIN rows \/ k \in DOMAIN table
      <4>1. SUFFICES ASSUME object[g].key = k PROVE k \in DOMAIN table
        OBVIOUS
      <4>2. Claims(g, k, object, save)
        BY <4>1 DEF Claims
      <4> QED BY <1>2, <2>5, <4>2 DEF VInv, ClaimInv
    <3>4. DOMAIN table \subseteq DOMAIN rows
      BY ViewRows
    <3> DEFINE j == object[g].key
    <3> HIDE DEF j, rows2
    <3>5. j \in DOMAIN rows2 \ out2 =>
            /\ j \in DOMAIN rows \ (backed \cup c.back)
            /\ rows[j].ver \in Int /\ rows2[j].ver \in Int
            /\ rows2[j] = rows[j] \/ Size(rows[j].ver) < Size(rows2[j].ver)
      <4>1. CASE j = k
        <5> HIDE DEF rows
        <5>1. k \in DOMAIN rows
          BY <3>3, <3>4, <4>1 DEF j
        <5>2. k \notin a.back => Size(rows[k].ver) < Size(row.ver)
          BY <1>7, <5>1 DEF rows
        <5> QED BY <1>3, <2>1, <2>2, <4>1, <5>1, <5>2
      <4>2. CASE j # k
        <5> HIDE DEF rows
        <5> QED BY <1>3, <2>1, <2>2, <4>2
      <4> QED BY <4>1, <4>2
    <3> HIDE DEF out2, rows
    <3>6. Fits(j, object[g].ver, {object[g].val}, rows, backed \cup c.back)
      BY <3>1 DEF j
    <3>7. Fits(j, object[g].ver, {object[g].val}, rows2, out2)
      BY <3>2, <3>5, <3>6, FitsAdvance
    <3> QED BY <3>2, <3>7 DEF Same, j
  <2> QED BY <2>4, <2>5
<1> QED BY <1>9, <1>10, <1>11, <1>12, <1>13, <1>14 DEF c

\* Call s has executed its command for h: a is the call and p the objects then.
Executed(s, h, k, row, e, a, p) ==
  /\ save[s].pc = "write" /\ h = Head(save[s].todo) /\ k = save[s].command.key
  /\ row.ver \in Int /\ Affects(save[s].command, View(s))
  /\ e = <<h, object[h], snapshot[h]>> /\ Writes(save[s], a, h, k, row, e, View(s))
  /\ Shows(object, p, h, k, row)

LEMMA ExecutedInv ==
  ASSUME IInv, VInv, NEW s \in Savers, NEW h, NEW k, NEW row, NEW e, NEW a, NEW p,
         Executed(s, h, k, row, e, a, p)
  PROVE  /\ WorkInv(a, nextId) /\ StagedInv(a, table) /\ EntryInv(a, table, backed, contested)
         /\ InsertInv(a, table, contested) /\ ShownInv(a, p, table, backed, contested)
         /\ \A g : Wrote(a, g) <=> Wrote(save[s], g) \/ g = h
<1>1. /\ save[s].pc = "write" /\ h = Head(save[s].todo) /\ k = save[s].command.key
      /\ row.ver \in Int /\ Affects(save[s].command, View(s))
      /\ e = <<h, object[h], snapshot[h]>> /\ Writes(save[s], a, h, k, row, e, View(s))
      /\ Shows(object, p, h, k, row)
  BY DEF Executed
<1> QED BY <1>1, WriteInv

LEMMA WriteVersions ==
  ASSUME IInv, VInv, NEW s \in Savers, Write(s)
  PROVE  VInv'
<1> DEFINE c == save[s].command
           h == Head(save[s].todo)
           row == Statement(c, View(s))[c.key]
           shown == [object[h] EXCEPT !.key = c.key, !.ver = {row.ver}, !.val = row.val,
                                      !.action = IF c.kind = "Delete" THEN @ ELSE "Update"]
           m == [object |-> [object EXCEPT ![h] = shown],
                 ledger |-> [ledger EXCEPT ![Root(h)] = Rekey(@, Key(h), c.key)]]
           rest == IF c.kind = "Delete" /\ h = Head(save[s].graph) THEN <<>> ELSE Tail(save[s].todo)
           after == [save[s] EXCEPT !.staged = WithRow(@, c.key, row),
                                    !.back = @ \cup SetBack(c.key, row, View(s)),
                                    !.written = Append(@, <<h, c.key>>),
                                    !.old = Append(@, <<h, object[h], snapshot[h]>>)]
           next == Proceed(after, m, rest)
<1>1. /\ save[s].pc = "write" /\ items' = items /\ context' = context /\ table' = table
      /\ backed' = backed /\ nextId' = nextId /\ contested' = contested /\ snapshot' = snapshot
      /\ Free(s, c.key) /\ Affects(c, View(s))
      /\ object' = next.memory.object /\ save' = [save EXCEPT ![s] = next.save]
  BY DEF Write, Remember, graph
<1>2. /\ save[s].todo \in Seq(Objects) /\ save[s].todo # <<>> /\ IsInjective(save[s].todo)
      /\ h \in Range(save[s].todo) /\ h \in Objects /\ h \in Range(save[s].graph)
      /\ c.object = {h} /\ c.kind \in Actions /\ Claims(h, c.key, object, save)
      /\ \A g \in Range(save[s].todo) :
           /\ g \in Objects /\ ~Wrote(save[s], g)
           /\ Solo(g, contested) => \A t \in Savers : ~Wrote(save[t], g)
  BY <1>1, NextObject
<1>3. row.ver \in Int
  <2>1. RowsOK(View(s), object, contested)
    <3>1. CallOK(save[s], object, contested) /\ RowsOK(table, object, contested)
      BY DEF IInv
    <3> QED BY <3>1, OverRows DEF View, CallOK
  <2>2. c.key \in DOMAIN View(s) => View(s)[c.key].ver \in Int /\ DOMAIN View(s)[c.key] = RowFields
    BY <2>1, ViewRows DEF RowsOK, RowOK
  <2> HIDE DEF c
  <2> QED BY <1>1, <1>2, <2>2, StatementVersion
<1>4. Writes(save[s], after, h, c.key, row, <<h, object[h], snapshot[h]>>, View(s)) /\ DOMAIN after = SaveFields
  <2>1. DOMAIN save[s] = SaveFields
    BY CallGraph
  <2>2. save[s].old \in Seq(Range(save[s].old)) /\ save[s].written \in Seq(Range(save[s].written))
    BY DEF VInv, CallInv, WorkInv
  <2>3. DOMAIN after = SaveFields
    BY <2>1
  <2> HIDE DEF h, c, row
  <2> QED BY <2>1, <2>2, <2>3, WritesShape
<1>5. /\ rest \in Seq(Objects) /\ IsInjective(rest)
      /\ \A g \in Range(rest) : g \in Range(save[s].todo) /\ g # h
  <2>1. /\ Tail(save[s].todo) \in Seq(Objects)
        /\ Range(save[s].todo) = {h} \cup Range(Tail(save[s].todo))
    BY <1>2, HeadAndTail
  <2>2. IsInjective(Tail(save[s].todo)) /\ h \notin Range(Tail(save[s].todo))
    BY <1>2, TailInjective
  <2>3. <<>> \in Seq(Objects) /\ Range(<<>>) = {} /\ IsInjective(<<>>)
    BY DEF Range, IsInjective
  <2> HIDE DEF h, c
  <2> QED BY <2>1, <2>2, <2>3
<1> HIDE DEF h, c, row, after, rest
<1>6. IsObject(object[h]) /\ DOMAIN object = Objects /\ \A g \in Objects : IsObject(object[g])
  BY <1>2 DEF IInv, ObjectsOK
<1>7. /\ IsObject(shown) /\ shown.key = c.key /\ shown.ver = {row.ver} /\ shown.val = row.val
      /\ shown.action = IF c.kind = "Delete" THEN object[h].action ELSE "Update"
  BY <1>6 DEF IsObject, ObjectFields, Actions
<1> HIDE DEF shown
<1>8. /\ DOMAIN m.object = Objects /\ m.object[h] = shown
      /\ \A g \in Objects \ {h} : m.object[g] = object[g]
  BY <1>2, <1>6
<1> HIDE DEF m
<1>9. ObjectsOK(m.object)
  BY <1>6, <1>7, <1>8 DEF ObjectsOK
<1>10. /\ \A g \in Objects : Same(m.object[g], object'[g])
       /\ History(after, next.save)
       /\ Fails(next.save) \/ Ends(after, next.save) \/ GoesOn(after, next.save, object', rest)
  BY <1>1, <1>4, <1>5, <1>9, ProceedShape
<1> DEFINE d == next.save
<1>11. save' = [save EXCEPT ![s] = d]
  BY <1>1
<1> HIDE DEF next, d
<1>12. /\ \A g \in Objects \ {h} : Same(object[g], object'[g])
       /\ object'[h].key = c.key /\ object'[h].ver = {row.ver} /\ object'[h].val = row.val
       /\ object'[h].action = IF c.kind = "Delete" THEN object[h].action ELSE "Update"
  BY <1>2, <1>7, <1>8, <1>10 DEF Same
<1>13. /\ WorkInv(after, nextId) /\ StagedInv(after, table) /\ EntryInv(after, table, backed, contested)
       /\ InsertInv(after, table, contested) /\ ShownInv(after, object', table, backed, contested)
       /\ \A g : Wrote(after, g) <=> Wrote(save[s], g) \/ g = h
  <2> DEFINE k == c.key
             e == <<h, object[h], snapshot[h]>>
  <2>1. Shows(object, object', h, k, row)
    BY <1>12 DEF Shows
  <2>2. Writes(save[s], after, h, k, row, e, View(s))
    BY <1>4
  <2>3. /\ save[s].pc = "write" /\ h = Head(save[s].todo) /\ k = save[s].command.key
        /\ Affects(save[s].command, View(s))
    BY <1>1 DEF h, c
  <2>4. e = <<h, object[h], snapshot[h]>>
    OBVIOUS
  <2> HIDE DEF k, e
  <2>5. Executed(s, h, k, row, e, after, object')
    BY <1>3, <2>1, <2>2, <2>3, <2>4 DEF Executed
  <2> QED BY <2>5, ExecutedInv
<1>14. ASSUME NEW g \in Range(rest)
       PROVE  ~Wrote(after, g) /\ Source(g, object', snapshot, table, backed, contested)
  <2>1. /\ g \in Objects \ {h} /\ ~Wrote(save[s], g)
        /\ Clean(g, contested) => \A t \in Savers : ~Wrote(save[t], g)
    BY <1>2, <1>5, CleanSolo
  <2>2. ObjectInv(g, object, snapshot, table, backed, save, contested) /\ Same(object[g], object'[g])
    BY <1>12, <2>1 DEF VInv
  <2> QED BY <1>13, <2>1, <2>2 DEF ObjectInv, Source, Same
<1>15. Outcome(after, d, object', snapshot, table, backed, nextId, contested, rest)
  <2>1. after.pc = "write"
    BY <1>1, <1>4 DEF Writes
  <2>2. History(after, d) /\ (Fails(d) \/ Ends(after, d) \/ GoesOn(after, d, object', rest))
    BY <1>10 DEF d
  <2> QED BY <1>5, <1>13, <1>14, <2>1, <2>2 DEF Outcome
<1>16. /\ CallInv(d, object', snapshot, table, backed, nextId, contested)
       /\ Holds(d) /\ DOMAIN d.staged \subseteq DOMAIN after.staged
       /\ \A g : Wrote(d, g) <=> Wrote(after, g)
       /\ \A g, k : Used(d, g, k) => Marked(after, g, k) \/ (g \in Range(rest) /\ k = object'[g].key)
  BY <1>15, OutcomeInv
<1>17. \A g \in Objects : Claims(g, object'[g].key, object, save)
  BY <1>2, <1>12 DEF Claims, Same
<1>18. ASSUME NEW g \in Objects, NEW k, Used(d, g, k) PROVE Claims(g, k, object, save)
  <2>1. CASE g \in Range(rest) /\ k = object'[g].key
    BY <1>17, <2>1
  <2>2. CASE Marked(after, g, k)
    <3>1. CASE \E e \in Range(after.old) : e[1] = g /\ e[2].key = k
      <4>1. PICK e \in Range(after.old) : e[1] = g /\ e[2].key = k
        BY <3>1
      <4>2. CASE e \in Range(save[s].old)
        BY <4>1, <4>2 DEF Claims, Used, Marked
      <4>3. CASE e = <<h, object[h], snapshot[h]>>
        BY <4>1, <4>3 DEF Claims
      <4> QED BY <1>4, <4>1, <4>2, <4>3 DEF Writes
    <3>2. CASE <<g, k>> \in Range(after.written)
      <4>1. CASE <<g, k>> \in Range(save[s].written)
        BY <4>1 DEF Claims, Used, Marked
      <4>2. CASE <<g, k>> = <<h, c.key>>
        BY <1>2, <4>2
      <4> QED BY <1>4, <3>2, <4>1, <4>2 DEF Writes
    <3> QED BY <2>2, <3>1, <3>2 DEF Marked
  <2> QED BY <1>16, <1>18, <2>1, <2>2
<1>19. \A t \in Savers : save'[t] = IF t = s THEN d ELSE save[t]
  BY <1>11 DEF IInv
<1>20. \A g \in Objects : ObjectInv(g, object', snapshot', table, backed, save', contested)
  <2>1. ASSUME NEW g \in Objects PROVE ObjectInv(g, object', snapshot', table, backed, save', contested)
    <3>1. ObjectInv(g, object, snapshot, table, backed, save, contested)
      BY DEF VInv
    <3>2. CASE g = h
      <4>1. Wrote(save'[s], h)
        BY <1>13, <1>16, <1>19
      <4>2. Solo(h, contested) => object'[h].action # "Create"
        <5>1. Solo(h, contested) => object[h].action \in {c.kind, "Delete"}
          BY <1>1 DEF VInv, CallInv, HeadInv, h, c
        <5> QED BY <1>12, <5>1
      <4>3. object'[h].ver \subseteq Int
        BY <1>3, <1>12
      <4> QED BY <3>2, <4>1, <4>2, <4>3 DEF ObjectInv
    <3>3. CASE g # h
      <4>1. (\A t \in Savers : ~Wrote(save'[t], g)) => \A t \in Savers : ~Wrote(save[t], g)
        BY <1>13, <1>16, <1>19
      <4>2. Same(object[g], object'[g])
        BY <1>12, <3>3
      <4> QED BY <1>1, <3>1, <4>1, <4>2 DEF ObjectInv, Same
    <3> QED BY <3>2, <3>3
  <2> QED BY <2>1
<1>21. \A g \in Objects : Standing(g, object, object', snapshot, snapshot') \/ g \in Range(save[s].graph)
  BY <1>1, <1>2, <1>12 DEF Standing
<1>22. \A t \in Savers \ {s} : DOMAIN d.staged \cap DOMAIN save[t].staged = {}
  <2>1. \A t \in Savers \ {s} : DOMAIN save[s].staged \cap DOMAIN save[t].staged = {}
    BY DEF VInv, RowLockInv
  <2>2. DOMAIN d.staged \subseteq DOMAIN save[s].staged \cup {c.key}
    BY <1>4, <1>16 DEF Writes
  <2> QED BY <1>1, <2>1, <2>2 DEF Free
<1>23. d.graph = save[s].graph /\ Holds(save[s])
  BY <1>1, <1>4, <1>10 DEF History, Writes, Holds, d
<1> QED BY <1>1, <1>11, <1>16, <1>17, <1>18, <1>20, <1>21, <1>22, <1>23, MemoryStep

\* A commit keeps it, whether or not it takes effect and whether or not it raises.
LEMMA CommitVersions ==
  ASSUME IInv, VInv, NEW s \in Savers, Commit(s) \/ CommitRaises(s)
  PROVE  VInv'
<1>1. DOMAIN save[s] = SaveFields /\ Range(save[s].graph) \subseteq Objects
  BY CallGraph
<1>2. PICK d :
        /\ save' = [save EXCEPT ![s] = d] /\ History(save[s], d) /\ d.pc \in {"settle", "undo"}
        /\ DOMAIN d.staged = {} /\ d.back = {} /\ d.command = save[s].command
        /\ \/ table' = View(s) /\ backed' = backed \cup save[s].back
           \/ table' = table /\ backed' = backed /\ d.pc = "undo" /\ d.staged = <<>>
  <2> DEFINE done(pc) == [save[s] EXCEPT !.pc = pc, !.staged = <<>>, !.back = {}]
  <2>1. DOMAIN <<>> = {}
    OBVIOUS
  <2>2. ASSUME NEW pc
        PROVE  /\ History(save[s], done(pc)) /\ done(pc).pc = pc /\ done(pc).staged = <<>>
               /\ done(pc).back = {} /\ done(pc).command = save[s].command
    BY <1>1 DEF History, SaveFields
  <2>3. CASE Commit(s)
    <3>1. /\ save' = [save EXCEPT ![s] = done("settle")]
          /\ table' = View(s) /\ backed' = backed \cup save[s].back
      BY <1>1, <2>3 DEF Commit, Apply, SaveFields, IInv
    <3> HIDE DEF done
    <3> QED BY <2>1, <2>2, <3>1
  <2>4. CASE CommitRaises(s)
    <3>1. /\ save' = [save EXCEPT ![s] = done("undo")]
          /\ \/ table' = View(s) /\ backed' = backed \cup save[s].back
             \/ table' = table /\ backed' = backed
      BY <1>1, <2>4 DEF CommitRaises, Apply, SaveFields, IInv
    <3> DEFINE c == done("undo")
    <3>2. /\ History(save[s], c) /\ c.pc = "undo" /\ c.staged = <<>> /\ DOMAIN c.staged = {}
          /\ c.back = {} /\ c.command = save[s].command
      <4> HIDE DEF done
      <4> QED BY <2>1, <2>2
    <3>3. save' = [save EXCEPT ![s] = c]
      BY <3>1
    <3> HIDE DEF c
    <3> QED BY <3>1, <3>2, <3>3
  <2> QED BY <2>3, <2>4
<1>3. /\ save[s].pc = "commit" /\ items' = items /\ context' = context /\ object' = object
      /\ snapshot' = snapshot /\ nextId' = nextId /\ contested' = contested
  BY DEF Commit, CommitRaises, graph, memory
<1>4. /\ BlankInv(save[s]) /\ WorkInv(save[s], nextId) /\ StagedInv(save[s], table)
      /\ EntryInv(save[s], table, backed, contested) /\ InsertInv(save[s], table, contested)
      /\ ShownInv(save[s], object, table, backed, contested)
      /\ \A h \in Objects : ObjectInv(h, object, snapshot, table, backed, save, contested)
      /\ TableInv(table, nextId) /\ ClaimInv(object, save, table, nextId)
  BY DEF VInv, CallInv
<1>5. Holds(save[s]) /\ Holds(d) /\ d.command = NoCommand /\ d.graph = save[s].graph
  BY <1>2, <1>3, <1>4 DEF Holds, BlankInv, History
<1>6. /\ \A h : Wrote(d, h) <=> Wrote(save[s], h)
      /\ \A h, k : Used(d, h, k) => Used(save[s], h, k)
  BY <1>2 DEF History, Wrote, Used, Marked
<1>7. \A t \in Savers : save'[t] = IF t = s THEN d ELSE save[t]
  BY <1>2 DEF IInv
<1>8. CASE table' = table /\ backed' = backed /\ d.pc = "undo" /\ d.staged = <<>>
  <2>1. Fails(d)
    BY <1>2, <1>5, <1>8 DEF Fails
  <2>2. CallInv(d, object', snapshot', table, backed, nextId, contested)
    BY <1>2, <1>4, <2>1, FailedInv
  <2>3. \A h \in Objects : ObjectInv(h, object', snapshot', table, backed, save', contested)
    BY <1>3, <1>4, <1>6, <1>7 DEF ObjectInv
  <2>4. /\ \A h \in Objects : Standing(h, object, object', snapshot, snapshot')
        /\ \A h \in Objects : Claims(h, object'[h].key, object, save)
        /\ \A h \in Objects : \A k : Used(d, h, k) => Claims(h, k, object, save)
    BY <1>3, <1>6 DEF Standing, Same, Claims
  <2> QED BY <1>2, <1>3, <1>5, <1>8, <2>2, <2>3, <2>4, MemoryStep
<1>9. CASE table' = View(s) /\ backed' = backed \cup save[s].back
  <2>1. /\ DOMAIN table' = DOMAIN save[s].staged \cup DOMAIN table
        /\ \A k \in DOMAIN save[s].staged : table'[k] = save[s].staged[k]
        /\ \A k \in DOMAIN table \ DOMAIN save[s].staged : table'[k] = table[k]
        /\ TableInv(table', nextId)
    BY <1>9, ViewRows DEF TableInv
  <2>2. Moves(table, backed, table', backed')
    BY <1>4, <1>9, <2>1 DEF Moves, StagedInv
  \* A new row was inserted for one object, which claims its ID.
  <2>3. ASSUME NEW h \in Objects, NEW k \in DOMAIN table' \ DOMAIN table, Claims(h, k, object, save)
        PROVE  <<h, k>> \in Range(save[s].written) /\ Wrote(save[s], h) /\ h \in Range(save[s].graph)
    <3>1. PICK g \in Objects : <<g, k>> \in Range(save[s].written)
      BY <1>4, <2>1, <2>3 DEF StagedInv
    <3>2. Claims(g, k, object, save)
      BY <3>1 DEF Claims, Used, Marked
    <3>3. g = h
      BY <1>4, <2>3, <3>2 DEF ClaimInv
    <3>4. Wrote(save[s], h)
      <4>1. <<h, k>>[1] = h
        OBVIOUS
      <4> QED BY <1>4, <3>1, <3>3, <4>1 DEF WorkInv
    <3>5. h \in Range(save[s].graph)
      BY <1>4, <3>4 DEF WorkInv, Wrote
    <3> QED BY <3>1, <3>3, <3>4, <3>5
  <2>4. ASSUME NEW t \in Savers \ {s}
        PROVE  CallInv(save[t], object, snapshot, table', backed', nextId, contested)
    <3>1. CallInv(save[t], object, snapshot, table, backed, nextId, contested) /\ CallType(save[t])
      BY CallGraph DEF VInv
    <3>2. \A h \in Objects : object[h].ver \subseteq Int
      BY <1>4 DEF ObjectInv
    <3>3. \A k \in DOMAIN save[t].staged : k \in DOMAIN table' => k \in DOMAIN table /\ table'[k] = table[k]
      <4>1. DOMAIN save[s].staged \cap DOMAIN save[t].staged = {}
        BY DEF VInv, RowLockInv
      <4> QED BY <2>1, <4>1
    <3>4. ASSUME Holds(save[t]), NEW h \in Range(save[t].graph), NEW k \in DOMAIN table' \ DOMAIN table,
                 Solo(h, contested)
          PROVE  object[h].key # k /\ ~Used(save[t], h, k)
      <4>1. SUFFICES ASSUME object[h].key = k \/ Used(save[t], h, k) PROVE FALSE
        OBVIOUS
      <4>2. h \in Objects /\ Claims(h, k, object, save)
        BY <4>1, CallGraph DEF Claims
      <4>3. h \in Range(save[s].graph)
        BY <2>3, <4>2
      <4> QED BY <1>5, <3>4, <4>3, OneWriter
    <3> QED BY <1>4, <2>1, <2>2, <3>1, <3>2, <3>3, <3>4, CallAdvance
  <2>5. ASSUME NEW h \in Objects
        PROVE  ObjectInv(h, object, snapshot, table', backed', save', contested)
    <3>1. \A t \in Savers : Wrote(save'[t], h) <=> Wrote(save[t], h)
      BY <1>6, <1>7
    <3>2. (\A t \in Savers : ~Wrote(save[t], h)) /\ object[h].key \in DOMAIN table' => object[h].key \in DOMAIN table
      BY <2>3 DEF Claims
    <3>3. ObjectInv(h, object, snapshot, table, backed, save, contested)
      BY <1>4
    <3> QED BY <1>4, <2>1, <2>2, <3>1, <3>2, <3>3, ObjectAdvance
  <2>6. EntryInv(d, table', backed', contested)
    <3>1. SUFFICES ASSUME NEW e \in Range(save[s].old), Clean(e[1], contested)
                   PROVE  Fits(e[2].key, e[2].ver, e[3], table', backed')
      BY <1>2, <1>4 DEF EntryInv, History
    <3>2. Fits(e[2].key, e[2].ver, e[3], table, backed) /\ e[2].ver \subseteq Int /\ e[1] \in Objects
      BY <1>1, <1>4, <3>1 DEF EntryInv, WorkInv
    <3>3. CASE e[2].key \in DOMAIN table' \ DOMAIN table
      <4>1. Claims(e[1], e[2].key, object, save)
        BY DEF Claims, Used, Marked
      <4>2. <<e[1], e[2].key>> \in Range(save[s].written)
        BY <2>3, <3>2, <3>3, <4>1
      <4>3. e[2].ver = {}
        BY <1>3, <1>4, <3>1, <3>3, <4>2, CleanSolo DEF InsertInv
      <4> QED BY <4>3, FitsNothing
    <3>4. CASE e[2].key \notin DOMAIN table' \ DOMAIN table
      BY <1>4, <2>1, <2>2, <3>2, <3>4, FitsMoves
    <3> QED BY <3>3, <3>4
  <2>7. ShownInv(d, object, table', backed', contested)
    <3>1. SUFFICES ASSUME NEW h \in Objects, Wrote(d, h), Clean(h, contested)
                   PROVE  Fits(object[h].key, object[h].ver, {object[h].val},
                               Over(d.staged, table'), backed' \cup d.back)
      BY DEF ShownInv
    <3>2. Fits(object[h].key, object[h].ver, {object[h].val}, table', backed')
      BY <1>3, <1>4, <1>6, <1>9, <3>1 DEF ShownInv, View
    <3>3. /\ DOMAIN Over(d.staged, table') = DOMAIN table'
          /\ \A k \in DOMAIN table' : Over(d.staged, table')[k] = table'[k]
      BY <1>2 DEF Over
    <3>4. backed' \cup d.back = backed'
      BY <1>2
    <3> QED BY <3>2, <3>3, <3>4 DEF Fits
  <2>8. CallInv(d, object, snapshot, table', backed', nextId, contested)
    <3>1. BlankInv(d) /\ TodoInv(d) /\ HeadInv(d, object, snapshot, table', backed', contested)
      BY <1>2, <1>5 DEF BlankInv, TodoInv, HeadInv, InWork
    <3>2. WorkInv(d, nextId)
      BY <1>2, <1>4, <1>6 DEF WorkInv, History
    <3>3. StagedInv(d, table') /\ InsertInv(d, table', contested)
      BY <1>2 DEF StagedInv, InsertInv
    <3> QED BY <2>6, <2>7, <3>1, <3>2, <3>3 DEF CallInv
  <2>9. \A t \in Savers : CallInv(save'[t], object, snapshot, table', backed', nextId, contested)
    BY <1>7, <2>4, <2>8
  <2>10. LockInv(save') /\ CrossInv(save', contested) /\ RowLockInv(save')
    <3>1. LockInv(save')
      BY <1>5, <1>7 DEF VInv, LockInv
    <3>2. CrossInv(save', contested)
      BY <1>5, <1>7 DEF VInv, CrossInv
    <3>3. RowLockInv(save')
      BY <1>2, <1>7 DEF VInv, RowLockInv
    <3> QED BY <3>1, <3>2, <3>3
  <2>11. ClaimInv(object, save', table', nextId)
    <3>1. \A h \in Objects : \A k : Claims(h, k, object, save') => Claims(h, k, object, save)
      BY <1>6, <1>7 DEF Claims
    <3> QED BY <1>4, <2>1, <3>1, ClaimsKept
  <2> QED BY <1>3, <2>1, <2>5, <2>9, <2>10, <2>11 DEF VInv, LockInv, CrossInv, Graph
<1> QED BY <1>2, <1>8, <1>9

-----------------------------------------------------------------------------
LEMMA VersionsStep == IInv /\ VInv /\ [Next]_vars => VInv'
<1> SUFFICES ASSUME IInv, VInv, [Next]_vars PROVE VInv'
  OBVIOUS
<1>1. CASE UNCHANGED vars
  BY <1>1 DEF vars, graph, memory, VInv, LockInv, CrossInv, Graph
<1>2. ASSUME NEW h \in Objects, Edit(h) \/ MarkForDeletion(h) PROVE VInv'
  BY <1>2, EditVersions
<1>3. ASSUME NEW h \in Objects, NEW s \in Savers, Save(s, h) PROVE VInv'
  BY <1>3, SaveVersions
<1>4. ASSUME NEW k \in Ids, Recover(k) PROVE VInv'
  BY <1>4, RecoverVersions
<1>5. ASSUME NEW s \in Savers, Work(s) PROVE VInv'
  <2>1. CASE Reserve(s)
    BY <2>1, ReserveVersions
  <2>2. CASE Allocate(s)
    BY <2>2, AllocateVersions
  <2>3. CASE GiveUp(s)
    BY <2>3, GiveUpVersions
  <2>4. CASE CheckRaises(s)
    BY <2>4, CheckRaisesVersions
  <2>5. CASE Begin(s)
    BY <2>5, BeginVersions
  <2>6. CASE Write(s)
    BY <2>6, WriteVersions
  <2>7. CASE WriteFails(s)
    BY <2>7, WriteFailsVersions
  <2>8. CASE Commit(s) \/ CommitRaises(s)
    BY <2>8, CommitVersions
  <2>9. CASE Settle(s)
    BY <2>9, SettleVersions
  <2>10. CASE Undo(s)
    BY <2>10, UndoVersions
  <2> QED BY <1>5, <2>1, <2>2, <2>3, <2>4, <2>5, <2>6, <2>7, <2>8, <2>9, <2>10 DEF Work
<1> QED BY <1>1, <1>2, <1>3, <1>4, <1>5 DEF Next

LEMMA Versions == Spec => [](IInv /\ VInv)
<1>1. Init => IInv /\ VInv
  BY Start, VersionsStart
<1>2. IInv /\ VInv /\ [Next]_vars => (IInv /\ VInv)'
  BY Step, VersionsStep
<1> QED BY <1>1, <1>2, PTL DEF Spec

\* Whatever saves fail, take effect and raise, overlap and are called again, and
\* whatever others commit, delete or recover between an object's load and its
\* save: a statement that expects a version changes the row only if the row is
\* still what the object was loaded from or last saved as, so the old values an
\* audit event reports are those in the database (compile_update,
\* compile_delete, LoadedScalarSnapshots, rollback_entity).  Left out are the
\* rows and objects OldValuesTrue names.
THEOREM OldValuesReported == Spec => []OldValuesTrue
<1>1. IInv /\ VInv => OldValuesTrue
  <2> SUFFICES ASSUME IInv, VInv, NEW s \in Savers, save[s].pc = "write",
                      save[s].command.expected # {},
                      save[s].command.key \notin backed \cup save[s].back,
                      Affects(save[s].command, View(s)),
                      NEW g \in save[s].command.object, Clean(g, contested)
               PROVE  View(s)[save[s].command.key].val \in snapshot[g]
    BY DEF OldValuesTrue, Clean
  <2> DEFINE c == save[s].command
             h == Head(save[s].todo)
             k == c.key
  <2>1. /\ h \in Range(save[s].todo) /\ g = h /\ Claims(h, k, object, save)
        /\ k \in DOMAIN View(s) => k \in DOMAIN table
    BY NextObject
  <2>2. /\ WorkInv(save[s], nextId) /\ TodoInv(save[s]) /\ StagedInv(save[s], table)
        /\ HeadInv(save[s], object, snapshot, table, backed, contested) /\ TableInv(table, nextId)
    BY DEF VInv, CallInv
  <2>3. PICK v : v \in c.expected
    OBVIOUS
  <2>4. k \in DOMAIN View(s) /\ View(s)[k].ver = v /\ v \in Int
    BY <2>2, <2>3 DEF Affects, Matches, TodoInv
  <2>5. Fits(k, c.expected, snapshot[h], table, backed)
    BY <2>1, <2>2 DEF HeadInv
  <2>6. /\ k \in DOMAIN table /\ Size(v) <= Size(table[k].ver)
        /\ v = table[k].ver => table[k].val \in snapshot[h]
    BY <2>1, <2>3, <2>4, <2>5 DEF Fits
  <2>7. k \in DOMAIN save[s].staged => View(s)[k] = save[s].staged[k]
    BY ViewRows
  <2>8. k \notin DOMAIN save[s].staged => View(s)[k] = table[k]
    BY <2>6, ViewRows
  <2> HIDE DEF h, k, c
  <2>9. CASE k \in DOMAIN save[s].staged
    <3>1. Size(table[k].ver) < Size(save[s].staged[k].ver)
      BY <2>2, <2>6, <2>9 DEF StagedInv, k, c
    <3>2. Size(table[k].ver) < Size(v)
      BY <2>4, <2>7, <2>9, <3>1
    <3>3. Size(table[k].ver) \in Nat /\ Size(v) \in Nat
      BY <2>2, <2>4, <2>6, SizeOrder DEF TableInv
    <3> QED BY <2>6, <3>2, <3>3
  <2>10. CASE k \notin DOMAIN save[s].staged
    BY <2>1, <2>4, <2>6, <2>8, <2>10 DEF k, c
  <2> QED BY <2>9, <2>10
<1> QED BY <1>1, Versions, PTL
=============================================================================
