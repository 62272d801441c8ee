----------------------------- MODULE EntitySave -----------------------------
(***************************************************************************)
(* The save of a generated entity and its children, CustomerOrder.save of  *)
(* the trace-chain example: IDs are reserved, the graph is preflighted and *)
(* written row by row in one transaction, and after the commit or the      *)
(* rollback the objects and their ledgers are brought in line with the     *)
(* database.  The models of the other examples come from another generator *)
(* and give a reserved ID back on rollback.                                *)
(*                                                                         *)
(* Saves overlap at every await: the application edits and deletes objects *)
(* and starts further saves meanwhile, and other transactions write the    *)
(* same rows.  Statements and commits fail, and a commit may take effect   *)
(* and raise all the same; a failed save is retried by calling save again. *)
(* Graph and audit internals are those of GraphSave, next_id that of       *)
(* IdSpace.  The graph has two levels, an entity and its list.             *)
(*                                                                         *)
(* A checker may change what it checks: it fills in fields of its own, and *)
(* brings the value of the application's field into a normal form.         *)
(***************************************************************************)
EXTENDS Integers, Sequences, SequencesExt, RowVersions, EntityLedger

CONSTANTS
  Objects,     \* generated entities in the program's memory
  Savers,      \* tasks that call save
  Ids,         \* row IDs, consecutive from 1; an object is its own temporary ID
  Shapes,      \* how the objects start out: records [ids, refs, items,
               \* context, calls]
  Stamps,      \* fields the checkers fill in, e.g. update_time; what they hold is left out
  Unfit,       \* values the checkers replace by their normal form
  MaxEdits,    \* bound: calls of update_<field> and mark_for_deletion
  MaxVersion   \* bound: versions a row reaches by recovery

ASSUME IdsAssumption == Ids \cap Objects = {}
\* A list holds an object once and not its owner; the rows at the start have the
\* first IDs.
ASSUME ShapesAssumption ==
  \A shape \in Shapes :
    /\ shape.items \in [Objects -> Seq(Objects)]
    /\ \A h \in Objects : IsInjective(<<h>> \o shape.items[h])
    /\ Range(shape.ids) \subseteq Ids /\ IsFiniteSet(Range(shape.ids))
    /\ Range(shape.ids) = 1 .. Cardinality(Range(shape.ids))
\* A graph has two levels, as Graph has: what is in a list has none.  It is in no
\* other list, whose owner's ledger would keep changes that were saved in this one.
ASSUME LevelsAssumption ==
  \A shape \in Shapes : \A g, h \in Objects :
    g \in Range(shape.items[h]) =>
      shape.items[g] = <<>> /\ \A f \in Objects : g \in Range(shape.items[f]) => f = h
ASSUME BoundsAssumption == MaxEdits \in Nat
ASSUME CheckersAssumption == Unfit \subseteq Nat \ {0} /\ Stamps \cap {"id", "val"} = {}

VARIABLES
  items,     \* items[h]: the objects in the list of h
  context,   \* context[s]: the UserContext of task s
  object,    \* object[h]: the attributes of h
  ledger,    \* ledger[r]: the EntityRoot created with object r
  snapshot,  \* snapshot[h]: the value LoadedScalarSnapshots has of h, if any
  table,     \* the committed rows
  nextId,    \* the next ID of next_id
  save,      \* save[s]: the call of save in task s
  edits,     \* calls of update_<field> so far
  calls,     \* bound: calls of save still to come
  contested, \* history: contested[h]: how h was touched while a save reached it
  backed     \* history: rows whose version a deletion set back

memory == <<object, ledger, snapshot>>
graph == <<items, context>>
vars == <<graph, memory, table, nextId, save, edits, calls, contested, backed>>

-----------------------------------------------------------------------------
Key(h) == object[h].key
Root(h) == object[h].root
Graph(h) == <<h>> \o items[h]
NoCommand == [object |-> {}, kind |-> "none", key |-> 0, expected |-> {}, values |-> <<>>]
Idle == [pc |-> "idle", graph |-> <<>>, todo |-> <<>>, command |-> NoCommand,
         staged |-> <<>>, back |-> {}, written |-> <<>>, old |-> <<>>]

\* save is running in s and its graph contains h.
Reaches(s, h) == save[s].pc # "idle" /\ h \in Range(save[s].graph)

\* __init__: loaded from row ids[h], made by refer(ids[h]), or new.
NewObject(shape, h) ==
  [key    |-> IF h \in DOMAIN shape.ids THEN shape.ids[h] ELSE h,
   ver    |-> IF h \in DOMAIN shape.ids /\ h \notin shape.refs THEN {1} ELSE {},
   val    |-> 0,
   action |-> IF h \in DOMAIN shape.ids THEN "Update" ELSE "Create",
   root   |-> h]

NewRoot(o) ==
  IF o.action = "Create" THEN MarkAsNew(NoLedger, o.key)
  ELSE AcceptCommittedVersion(NoLedger, o.key, o.ver)

Init ==
  \E shape \in Shapes :
    /\ items = shape.items
    /\ context = shape.context
    /\ object = [h \in Objects |-> NewObject(shape, h)]
    /\ ledger = [h \in Objects |-> NewRoot(NewObject(shape, h))]
    /\ snapshot = [h \in Objects |-> IF NewObject(shape, h).ver = {} THEN {} ELSE {0}]
    /\ table = [k \in Range(shape.ids) |-> [ver |-> 1, val |-> 0, by |-> {}]]
    /\ nextId = Cardinality(Range(shape.ids)) + 1
    /\ save = [s \in Savers |-> Idle]
    /\ edits = 0
    /\ calls = shape.calls
    /\ contested = [h \in Objects |-> {}]
    /\ backed = {}

-----------------------------------------------------------------------------
(* The application between and during saves *)

\* h is touched while a save that reaches it is running.
Disturb(h) ==
  contested' = [contested EXCEPT ![h] = IF \E s \in Savers : Reaches(s, h) THEN @ \cup {"edited"} ELSE @]

\* update_<field> with a value it did not have before.
Edit(h) ==
  /\ edits < MaxEdits
  /\ edits' = edits + 1
  /\ object' = [object EXCEPT ![h].val = edits']
  /\ ledger' = [ledger EXCEPT ![Root(h)] = SetField(@, Key(h), "val", edits')]
  /\ Disturb(h)
  /\ UNCHANGED <<graph, snapshot, table, nextId, save, calls, backed>>

\* mark_for_deletion
MarkForDeletion(h) ==
  /\ edits < MaxEdits
  /\ edits' = edits + 1
  /\ object' = [object EXCEPT ![h].action = "Delete"]
  /\ ledger' = [ledger EXCEPT ![Root(h)] = MarkAsDeleted(@, Key(h))]
  /\ Disturb(h)
  /\ UNCHANGED <<graph, snapshot, table, nextId, save, calls, backed>>

\* A RecoverCommand for a deleted row no open transaction has written.
Recover(k) ==
  /\ k \in DOMAIN table
  /\ table[k].ver \in -MaxVersion .. -1
  /\ \A s \in Savers : k \notin DOMAIN save[s].staged
  /\ table' = RecoverRow(table, k)
  /\ UNCHANGED <<graph, memory, nextId, save, edits, calls, contested, backed>>

-----------------------------------------------------------------------------
(* Attaching children and reserving IDs, before the transaction *)

\* _teaql_attach_root: h leaves its ledger for that of root r.
Attach(m, h, r) ==
  IF m.object[h].root = r THEN m
  ELSE [m EXCEPT !.object[h].root = r,
                 !.ledger[r] = MergeEntity(@, m.ledger[m.object[h].root], m.object[h].key)]

AttachedLedger(m, hs, r) ==
  LET after[n \in 0 .. Len(hs)] == IF n = 0 THEN m ELSE Attach(after[n - 1], hs[n], r)
  IN  after[Len(hs)].ledger
AttachAll(m, hs, r) ==
  [object |-> [h \in Objects |-> IF h \in Range(hs) THEN [m.object[h] EXCEPT !.root = r] ELSE m.object[h]],
   ledger |-> AttachedLedger(m, hs, r)]

\* Attaching h to r would mix two loaded versions.
Clashes(m, h, r) ==
  LET key == m.object[h].key  old == m.object[h].root
  IN  old # r /\ Conflicts(m.ledger[r], key, OriginalVersion(m.ledger[old], key))

\* The part of hs that is attached before the first conflict.
Attachable(m, hs, r) ==
  LET clean == {n \in 0 .. Len(hs) : \A i \in 1 .. n :
                  ~Clashes(AttachAll(m, SubSeq(hs, 1, i - 1), r), hs[i], r)}
  IN  SubSeq(hs, 1, Max(clean))

Memory == [object |-> object, ledger |-> ledger]
Remember(m) == object' = m.object /\ ledger' = m.ledger

\* save is called: ids are reserved for its graph, the top first.
Save(s, h) ==
  /\ save[s].pc = "idle"
  /\ calls > 0
  /\ calls' = calls - 1
  /\ save' = [save EXCEPT ![s] = [Idle EXCEPT !.pc = "reserve", !.graph = Graph(h), !.todo = Graph(h)]]
  /\ contested' = [o \in Objects |-> contested[o] \cup
       IF o \notin Range(Graph(h)) THEN {}
       ELSE {IF context[t] = context[s] THEN "saved" ELSE "crossed" : t \in {u \in Savers : Reaches(u, o)}}]
  /\ UNCHANGED <<graph, memory, table, nextId, edits, backed>>

NeedsId(h) == object[h].action = "Create" /\ Key(h) = h

\* Objects are visited up to the first that waits for its ID, or meets a conflict.
Reserve(s) ==
  /\ save[s].pc = "reserve"
  /\ LET todo == save[s].todo
         r == Root(Head(save[s].graph))
         waiting == {i \in 1 .. Len(todo) : NeedsId(todo[i])}
         n == IF waiting = {} THEN Len(todo) ELSE Min(waiting)
         reached == SubSeq(todo, 1, n)
         attached == Attachable(Memory, reached, r)
     IN  /\ Remember(AttachAll(Memory, attached, r))
         /\ save' = [save EXCEPT ![s] =
              IF attached # reached THEN Idle
              ELSE IF waiting = {} THEN [@ EXCEPT !.pc = "begin", !.todo = <<>>]
              ELSE [@ EXCEPT !.pc = "allocate", !.todo = SubSeq(todo, n, Len(todo))]]
  /\ UNCHANGED <<graph, snapshot, table, nextId, edits, calls, contested, backed>>

\* next_id answers: the object is known by its ID from now on, also when the
\* save fails.  The key it had when next_id was called is its temporary one.
Allocate(s) ==
  /\ save[s].pc = "allocate"
  /\ nextId \in Ids
  /\ nextId' = nextId + 1
  /\ LET h == Head(save[s].todo)
     IN  /\ object' = [object EXCEPT ![h].key = nextId]
         /\ ledger' = [ledger EXCEPT ![Root(h)] = SetField(Rekey(@, h, nextId), nextId, "id", nextId)]
  /\ save' = [save EXCEPT ![s].pc = "reserve", ![s].todo = Tail(@)]
  /\ UNCHANGED <<graph, snapshot, table, edits, calls, contested, backed>>

\* next_id raises, or the transaction does not begin.
GiveUp(s) ==
  /\ save[s].pc \in {"allocate", "begin"}
  /\ save' = [save EXCEPT ![s] = Idle]
  /\ UNCHANGED <<graph, memory, table, nextId, edits, calls, contested, backed>>

-----------------------------------------------------------------------------
(* The work of the save, in its transaction *)

Pending(m, h) == HasPending(m.ledger[m.object[h].root], m.object[h].key)

\* check_and_fix_mutation: what the checkers make of a value, which is its own
\* normal form from then on, and of the values of a command.
Normal(v) == IF v \in Unfit THEN -v ELSE v
Fixed(values) ==
  [f \in DOMAIN values \cup Stamps |->
     CASE f \in Stamps -> "now" [] f = "val" -> Normal(values[f]) [] OTHER -> values[f]]

\* _teaql_build_command, checked.  A deletion has no values to check.
Command(m, h) ==
  LET o == m.object[h]
  IN  [object |-> {h}, kind |-> o.action, key |-> o.key,
       expected |-> IF o.action = "Create" THEN {} ELSE o.ver,
       values |-> CASE o.action = "Create" -> Fixed([f \in {"val"} |-> o.val])
                    [] o.action = "Update" -> Fixed(Fields(m.ledger[o.root], o.key))
                    [] OTHER -> <<>>]

\* The values of a checked command are put into the ledger, and stay there when
\* the check raises or the save fails.  The object does not show them yet.
Check(m, h) ==
  IF Pending(m, h)
    THEN [m EXCEPT !.ledger[m.object[h].root] = SetFields(@, m.object[h].key, Command(m, h).values)]
    ELSE m

CheckedLedger(m, hs) ==
  LET after[n \in 0 .. Len(hs)] == IF n = 0 THEN m ELSE Check(after[n - 1], hs[n])
  IN  after[Len(hs)].ledger

\* An update of an object that was not loaded in full, e.g. by refer(id).
Incomplete(m, h) == Pending(m, h) /\ m.object[h].action = "Update" /\ m.object[h].ver = {}

\* An exception leaves the work, and the transaction is rolled back.
Failed(c) == [c EXCEPT !.pc = "undo", !.todo = <<>>, !.command = NoCommand, !.staged = <<>>, !.back = {}]

\* The work ends with an object without changes, instead of passing it.
ProceedUnlessClean(c, m, todo) ==
  IF todo = <<>> \/ ~Pending(m, Head(todo))
    THEN [save |-> [c EXCEPT !.pc = "commit", !.todo = <<>>, !.command = NoCommand], memory |-> m]
    ELSE [save |-> [c EXCEPT !.pc = "write", !.todo = todo, !.command = Command(m, Head(todo))],
          memory |-> Check(m, Head(todo))]

\* Objects are attached, again, and passed until one has changes; the command
\* of that one is built.
Proceed(c, m, todo) ==
  LET r == m.object[Head(c.graph)].root
      pending == {i \in 1 .. Len(todo) : Pending(AttachAll(m, SubSeq(todo, 1, i), r), todo[i])}
      n == IF pending = {} THEN Len(todo) ELSE Min(pending)
      reached == SubSeq(todo, 1, n)
      attached == Attachable(m, reached, r)
      after == AttachAll(m, attached, r)
  IN  CASE attached # reached -> [save |-> Failed(c), memory |-> after]
        [] attached = reached /\ pending = {} ->
             [save |-> [c EXCEPT !.pc = "commit", !.todo = <<>>, !.command = NoCommand], memory |-> after]
        [] OTHER ->
             [save |-> [c EXCEPT !.pc = "write", !.todo = SubSeq(todo, n, Len(todo)),
                                 !.command = Command(after, todo[n])],
              memory |-> Check(after, todo[n])]

\* execute_graph_save holds the lock of its context to the end.
Locked(t) == save[t].pc \in {"write", "commit", "settle", "undo"}
TakesLock(s) == \A t \in Savers : Locked(t) => context[t] # context[s]

\* What the preflight leaves in memory that attaches reached and checks checked.
Preflight(r, reached, checked) ==
  LET after == AttachAll(Memory, reached, r)
  IN  [after EXCEPT !.ledger = CheckedLedger(after, checked)]

\* A checker raises in the preflight of the n-th object, after it changed the
\* values of the command.
CheckRaises(s) ==
  /\ save[s].pc = "begin"
  /\ TakesLock(s)
  /\ \E n \in 1 .. Len(save[s].graph) :
       LET hs == SubSeq(save[s].graph, 1, n)
           r == Root(Head(save[s].graph))
       IN  /\ Attachable(Memory, hs, r) = hs
           /\ Pending(AttachAll(Memory, hs, r), hs[n])
           /\ \A i \in 1 .. n : ~Incomplete(AttachAll(Memory, SubSeq(hs, 1, i), r), hs[i])
           /\ Remember(Preflight(r, hs, hs))
  /\ save' = [save EXCEPT ![s] = Failed(@)]
  /\ UNCHANGED <<graph, snapshot, table, nextId, edits, calls, contested, backed>>

\* The transaction has begun.  The graph is attached and preflighted object by
\* object, and the first command is built.
Begin(s) ==
  /\ save[s].pc = "begin"
  /\ TakesLock(s)
  /\ LET hs == save[s].graph
         r == Root(Head(hs))
         attached == Attachable(Memory, hs, r)
         refused == {i \in 1 .. Len(attached) :
                       Incomplete(AttachAll(Memory, SubSeq(hs, 1, i), r), hs[i])}
         reached == IF refused = {} THEN attached ELSE SubSeq(hs, 1, Min(refused))
         checked == IF refused = {} THEN attached ELSE SubSeq(hs, 1, Min(refused) - 1)
         m == Preflight(r, reached, checked)
         next == Proceed(save[s], m, hs)
     IN  IF checked # hs
           THEN Remember(m) /\ save' = [save EXCEPT ![s] = Failed(@)]
           ELSE Remember(next.memory) /\ save' = [save EXCEPT ![s] = next.save]
  /\ UNCHANGED <<graph, snapshot, table, nextId, edits, calls, contested, backed>>

\* What a statement of s sees, and whether it need not wait for a row lock.
View(s) == Over(save[s].staged, table)
Free(s, k) == \A t \in Savers \ {s} : k \notin DOMAIN save[t].staged

\* The statement of command c changes a row.
Affects(c, rows) ==
  IF c.kind = "Create" THEN c.key \notin DOMAIN rows ELSE Matches(rows, c.key, c.expected)

Statement(c, rows) ==
  CASE c.kind = "Create" -> InsertRow(rows, c.key, c.values["val"], CHOOSE h \in c.object : TRUE)
    [] c.kind = "Update" -> UpdateRow(rows, c.key, c.expected, c.values)
    [] c.kind = "Delete" -> DeleteRow(rows, c.key, c.expected)

\* The row a statement changed if its version is no farther from 0 than before.
Size(v) == IF v < 0 THEN -v ELSE v
SetBack(k, row, rows) == {j \in {k} \cap DOMAIN rows : Size(row.ver) <= Size(rows[j].ver)}

\* The statement succeeds and is read back; the object shows the persisted row,
\* and the next command is built.  Children of a deleted top are not reached.
Write(s) ==
  /\ save[s].pc = "write"
  /\ LET c == save[s].command
         h == Head(save[s].todo)
         row == Statement(c, View(s))[c.key]
         shown == [object[h] EXCEPT !.key = c.key, !.ver = {row.ver}, !.val = row.val,
                                    !.action = IF c.kind = "Delete" THEN @ ELSE "Update"]
         m == [object |-> [object EXCEPT ![h] = shown],
               ledger |-> [ledger EXCEPT ![Root(h)] = Rekey(@, Key(h), c.key)]]
         rest == IF c.kind = "Delete" /\ h = Head(save[s].graph) THEN <<>> ELSE Tail(save[s].todo)
         after == [save[s] EXCEPT !.staged = WithRow(@, c.key, row),
                                  !.back = @ \cup SetBack(c.key, row, View(s)),
                                  !.written = Append(@, <<h, c.key>>),
                                  !.old = Append(@, <<h, object[h], snapshot[h]>>)]
         next == Proceed(after, m, rest)
     IN  /\ Free(s, c.key)
         /\ Affects(c, View(s))
         /\ Remember(next.memory)
         /\ save' = [save EXCEPT ![s] = next.save]
  /\ UNCHANGED <<graph, snapshot, table, nextId, edits, calls, contested, backed>>

\* A statement raises or changes no row, or the second check of its command
\* raises, and the transaction is rolled back.
WriteFails(s) ==
  /\ save[s].pc = "write"
  /\ save' = [save EXCEPT ![s] = Failed(@)]
  /\ UNCHANGED <<graph, memory, table, nextId, edits, calls, contested, backed>>

-----------------------------------------------------------------------------
(* The end of the transaction *)

\* The staged rows reach the table.
Apply(s) ==
  /\ table' = View(s)
  /\ backed' = backed \cup save[s].back

Commit(s) ==
  /\ save[s].pc = "commit"
  /\ Apply(s)
  /\ save' = [save EXCEPT ![s].pc = "settle", ![s].staged = <<>>, ![s].back = {}]
  /\ UNCHANGED <<graph, memory, nextId, edits, calls, contested>>

\* The commit raises, whether or not it took effect.
CommitRaises(s) ==
  /\ save[s].pc = "commit"
  /\ Apply(s) \/ UNCHANGED <<table, backed>>
  /\ save' = [save EXCEPT ![s].pc = "undo", ![s].staged = <<>>, ![s].back = {}]
  /\ UNCHANGED <<graph, memory, nextId, edits, calls, contested>>

\* commit_entity: nothing is pending for a written object and its ledger knows
\* the committed version.
CommitEntity(l, w) ==
  [l EXCEPT ![Root(w[1])] =
     AcceptCommittedVersion(ClearEntity(@, w[2]), w[2], object[w[1]].ver)]

Settled(written) ==
  LET after[n \in 0 .. Len(written)] ==
        IF n = 0 THEN ledger ELSE CommitEntity(after[n - 1], written[n])
  IN  after[Len(written)]

Settle(s) ==
  /\ save[s].pc = "settle"
  /\ snapshot' = [h \in Objects |->
       IF \E w \in Range(save[s].written) : w[1] = h THEN {object[h].val} ELSE snapshot[h]]
  /\ ledger' = Settled(save[s].written)
  /\ save' = [save EXCEPT ![s] = Idle]
  /\ UNCHANGED <<graph, object, table, nextId, edits, calls, contested, backed>>

\* The version of the row that was rolled back stays.
EarlierKeepingVersion(o, e) == [e[2] EXCEPT !.root = o.root, !.ver = o.ver]

\* The reserved ID is given back too.
EarlierTemporary(o, e) ==
  [e[2] EXCEPT !.root = o.root, !.key = IF e[2].action = "Create" THEN e[1] ELSE @]

\* rollback_entity of the object that was written as e and is o now: it is again
\* what it was, under its present root.
Earlier(o, e) == [e[2] EXCEPT !.root = o.root]

Restored(m, e) ==
  LET o == m.object[e[1]]
  IN  [m EXCEPT !.object[e[1]] = Earlier(o, e), !.ledger[o.root] = Rekey(@, o.key, Earlier(o, e).key)]

RestoredLedger(old) ==
  LET after[n \in 0 .. Len(old)] ==
        IF n = 0 THEN Memory ELSE Restored(after[n - 1], Reverse(old)[n])
  IN  after[Len(old)].ledger

\* rolled_back() runs the rollback actions, the latest first: of an object that
\* was written more than once the first entry is left.
Undo(s) ==
  LET old == save[s].old
      entries(h) == {i \in DOMAIN old : old[i][1] = h}
  IN  /\ save[s].pc = "undo"
      /\ object' = [h \in Objects |->
           IF entries(h) = {} THEN object[h] ELSE Earlier(object[h], old[Min(entries(h))])]
      /\ snapshot' = [h \in Objects |->
           IF entries(h) = {} THEN snapshot[h] ELSE old[Min(entries(h))][3]]
      /\ ledger' = RestoredLedger(old)
      /\ save' = [save EXCEPT ![s] = Idle]
      /\ UNCHANGED <<graph, table, nextId, edits, calls, contested, backed>>

-----------------------------------------------------------------------------
Work(s) ==
  \/ Reserve(s) \/ Allocate(s) \/ GiveUp(s) \/ CheckRaises(s) \/ Begin(s) \/ Write(s) \/ WriteFails(s)
  \/ Commit(s) \/ CommitRaises(s) \/ Settle(s) \/ Undo(s)

Next ==
  \/ \E h \in Objects : Edit(h) \/ MarkForDeletion(h) \/ \E s \in Savers : Save(s, h)
  \/ \E k \in Ids : Recover(k)
  \/ \E s \in Savers : Work(s)

Spec == Init /\ [][Next]_vars

-----------------------------------------------------------------------------
Stages == {"idle", "reserve", "allocate", "begin", "write", "commit", "settle", "undo"}

TypeOK ==
  /\ \A h \in Objects :
       /\ Key(h) \in Ids \cup {h}
       /\ object[h].val \in -MaxEdits .. MaxEdits
       /\ object[h].action \in {"Create", "Update", "Delete"}
       /\ Root(h) \in Objects
       /\ Cardinality(object[h].ver) <= 1
  /\ DOMAIN table \subseteq Ids
  /\ \A s \in Savers :
       /\ save[s].pc \in Stages
       /\ save[s].staged # <<>> => save[s].pc \in {"write", "commit"}

\* No save is running that reaches h.
AtRest(h) == \A s \in Savers : ~Reaches(s, h)

\* Nobody touched h while it was saved, and no other object of its ledger has
\* its key.
Undisturbed(h) ==
  /\ contested[h] = {}
  /\ \A g \in Objects : Key(g) = Key(h) /\ Root(g) = Root(h) => g = h

\* These fields hold value v, as it was edited or in its normal form.
Holding(fields, v) == "val" \in DOMAIN fields /\ fields["val"] \in {v, Normal(v)}

\* An update or a deletion that expects a version overwrites exactly the row
\* its object was loaded from or last saved as, which is also what its audit
\* event reports as the old values: whatever others wrote or recovered in the
\* meantime, and whatever failed saves and unconfirmed commits of its own came
\* before (compile_update, compile_delete, LoadedScalarSnapshots).  So a change
\* is not applied twice either.  Left out are rows whose version a deletion set
\* back, objects edited while they are saved and objects two contexts save at
\* the same time.
OldValuesTrue ==
  \A s \in Savers :
    LET c == save[s].command
    IN  save[s].pc = "write" /\ c.expected # {} /\ c.key \notin backed \cup save[s].back
          /\ Free(s, c.key) /\ Affects(c, View(s))
        => \A h \in c.object : \/ contested[h] \cap {"edited", "crossed"} # {}
                               \/ View(s)[c.key].val \in snapshot[h]

\* The state is well typed.  Between saves, failed ones included, the ledger of
\* an object holds what the object shows and the database does not: its version,
\* its creation or deletion until that is committed, and, for an object that was
\* saved, fields exactly if it shows an unsaved value.  That value is pending as
\* the last edit gave it, or as a checker put it into the ledger in a save that
\* failed; fields that checkers filled in never stay pending on their own
\* (EntityRoot through merge_entity_from, rekey, clear_entity and
\* accept_committed_version; check_and_fix_mutation, rollback_entity).
LedgerFaithful ==
  /\ TypeOK
  /\ \A h \in Objects :
       AtRest(h) /\ Undisturbed(h) =>
         LET o == object[h]
             l == ledger[o.root]
             changed == o.val \notin (IF snapshot[h] = {} THEN {0} ELSE snapshot[h])
         IN  /\ OriginalVersion(l, o.key) = o.ver
             /\ o.action = "Create" => o.key \in l.new
             /\ o.action = "Update" =>
                  /\ o.key \notin l.new \cup l.deleted
                  /\ (o.key \in DOMAIN l.changes) = changed
                  /\ changed => Holding(Fields(l, o.key), o.val)
             /\ o.action = "Delete" =>
                  o.key \in l.deleted \cup backed \/ \E v \in o.ver : v < 0

\* A save that committed wrote every change of its graph: what commit_entity is
\* about to drop from the ledger is in the database, and nothing stays pending
\* (_teaql_save_within_graph, _teaql_cascade_children).  A deleted top takes no
\* children along.
NothingDropped ==
  \A s \in Savers : save[s].pc = "settle" =>
    \A h \in Range(save[s].graph) :
      LET l == ledger[Root(h)]
          fields == Fields(l, Key(h))
          saved == <<h, Key(h)>> \in Range(save[s].written)
      IN  Undisturbed(h) /\ object[h].action # "Delete" /\ object[Head(save[s].graph)].action # "Delete"
            => /\ HasPending(l, Key(h)) => saved
               /\ saved /\ "val" \in DOMAIN fields => fields["val"] = object[h].val

\* A new object becomes one row, also when a commit took effect and raised and
\* save is called again: the ID reserved by the first call is kept and the
\* primary key refuses the second INSERT (_teaql_reserve_graph_ids).  Saves of
\* one new object that overlap are left out: each reserves an ID.
OneRow ==
  \A k, l \in DOMAIN table :
    k # l => \A h \in table[k].by \cap table[l].by : contested[h] \cap {"saved", "crossed"} # {}

\* A deletion that was committed left a deleted row (compile_delete).
DeletionDeletes ==
  \A s \in Savers : save[s].pc = "settle" =>
    \A w \in Range(save[s].written) :
      object[w[1]].action = "Delete" /\ Undisturbed(w[1]) => \A v \in object[w[1]].ver : v < 0
=============================================================================
