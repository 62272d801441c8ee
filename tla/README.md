# TLA+ model of the TeaQL Python runtime

This directory holds TLA+ modules that model the TeaQL Python runtime
(`src/teaql/**`), TLC configurations that model-check them on small instances,
and proofs checked by TLAPS. `PROJECT.json` lists the components, the runs, the
mutants (small plausible bugs each property is known to catch), the source lines
behind every definition, the findings, the hazards and the theorems.

- Model-check a module: `tlc -config GraphSave.cfg MCGraphSave`
- Check its proofs: `tlapm GraphSaveProofs.tla`

Line numbers below are of files under `src/teaql/`.

## 1. Inventory of the system

TeaQL generates typed request and entity classes; this repository is the runtime
they call. A *save* walks an entity graph, checks and fixes every operation,
has the whole plan reviewed by the customer's policy, writes it in one
transaction, and delivers audit events after the commit. A *query* compiles to
SQL, loads rows, relations, facets and aggregates, and is observed by telemetry.

| component | state it keeps | operations | hard parts | what makes it correct |
|---|---|---|---|---|
| Graph save (`runtime/context.py`, `runtime/graph_session.py`) | save lock, per-task guard, session flags, queued audits, commit and rollback actions | `execute_graph_save`, `after_commit`, `after_rollback`, `queue_audit`, `committed`, `rolled_back`, `close` | tasks that outlive work, re-entry, cancellation of every await, failing sinks | one save at a time, audits only of committed writes, truthful verdict, every call ends |
| SQL mutation path (`sql/executor.py`, `runtime/audit.py`) | connection and transaction, audit journal | `mutate`, `begin`, `commit`, `rollback` | statement / readback / audit fail separately, batches stop in the middle | a write is audited once, exactly when it commits |
| Mutation policy (`runtime/mutation_policy.py`) | announced operations, reviewed plan, what is left of it | `record_preflight`, `enter_mutation`, `review`, `ensure_graph_complete` | swallowed refusals, batches, requests from several tasks | no write outside a reviewed plan, no half plan committed |
| Internal ID space (`sql/executor.py`) | row of `teaql_id_space` | `next_id`, `ensure_id_floor` | compare-and-swap loops, insert races, transactions that roll back, end of the sequence | unique IDs above every floor |
| Business IDs (`core/business_id.py`, `runtime/business_id.py`, `sql/business_id.py`) | daily counters | `allocate`, `encode` | insert races, exhaustion, permutation is injective | unique, in range, decodable |
| Queries (`sql/executor.py`, `core/query.py`, `runtime/query_list.py`) | retained id-sets, and the size of the last one in the context | `execute_typed_list`, `query`, relations, facets, aggregates, id-set page | one build of a set at a time, stale sets, one list is many SELECTs, three plans for one relation | pages contain only rows of the query, limits are per parent, numbers count all rows and not those shown |
| Retained id-set store (`runtime/context.py:63-97`) | map of sets with expiry | `get`, `put`, `invalidate` | eviction by entries and bytes | never over its limits, never an expired set |
| SQL dialect (`sql/dialect.py`) | none | `compile_*` | optimistic versions, soft delete as a negative version | no lost update, a deletion deletes |
| Entity ledger (`core/entity.py`, `runtime/loaded_scalar_snapshot.py`) | pending changes per key, new and deleted keys, loaded versions and values | set, merge, rekey, accept, restore | graphs sharing a root, failed saves | pending changes are neither lost nor invented |
| Generated entity save (`examples/trace-chain/**/models/*.py`; the other examples come from another generator) | version, values, action and root of each object | `save`, `mark_for_deletion`, `update_<field>` | edits during a save, checkers that change what they check, commits that took effect and raise, retries | one row per object, nothing dropped |
| Telemetry (`runtime/telemetry*.py`, `runtime/standard_telemetry.py`) | export queue, worker thread, startup handshake | `handoff`, `begin_export`, `wait_prefix`, `close`, `abort_queued` | threads, capacity, shutdown with late completions | every record is accounted once, flush ends |
| Typed stream (`runtime/query_stream.py`) | busy and closed flags, pending fetch | `__anext__`, `aclose` | cancellation while a fetch is pending | source closed once, no item after close |
| Local cache and lock (`runtime/context.py:1121-1250`), Redis (`provider/redis`) | leases, entries | `try_local_lock`, `unlock_local`, remote versions | expiry while the holder works | mutual exclusion while leases last |
| Object storage (`core/object_storage.py`, `runtime/object_storage.py`) | receipts, temporary files | put, get, open, finish | failing and cancelled streams | a receipt is finished once |
| Startup of telemetry (`runtime/telemetry_startup.py`) | pipelines, announcements | `default_telemetry` | handshake with a thread | at most one pipeline per service |
| Expressions, values, references, privacy, i18n, TFP client, FastAPI, transports' value binding | none, or remote | pure functions, I/O | no behaviour over time | unit tests |

How they interact: `execute_graph_save` begins a transaction of the configured
data service and hands `work` a session whose context view carries a policy
state of its own. `work` announces operations (`preflight_mutation`) and calls
`mutate`; the executor asks the policy (`mutation_policy_execution`), allocates
an ID (`next_id`, through the same transaction), executes, reads the row back
and sends an audit event, which the session queues. Back in the context, the
plan is checked for completeness, the transaction is committed, and the session
delivers audits and runs the entities' commit actions; on any exception it rolls
back and runs the rollback actions. All of this is `asyncio` on one thread:
steps between two awaits are atomic, everything else interleaves. Telemetry has
threads of its own; the ID space and the business IDs are shared by processes.

The hazards these behaviours carry, each at its line, are in `PROJECT.json`.

## 2. Modules

| module | models | abstract specification | runs | proofs |
|---|---|---|---|---|
| `GraphSave` | graph save, session, writes of one save | `AtomicSave` | `graph_save`, `graph_save_lost` | `GraphSaveProofs` |
| `MutationPolicy` | the policy state of one graph save | | `resources`, `policy_swallowed` | `ResourcesProofs` |
| `IdSpace` | `next_id` and `ensure_id_floor` of one entity | `IdLedger` | `id_space`, `id_reuse` | `IdSpaceProofs` |
| `BusinessId` | `ensure`, both allocators and the encoding of Business IDs | | `business_id` | `BusinessIdProofs` |
| `RowVersions`, `EntityLedger`, `EntitySave` | the rows of a table with versions, `EntityRoot`, and the save of a generated entity over both | | `entity_save`, `entity_save_undeleted` | `EntitySaveProofs`, `EntityLedgerProofs` |
| `IdSetPage` | id-set pages and the store of retained sets | | `queries` | `QueriesProofs` |
| `TypedList` | a list of `execute_for_list` with relations and facets | | `queries`, `queries_facets` | `QueriesProofs` |
| `TelemetryExport` | export queue, exporter, flush and shutdown of one signal | | `telemetry_export` | `TelemetryExportProofs` |
| `SqlTransaction` | a transaction of `service.begin`, or of one `mutate`, with its audit journal | | `resources` | `ResourcesProofs` |
| `TelemetryStartup` | `default_telemetry`'s handshake with the build thread | | `resources` | `ResourcesProofs` |
| `LocalLock` | `try_local_lock` and `unlock_local` | | `resources` | `ResourcesProofs` |
| `TypedStream` | a typed stream over `_query_stream` | | `resources` | `ResourcesProofs` |
| `ObjectStorage` | the stream and receipt of `ObjectStorage.get` | | `resources` | `ResourcesProofs` |

`MC*` modules give the constants their values. `MCQueries` and `MCResources` hold
several components that share no state: `inPlay` picks one in each behaviour and
the others stay as they start.

### GraphSave and AtomicSave

State: `pc[s]` is the position of a save in `_execute_graph_transaction`
(`runtime/context.py:239-269`); `lock` and `guard` are `_graph_save_lock` and the
dict in `_graph_save_guard`; `caller` and `awaited` record in whose lineage of
context variables a save was called, since a spawned task inherits the guard;
`session` folds the `_active` and `_committed` flags; `conn`, `staged` and
`durable` are the transaction; `op[s][o]` is the progress of one `mutate`;
`queued`, `actions` and `todo` are the session's lists and what the running loop
has left.

Each action is the code between two awaits. `Call`/`Refuse` is the admission
test, `Acquire` the lock, `BeginOk`/`BeginNoSession`/`BeginRaises` the three ways
`begin` and the session's constructor end, `Enter`/`Execute`/`Readback`/`Finish`
one write (`sql/executor.py:934-1213`), `WorkReturns`/`WorkRaises` the end of
work, `DbCommit`/`CommitFails`/`CommitUnconfirmed`/`CommitReturns` the commit,
`Deliver`, `Accept`, `Complete` the `committed()` loop, `Rollback`, `Undo`,
`UndoEnds` the other branch. Writes may be made by tasks that work left
running, so they interleave with commit, delivery and rollback.

Abstractions: the lock is not FIFO; a cancellation inside `committed()` or
`rolled_back()` is one of the failures those loops catch; a statement sent after
the database committed and before the connection closed fails. Commit and
rollback actions of an entity are registered together, as generated code does.

`AtomicSave` says what a save promises: a save commits all its writes at once or
none, it is acknowledged only after that, and writes are announced only between
acknowledgement and the end. `ImplementsAtomicSave` is the refinement.

### MutationPolicy

State: `registry` is what the customer installed (nothing, a registry that
resolves no policy, or a policy); `preflight`, `reviewed` and `remaining` are
`_preflight`, `_graph_reviewed` and `_remaining`, bags of operation signatures;
`todo[c]` is what a request has been let through with and has not executed. `RecordPreflight`
is `record_preflight`; `EnterMutation` is `enter_mutation` with its three
branches (nothing announced, first request, plan reviewed) and `Consume` is
`_consume_planned`, which takes operations off the plan one by one and stops at
the first that is missing; `Write`/`Fail` are the statements of the request, in
order; `Finish` is `ensure_graph_complete`. A review by the customer's policy
may end either way each time. Warnings and approvals do not influence decisions
and are left out. A lost answer to commit is GraphSave's matter.

### IdSpace and IdLedger

State: `level` is the committed `current_level`, `writer`/`dirty` the
transaction that wrote the row and the value it sees; `pc`, `seen`, `attempt`
are the local state of a call, which runs by itself or in a transaction. One
action per SQL statement: `Read`, `Insert`, `Recheck` (the SELECT after a failed
INSERT), `Update`; `Raise` is a statement that fails without effect, and
`Insert`/`Update` include the outcome "took effect and raised". `Commit` and
`Rollback` end the transactions.

Abstractions: `CREATE TABLE IF NOT EXISTS` is left out (its failure is `Raise`
before the first read). A transaction reads what is committed, which is so for
SQLite (`BEGIN IMMEDIATE`) and for read committed; under MySQL's REPEATABLE READ
a call in a transaction may reread its snapshot and lose all its attempts
(listed as a hazard). `base` and `promised` are history variables.

`IdLedger` says what the ID space promises: numbers handed out for good are above
everything issued or reserved before, each to one caller. An ID of a transaction
is issued when the transaction commits.

### TelemetryExport

State: `state[r]` and `sequence[r]` are the `_Admission` of a record, `count`
the counters of `ExportQueue.snapshot`, `lost` the reasons of
`StandardTelemetry._queue_loss`; `deque`, `batch`, `exporter` are the SDK's
queue and the thread that exports (its source is not in the repository;
`TakeBatch` is what `telemetry_queue.py` relies on); `wire` is
`HttpExporter._active`; `pc[l]`, `holder`, `shut`, `prefix[l]` are a call of
`flush` or `shutdown` in `_lifecycle` and `_settle_lifecycle`. Every method of
`ExportQueue` runs under its lock and is one action; `Send`, `AttemptEnds`,
`AttemptTimesOut`, `LateAttemptEnds` are the attempt of `telemetry_http.py` with
its deadline. `sent` and `acked` are history variables.

Abstractions: one signal of two (they share only the lifecycle); a timeout may
strike whenever what it waits for has not happened; the report of a loss is
part of the step that loses; records partly rejected by the receiver count as
acknowledged, as they do in the code, which counts rejections elsewhere; a
`submit` that exports before `handoff` returns, the reuse of a running flush
job, and the metrics reader are left out.

### IdSetPage

State: `store`, `expired` are `InMemoryIdSetStore._sets`; `registry` is
`_id_set_build_locks`, `holder` and `waiters` the `asyncio.Lock`s in it; `pc`,
`asked`, `lock`, `ids` are a call of `_query` with an id-set; `rows` is what the
query selects from the table at the moment. `Look` is the first
`store.get` with `setdefault` of the lock, `Recheck` the second one, `Collect`
the SELECT of the IDs, `Retain` the `put`; `Serve` is the page query that ANDs
the IDs of the page to the original filter and restores their order (`Verified`). Every
`return` from within the lock (`ReleaseOnly`) skips the lines that drop the lock
from the registry (`ReleaseAndForget`). A released `asyncio.Lock` wakes its first
waiter and is unlocked until that task runs, so `lock.locked()` in line 713 is
false whenever it is asked: the model drops the lock always. `lost`, `left`,
`present`, `absent` are history variables.

Abstractions: an expiry may happen at any time and lifetimes differ, so the
victims of an eviction are any sets that make room, expired ones first; IDs are
integers; sets are counted in IDs, not bytes; queries of unsupported shape take
the plain path and touch none of this state.

### BusinessId

State: `level` is the last number of each day, `current_value` of a row of
`teaql_business_id_space` or one less than `InMemoryBusinessIdAllocator._counters`;
`slot` is what `BusinessIdSlot.current_value` returns; `pc`, `seen`, `attempt`,
`cand` are the locals of a call of `ensure`. `Ensure` is everything before the
first await, `Count` the allocator in memory, `Read`, `Insert`, `Recheck` and
`Update` the statements of the SQL allocator, `Allocated` the choice of the key
in `format`, and `Walk` one pass of the loop in `encode`. `Permute` is
`_permute32` with all eight rounds; the half word taken from the HMAC is the
constant `Digest`, an arbitrary function. `Crash` is a restart, which loses
running calls, slots and the counter in memory. `trail`, `used`, `crowded` are
history variables.

Abstractions: one tenant, aggregate type and namespace, so a scope is a day; the
value is its day and its code as a number, for base 36, prefix and separator are
one-to-one; the business date and the key are whatever clock and key provider
return at the moment. `version` only moves with `current_value` and is left out.

`UniqueIds` speaks of one day and one key. Codes made with two keys may
coincide, so a provider that changes its key in the middle of a day gives up
uniqueness; the code neither forbids nor detects it. `RetrySafe` speaks of calls
that come one after the other: `ensure` reads the slot before its await and
assigns after it, so of two calls at a time the later one replaces the value of
the earlier.

### RowVersions, EntityLedger and EntitySave

`RowVersions` is what `compile_insert`, `compile_update`, `compile_delete` and
`compile_recover` do to a table: an expected version guards and advances a row, a
deletion negates the successor of the version, a recovery negates it back.
`EntityLedger` holds the operations of `EntityRoot` as functions of a ledger.

`EntitySave` is `save` of a generated entity with one list, as the generator of
`examples/trace-chain` writes it (`lib/models/customer_order.py`, and the same code in
its `standard-order`). The models of facet-trace, task_board, order-management,
school-management and conformance are another generator's: they undo the reservation of
an ID on rollback, so `OneRow` is not claimed of them (see "Known limits"). State: `object[h]` are the attributes of a generated object, `ledger[r]`
the `EntityRoot` made with object `r` (a child's root is replaced by its
parent's), `snapshot[h]` the value `LoadedScalarSnapshots` has, `table` the
committed rows, `save[s]` the call of `save` in task `s` with its open
transaction. A call reserves IDs for the new objects of its graph, one `next_id`
per await (`Reserve`, `Allocate`), attaches the children to the root's ledger
(`Attach`), is preflighted (`Begin`, `CheckRaises`), writes row by row (`Write`) and ends with
`Commit` and `Settle` (the commit actions) or `Undo` (the rollback actions, in
reverse). The application edits, deletes and recovers between any two awaits, and
may call `save` again on the same or another object of the graph.
`CommitRaises` includes the commit that took effect.

A command is checked twice, in the preflight and before it is executed, and checkers
change it: `Fixed` adds the fields of `Stamps`, as the generated
`record["update_time"] = now` does, and puts the business field into its normal form
(`Normal`, which replaces the values of `Unfit` and leaves a normal form alone). The
checked values go into the ledger in a `finally` (`Check`), so they are there after a
check that raised and after a rollback, while the object shows them only once the row
is read back. `LedgerFaithful` says what follows: between saves an object's ledger has
its version, its creation or deletion and, for an object that was saved, fields exactly
if the object shows an unsaved value; that value is pending as it was edited or as a
checker left it in a save that failed (`Holding`), and what checkers filled in never
stays pending on its own, which would write the object again.

Abstractions: one business field, whose values are told apart by the edit that
wrote them; what a stamp holds is left out, and rows and objects do not carry it; all
contexts have the same checkers (trace-chain's own fix nothing, those of the other
examples stamp `update_time`, an application may install any); graph session and audit are those of `GraphSave`, `next_id` that of
`IdSpace`; SQLite's one writer at a time stands for row locks, a statement that
waits has not been sent. `contested`, `backed` and the field `back` of a call are
history for what the properties leave out, see "Known limits".

### TypedList

State: `list[t]` is the call of `execute_typed_list` in task `t`: the SELECT it
waits for, the SELECTs that follow, and the answer so far; `observed[c]` is what
`observe_id_set` left in context `c`; `sets[f]` the retained set of a filter;
`tables` is the history of the database, of which every SELECT sees one state
since it was issued. `Start` issues the count or the page; `Collect`, `UseSet`,
`SelectPage` are `_prepare_id_set_page` and the page; `Nested` lists the SELECTs
of `_enhance_relation_aggregates`, `_enhance_relations` (window, probe per row,
or whole with `prepare_for_list`'s silent ceiling) and `_query_facets` in their
order; `Finish` reads the total. `Window` ranks children as `ROW_NUMBER() OVER
(PARTITION BY ...)` does, `InLimits` says independently what a list of children
should hold.

Abstractions: one reverse relation and one facet of the list and of the relation;
rows have IDs, a kind that is filtered and counted, and a parent; the order of the
page is that of IDs, that of children a rank completed by the ID; the store of
sets never refuses a set here (`IdSetPage` has that) but may lose one, and the
list may fall back to a plain page at any point.

### SqlTransaction

`GraphSave` has the transaction of a graph save, whose session queues audits and
whose end is fixed. `SqlTransaction` is the other use of the same code: the handle
`service.begin` returns, on which any task may call `mutate`, `commit` and
`rollback` at any time (`opened = "explicit"`), and the transaction `_mutate` opens
for a request by itself, which makes these calls in a fixed order (`"automatic"`,
`Due`). `journal` is the `_CommittedAuditJournal`: its owner, `_active` and
`_events`; a `txCall` is one call of the handle and where it stands. What a
statement or a commit does to the database and the moment its task goes on are two
steps, and the await may raise after either. A commit whose database call failed
has closed the connection, so the database rolled back; a commit that returned
without raising is taken to have committed, whatever the driver. `_completed` is set
only after that await, so commits overlap each other and a rollback: until the first of
them has closed the connection (`Closed`) the database answers the others too, which
find nothing to do (`DbCommit`, `DbRollback`), as SQLite does; other drivers raise.

`JournalTruthful`: an audit is offered only after the commit, for a row that was
changed, by a commit the database answered, and no commit offers one twice. So each is
offered once unless commits overlapped; when they did, both walk the same list and a
sink may be offered an event once by each (the run reaches this). Once a commit is over,
every row of a `mutate` that returned is committed and was offered, and a sink that
raises stops none of the others; a request with its own transaction leaves none open,
and one that raises its failure announced nothing.
It says nothing of a call without a context, which records no audit, nor of a
`rollback` another task calls while a commit delivers: `discard` clears the list
the loop of `committed` walks, and the rest is not offered.

### TelemetryStartup, LocalLock, TypedStream and ObjectStorage

`TelemetryStartup`: `starter[t]` is a thread in `default_telemetry`, which holds
`_lock` from the lookup to its side of the handshake (`Decide`); `build[b]` is a
build thread, which offers its candidate or shuts it down. The five seconds may
end at any moment.

`LocalLock`: `lock` is the entry of `_local_locks`; a pass of the loop of
`try_local_lock` is one step since it holds the condition, `Wake` follows a
notification or the timeout, at the time or later. Time is a clock.

`TypedStream`: `stream` holds the flags of `TypedStream`, `cursor` the locals of
`_query_stream`, which hands a chunk on once it has the next one or the end;
`polling[t]` is what a task awaits. A failing or cancelled fetch, a failing
`hydrate` and a close end the stream, the statement and the query operation.

`ObjectStorage`: `content` and `raw` are `_ObservedStream` and the provider's
stream, `receipt` what `_Receipt` reported; one thread reads while another may
close. Other operations than `get` are one call and one receipt.

## 3. What the runs check

| run | instance | shows |
|---|---|---|
| `graph_save` | 2 saves (racing, nested, awaited or not), 2 writes each | `AuditOnlyDurable`, `ReturnedWritesAudited`, `VerdictTruthful`, `EveryCallEnds`, refinement of `AtomicSave` |
| `graph_save_lost` | 1 save, 1 write | violation: a durable write that is never announced |
| `policy_swallowed` | 2 requests | violation: a reviewed operation is not executed and the save commits |
| `id_space` | 2 calls, 2 transactions, floors 0, 1 and 3, 2 attempts, sequence ends at 3 | `UniqueIds`, `FloorRespected`, `ContentionBound`, `EveryCallReturns`, refinement of `IdLedger` |
| `id_reuse` | 2 calls, 1 transaction | violation: an ID is handed out twice around a rollback |
| `telemetry_export` | 3 records, queue of 2, batches of 2, 1 flush, 1 shutdown | `EveryRecordCounted`, `LossesReported`, `RetiredNeverSent`, `FlushHonest`, `ShutdownSettles`, `LifecyclesEnd`, `ShutdownDrains` |
| `queries`, pages | 3 callers, 2 queries, 2 loops, 2 rows, sets and store of 1 ID | `StoreWithinLimits`, `BuildLocksSound`, `NobodyStuck`, `PageTruthful` |
| `queries`, lists | 2 lists of five shapes, 2 contexts, 2 rows, 3 children, 2 kinds, ceiling of 2, one write | `AnswerTrue` |
| `queries_facets` | 1 list of 1 of 2 rows by an id-set | violation: the facet counts the page |
| `business_id` | 3 calls, 2 slots, 2 days, 2 keys or none, 2 attempts, 1 restart, half words of 2 bits, domain of 9 | `UniqueIds`, `RangeHonest`, `RetrySafe`, `WalkMovesOn` |
| `entity_save` | an order, an item and a third object (new, loaded, a second copy, a reference), 2 tasks in one context or two, 2 edits, up to 3 saves, versions up to 4 | `OldValuesTrue`, `LedgerFaithful`, `NothingDropped`, `OneRow` |
| `entity_save_undeleted` | the same | violation: a second deletion brings the row back |
| `resources`, policy | 3 requests, 2 operations, each announced up to twice, batches | `WritesReviewed`, `WholePlanCommitted` |
| `resources`, transaction | 3 calls, 2 contexts or none, batches of 1 or 2 | `JournalTruthful` |
| `resources`, others | 3 contexts, leases of 1, 2 or no end, 4 ticks; 2 threads, 3 builds; 2 tasks, results of 0 to 5 rows in chunks of 2; a reader and a closer, 0 to 3 blocks, 5 reads | `LeasesHonored`, `NoStrayPipeline`, `StreamSettles`, `ReceiptHonest` |

Bounds and why they are enough. Two saves are enough for one to hold the lock
while the other waits, re-enters or outlives it; two writes let one be in every
state while the other is in any other. Three requests and two signatures let a
batch be refused in the middle while a second request runs and a third comes
late; announcing a signature twice tells a bag from a set. In `id_space` one call
loses an attempt to the other or to its own failed statements while either sits in
a transaction; two attempts reach the retry and the exhaustion; a sequence of
three reaches the overflow, and the floors are one that is always below, one that
the second call has to raise and the end of the sequence. The sequence's real bounds (100 attempts, 2^63-1) are constants, and the
theorems hold for all of them. Three offers against a capacity of two reach the
full queue, a second batch behind a late attempt, and a record offered again;
one flush and one shutdown race for the lifecycle lock in every order.
Three callers are one that builds, one that waits and a newcomer; a row that
comes or goes once makes a set stale, one ID per set makes two rows too many.
Three calls on a transaction are every two of mutate, commit and rollback with a third
that outlives or refuses them, two overlapping commits behind a mutate among them; a batch of two fails between its rows. The symmetric
sets of `resources` share their model values, since one component is in play.
In `business_id` three calls are one that takes a number while two others hold
what they read; sequences begin at no row and one number before the end; of 16
words 9 are in the domain, as 36^6 are of 2^32, and some walks take four
permutations. In `entity_save` two tasks overlap two saves of one graph, one or two
contexts serialize them or not, and a third save is the retry; two edits tell an
edit during a save from one before it; the second gives a value that checkers replace,
the first one they keep, and one field is filled in. A write between any two SELECTs of two
lists is enough to set any two of them apart; two parents of which one has two
children tell a limit per parent from one for all, and a ceiling of two is below
the number of children. `MaxEdits`, `MaxVersion`, `MaxClock`, `Builds`, `MaxReads`,
`MaxOffers`, `MaxChanges`, `MaxDay`, `MaxCrashes` and `Starts` are
the only bounds that are not the program's. `CHECK_DEADLOCK FALSE` because calls end and
nothing calls again.

Fairness. `GraphSave`: weak fairness of what the task of a save does by itself
once called (the event loop runs ready tasks, drivers answer, sinks return);
none of calls, cancellations or writes. `IdSpace`: weak fairness of each call's
next statement and of the end of each transaction; none of `Raise`.
`TelemetryExport`: weak fairness of each flush and shutdown, which wait with
timeouts only; `LifecyclesEnd` holds under that alone. `ShutdownDrains` assumes
in addition (`ExportGoesOn`) that the SDK's thread keeps exporting and that an
attempt ends or times out. The other modules state no liveness: what has to
happen is stated as an invariant of who waits for whom (`NobodyStuck`,
`LeasesHonored`, `StreamSettles`, `ReceiptHonest`, `NoStrayPipeline`).

Violations are claims the repository makes of itself that the code does not
keep; each is quoted in `PROJECT.json` "findings":

- `graph_save_lost`: a commit whose await raises after it took effect is handled as
  a rollback, and its audits are never delivered.
- `policy_swallowed`: a reviewed operation that failed and was swallowed counts as
  executed.
- `id_reuse`: a rollback gives allocated IDs back.
- `entity_save_undeleted`: a deletion saved again for an object that is deleted
  already makes the row live again.
- `queries_facets`: facets beside a page of an id-set count the page.

Type invariants are run properties of their own where a theorem states them
(`GraphSave`, `IdSpace`, `BusinessId`); elsewhere they are the first conjunct of a
property, as in `WritesReviewed`, `EveryRecordCounted`, `StoreWithinLimits` and
`LedgerFaithful`, or left out where the property already fixes the types.

Known limits of the code, found while modelling, of which nothing in the
repository promises otherwise. Where a name is given, it is what a property leaves
the case out by:

- An edit made while the object's save is in flight is cleared with the committed
  changes (`contested`, "edited").
- Two overlapping saves of one new object each reserve an ID, and both rows may be
  inserted; in two contexts no lock keeps the saves apart (`contested`, "saved" and
  "crossed").
- An object listed in two parents leaves its pending changes in the first one's
  ledger, which later writes them again (`LevelsAssumption`); so do two objects of
  one key in one ledger (`Undisturbed`).
- The save of facet-trace, task_board, order-management
  (`python-lib-core/models/customer_order.py:149-155`), school-management
  (`models/school.py:139-145`) and conformance registers `rollback_reservation`, which
  gives the reserved ID back. A commit that took effect and raised, followed by a retry,
  then inserts a second row under a new ID. `EntitySave` is not about that code; its
  mutant `EarlierTemporary` is this difference, and breaks `OneRow`.
- Two overlapping commits of one `service.begin` handle may offer every audit to the
  sinks twice, and a commit that overlaps a rollback may return although nothing was
  committed (`JournalTruthful` says what holds then).
- `refer(id).mark_for_deletion().save()` expects no version and sets the row's to
  -1 whatever it was (`back` of the statement's transaction, `backed` once committed).
- A holder that renews a local lock to an earlier end notifies nobody, and a
  waiter sleeps until the old end (`shortened`).
- `unlock_remote` of the Redis provider deletes the key whoever holds it.
- A total read after another list of the same context has run may be that list's
  (`overlapped`).
- `_query_stream` passes over an error or a cancellation that arrives while it
  closes its transport, so a task cancelled in `aclose` is not told; a stream that
  is dropped without `aclose` leaves its operations open.
- A relation loaded without a limit is cut at 10,000 rows of all parents together
  without a sign (`UpToCeiling`).

## 4. What is proved

TLAPS checks the following for every value of the constants that the named
assumptions admit; TLC evaluates the same assumptions on each run.

| module | assumptions |
|---|---|
| `GraphSave` | `NoSaveAssumption` |
| `IdSpace` | `AutocommitAssumption`, `BoundsAssumption` |
| `BusinessId` | `WordAssumption`, `MixAssumption` (exclusive or undoes itself), `DigestAssumption`, `NamesAssumption` |
| `MutationPolicy` | finitely many calls (`CallsAssumption`), requests are not empty (`RequestsAssumption`) |
| `TelemetryExport` | finitely many records, positive sizes, flushes are no shutdowns (`RecordsAssumption`, `SizesAssumption`, `LifecycleAssumption`) |
| `IdSetPage` | finitely many rows with integer IDs, positive limits, `None` is nothing else (`RowsAssumption`, `PagingAssumption`, `NoneAssumption`) |
| `MCQueries` | rows have integer IDs, none of them 0, which stands for the list itself; children have ranks; there are finitely many of both; offsets, limits and the ceiling are natural numbers; a request has at most one relation (`TablesAssumption`, `RequestsAssumption`) |
| `EntitySave` | no ID is a temporary one; a list holds an object once and not its owner, and the rows at the start have the first IDs; what is in a list has none itself and is in no other; edits are bounded by a number (`IdsAssumption`, `ShapesAssumption`, `LevelsAssumption`, `BoundsAssumption`); a value that is replaced is a number and not 0, and what checkers fill in is not the ID nor the business field (`CheckersAssumption`) |
| `MCResources` | numbers are numbers, there are finitely many leases and waits, chunks have a size (`ItemsAssumption`, `TimesAssumption`, `ChunksAssumption`, `BlocksAssumption`) |

`GraphSaveProofs`: the inductive invariant says who can be where: the lock is
held by exactly the save that is inside; the session's flags, the connection and
`staged`/`durable` are functions of the position; an executed or read write is
staged as long as the connection is open; what is queued or delivered is durable or will be
committed with what is staged. From it: `TypeCorrect`, `Exclusive`,
`AuditDurability`, `ReturnedAudited`, `Verdict` and `Refinement` (every step of
GraphSave is a step or a stutter of AtomicSave).

`IdSpaceProofs`: a call writes only when no other transaction holds the row
(`LockInv`), and only above the level it sees (`LoopInv`), so the level any live
call sees never falls (`StoreEffect`, `EndInv`); every ID and floor that stands
is at or below it (`HighInv`), and an ID of an open transaction is above
everything committed (`OpenInv`). `UniqueIds` alone is not inductive: it needs
`HighInv` to know that a new ID is above all others. From it: `TypeCorrect`,
`Unique`, `Floor`, `Contention` and `Refinement`.

`BusinessIdProofs`: `PermuteUnique` shows that `_permute32` is one-to-one, round by
round, for every size of words and every digest. A number is given once, as it is
one above the level (`SeqInv`). Candidates of two walks that met, or of one walk
that came back, would have come from one candidate (`TrailInv`, `WalkInv`), and
so on back to the two numbers, since numbers are in the domain and candidates on
the way are not (`ApartInv`). From it: `TypeCorrect`, `Unique`, `Exhaustion`,
`Retries` and `WalkEnds`. That an endless walk would repeat a candidate, because
there are finitely many words, is left to the reader.

`TelemetryExportProofs`: the counters partition the records offered, those admitted
and those pending (`CountInv`); a place in the order means admitted (`OrderInv`);
what is in the SDK's queue or in a batch was not sent unless the batch is on its way
(`DequeInv`, `BatchInv`, `SentInv`); one lifecycle call at a time holds the lock, and
after an abort nothing is queued (`LockInv`, `StageInv`). `FlushHonest` needs
`OrderInv`, as records settle out of order. `CountedSafe`, `LossesSafe`, `RetiredSafe`,
`FlushSafe`, `ShutdownSafe`.

`QueriesProofs`, pages: `StoreInv` carries the limits through evictions with
cardinalities of pairs of a key and a place. A lock and its holder know each other and
its queue is of those who wait for it (`HolderInv`, `QueueInv`); a lock belongs to one
place (`PlaceInv`) and is dropped from the registry only when the set is stored or
was lost (`DroppedInv`), from which `SingleFlight` follows. `StoreSafe`,
`BuildLocksSafe`, `NobodyStuckSafe`. `PageSafe` is an action property: from `SeenInv`
(rows seen all the time are there, rows never seen are not) and lemmas about `InOrder`
and windows.

`QueriesProofs`, lists: what each SELECT of a call found out is kept as a fact about
the answer and the databases since the call began (`Told`), and everything the rows
asked for is either still in `todo` or told (`Progress`), so at the end all of it is
told. That is inductive because a SELECT disturbs nothing told before it
(`AnswerTold`): each writes a field, a row or a facet of its own, a plan loads a
relation either whole or row by row (`AskedParts`), and a facet is shown right after
it was counted. `NestedAsks` says what follows a page; `PlacesInLimits`,
`ProbeInLimits` and `WindowInLimits` that a place in the order of a row's children
is the number of those before it, so that both plans show the same children;
`WholeUpToCeiling` and `FacetTells` the same of a relation loaded whole and of a
facet. A total from a retained set needs more: sets are as long as their filter
once selected (`SetsOK`), and the mark in a context is of the one call there as long
as no two met (`MarksOK`, `Apart`). Databases only grow, so a moment once found stays
(`GoodStays`, `TotalsStay`). `AnswersSafe`.

`EntitySaveProofs`: saves that reach one object at the same time have crossed
(`Exclusive`). For an object that was not crossed, a save that writes has an ID for it
(`ReadyOK`), the command about to be executed has the object's present key (`WriteOK`),
an entry of the rollback has it too (`OldOK`), and every row the object inserted,
committed or staged, is at that key (`RowsOK`): a key that is an ID never changes.
What a save does to ledgers plays no part and stays folded. `SavedOnce`.

`OldValuesReported` rests on a second invariant, `VInv`: what an object knows of a
row is still so, or its version is too low for the row ever to match it again
(`Fits`). Versions grow away from 0 with each statement that is not recorded in
`back`, so a row that is staged or committed leaves what others know behind
(`StagedInv`, `FitsAdvance`). The knowledge is followed from an object no call has
written (`ObjectInv`) to the command built from it (`HeadInv`), to the entry of the
rollback (`EntryInv`, and `InsertInv`: an object had no version before its own row),
to what it shows after the statement (`ShownInv`), and back by `Settle` or `Undo`.
Two facts keep other calls away: an ID without a committed row is one object's
(`ClaimInv`), and of two calls that work, no object that was not crossed is in both
graphs (`LockInv`, `CrossInv`); row locks (`RowLockInv`) keep their rows apart.

`EntityLedgerProofs`: neither `NothingDropped` nor `LedgerFaithful` is inductive, since
a save moves what they speak of from ledger to ledger and from key to key before it
writes any of it. `LInv` adds what holds in between. A key of two objects is a row's,
and neither will get another (`KeysInv`); an object is in its own ledger or its
owner's (`RootsInv`); what a ledger in use says of a key comes from an object of that
ledger with that key (`SupportInv`), so merging and rekeying overwrite nothing of
another object. The ledger of an object is faithful to it (`Faithful`, in the terms of
`Holding`) until a save writes the object, a check that comes and goes included, since a
normal form is its own (`NormalTwice`); from then on it is faithful to what the entry of the rollback keeps of it
(`FaithInv`), so `Undo` restores what it needs. Of a call that works: the command about
to be executed has all that is pending (`HoldsInv`), an object written shows its row and
has nothing else pending (`ShowsInv`), and an object of the graph with something pending
was written or is still to come (`PassedInv`), which at the end is `NothingDropped`. An
object that overlapped with a save of its owner counts as touched (`MarksInv`).
The loops over a graph (`Attach`, `Check`, `CommitEntity`, `Restored`) are functions of
how many objects they have passed, so that facts about one pass carry over by induction on
that number (`AttachSteps` and its like): a pass changes one object's keys at most (`Only`, `SameAt`).
`TInv` says where values come from, that a rollback's entries have IDs and that a
reserved ID is kept; it gives the types of `LedgerFaithful`. The whole invariant is
`IInv /\ VInv /\ LInv /\ TInv`. `CommittedWhole`, `LedgersFaithful`.

`ResourcesProofs` has one section per component of `MCResources`; in a behaviour one
is in play, so each invariant is kept by its own steps.
- `WritesSafe`, `PlanSafe`, of `MutationPolicy` and hence of `MCResources`
  (`PolicyInPlay`): of each operation, what is written, what requests have been let
  through with and what is left of the plan are together (`Used`) no more than the plan
  (`PlanInv`), and exactly the plan as long as no request raised (`WholeInv`); before the
  review nothing is used (`BeforeReview`), and a plan that work returned with has nothing
  left (`SealedInv`). The lemmas are about `Taken`, how far a request gets through the
  plan, and about sums over the running calls.
- `LockSafe`: who runs a lease owns the entry, which ends with the lease (`LeaseInv`); a
  sleeper wakes by its deadline, and until then another's entry lasts (`SleepInv`).
- `ReceiptSafe`: bytes read and bytes left make up the object; an ended stream has
  nothing left and a receipt (`EndInv`), a closed one a receipt and a closed source
  (`ClosedInv`).
- `StreamSafe`: the busy flag is the one task that awaits something, and what it awaits
  is open (`BusyInv`, `PollInv`); rows delivered, fetched, pending and left make up the
  result (`OpenInv`); closed and not busy leaves nothing open (`SettledInv`).
- `StartupSafe`: one thread starts at a time and its build is not given up
  (`StarterInv`); a build's result and candidate tell how far it is (`BuildInv`); a
  running pipeline that was handed over is registered or awaited (`UseInv`).
- `JournalSafe`: a commit the database answered has committed, or a rollback was called
  and the journal is empty for good (`CommitInv`); a write in the journal or offered was
  made, is in the journal once and offered once by a commit (`EventInv`, `OnceInv`); what
  a commit has offered are the events before its place, until one of them has reached the
  end and emptied the journal (`OfferInv`); no write of a `mutate` that goes on is forgotten unless a rollback is
  called (`ReturnInv`); a commit that is over has emptied the journal (`EmptiedInv`);
  a request's own transaction commits after its `mutate` returned (`OwnInv`).

Every invariant and action property the passing runs check, and both refinements, are
stated by a theorem. Model-checked only:
- `EveryCallEnds`, `EveryCallReturns`, `LifecyclesEnd`, `ShutdownDrains`: liveness is
  out of the prover's reach.

## 5. Plan

What could still be added: forward relations and object group-bys in `TypedList`.

Not modelled and why. The bulk of the repository's lines are generated request
builders and models of the examples (one fluent method per field and operator, of
which `EntitySave` models trace-chain's save; the older save of the other examples is
left out), the text of SQL,
expressions and values, formatting, masking, i18n and references: functions
without behaviour over time, whose results unit tests compare with literals. The
TFP client, the Redis commands and the object store's service keep their state
elsewhere. The telemetry facade wraps adapters the user supplies and changes no
state. Schema creation is one statement after the other at startup. So the map
covers a small share of all lines; what it covers are the parts that keep state
over an await, a thread or a transaction.
