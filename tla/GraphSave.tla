----------------------------- MODULE GraphSave -----------------------------
(***************************************************************************)
(* UserContext.execute_graph_save and the GraphMutationSession it runs.    *)
(*                                                                         *)
(* Several asyncio tasks save graphs through one UserContext.  Each save   *)
(* takes the context's save lock, begins a transaction, hands work a       *)
(* session, and commits or rolls back; audit events queued by the writes   *)
(* are delivered after the commit.  A step of this module is the code      *)
(* between two awaits.  work is application code: it may run its writes    *)
(* one by one, concurrently, or leave them running in tasks it never       *)
(* awaits; it may let a failure of a write propagate or swallow it.        *)
(***************************************************************************)
EXTENDS Naturals

CONSTANTS
  Saves,    \* root calls of execute_graph_save on the context
  Ops,      \* the writes a save's work may request, each at most once
  NoSave

ASSUME NoSaveAssumption == NoSave \notin Saves

VARIABLES
  pc,         \* pc[s]: where the task of s stands in _execute_graph_transaction
  lock,       \* the save that holds _graph_save_lock, or NoSave
  guard,      \* guard[s]: the guard dict s put in its contextvar is active
  caller,     \* caller[s]: the save whose lineage (contextvars) s was called in
  awaited,    \* awaited[s]: the caller's work awaits s
  session,    \* session[s]: the session's _active/_committed flags as one state
  conn,       \* conn[s]: the connection of the transaction of s
  op,         \* op[s][o]: progress of transaction.mutate for write o
  staged,     \* staged[s]: writes executed inside the open transaction
  durable,    \* durable[s]: writes of s the database has committed
  queued,     \* queued[s]: session._audits
  attempts,   \* attempts[s][o]: deliveries attempted of o's audit event
  actions,    \* actions[s]: entities with registered commit and rollback actions
  accepted,   \* accepted[s]: entities whose commit action ran
  undone,     \* undone[s]: entities whose rollback action ran
  todo,       \* todo[s]: what the running loop of committed()/rolled_back() has left
  failures    \* failures[s]: a delivery or a completion action of s raised

control == <<pc, lock, guard, caller, awaited, session>>
database == <<conn, staged, durable>>
evidence == <<queued, attempts>>
completion == <<actions, accepted, undone>>
loops == <<todo, failures>>
vars == <<control, database, op, evidence, completion, loops>>

-----------------------------------------------------------------------------
Ended == {"refused", "failed", "returned", "committed_error"}
Inside == {"beginning", "work", "committing", "committed", "delivering",
           "accepting", "rollback", "undoing"}
PC == {"idle", "waiting"} \cup Inside \cup Ended
OpState == {"idle", "entered", "executed", "read", "returned", "empty", "raised"}

\* _require_active: the session still accepts work.
Writable(s) == session[s] = "active"

Init ==
  /\ pc = [s \in Saves |-> "idle"]
  /\ lock = NoSave
  /\ guard = [s \in Saves |-> FALSE]
  /\ caller = [s \in Saves |-> NoSave]
  /\ awaited = [s \in Saves |-> FALSE]
  /\ session = [s \in Saves |-> "none"]
  /\ conn = [s \in Saves |-> "none"]
  /\ op = [s \in Saves |-> [o \in Ops |-> "idle"]]
  /\ staged = [s \in Saves |-> {}]
  /\ durable = [s \in Saves |-> {}]
  /\ queued = [s \in Saves |-> {}]
  /\ attempts = [s \in Saves |-> [o \in Ops |-> 0]]
  /\ actions = [s \in Saves |-> {}]
  /\ accepted = [s \in Saves |-> {}]
  /\ undone = [s \in Saves |-> {}]
  /\ todo = [s \in Saves |-> {}]
  /\ failures = [s \in Saves |-> FALSE]

-----------------------------------------------------------------------------
(* The call *)

\* The lineage a save may be called in: none, or that of a save whose guard
\* was set (its work, or a task its work spawned).  Only work can await.
Lineage(s, p, aw) ==
  \/ p = NoSave /\ aw = FALSE
  \/ /\ p \in Saves \ {s}
     /\ pc[p] \in Inside \cup Ended /\ conn[p] # "none"
     /\ aw => pc[p] = "work"

\* The gate no longer asks whether the call re-enters an active graph.
CallReentrant(s, p, aw) ==
  /\ pc[s] = "idle"
  /\ Lineage(s, p, aw)
  /\ pc' = [pc EXCEPT ![s] = "waiting"]
  /\ caller' = [caller EXCEPT ![s] = p]
  /\ awaited' = [awaited EXCEPT ![s] = aw]
  /\ UNCHANGED <<lock, guard, session, database, op, evidence, completion, loops>>

\* The call enters the admission gate and queues for the lock ...
Call(s, p, aw) ==
  /\ pc[s] = "idle"
  /\ Lineage(s, p, aw)
  /\ p # NoSave => ~guard[p]
  /\ pc' = [pc EXCEPT ![s] = "waiting"]
  /\ caller' = [caller EXCEPT ![s] = p]
  /\ awaited' = [awaited EXCEPT ![s] = aw]
  /\ UNCHANGED <<lock, guard, session, database, op, evidence, completion, loops>>

\* ... unless it re-enters an active graph, or was made on a session's view.
Refuse(s, p, aw) ==
  /\ pc[s] = "idle"
  /\ Lineage(s, p, aw)
  /\ p # NoSave
  /\ guard[p] \/ session[p] # "none"
  /\ pc' = [pc EXCEPT ![s] = "refused"]
  /\ caller' = [caller EXCEPT ![s] = p]
  /\ awaited' = [awaited EXCEPT ![s] = aw]
  /\ UNCHANGED <<lock, guard, session, database, op, evidence, completion, loops>>

Acquire(s) ==
  /\ pc[s] = "waiting"
  /\ lock = NoSave
  /\ lock' = s
  /\ pc' = [pc EXCEPT ![s] = "beginning"]
  /\ UNCHANGED <<guard, caller, awaited, session, database, op, evidence, completion, loops>>

\* Cancelled while queued for the lock.
CancelWaiting(s) ==
  /\ pc[s] = "waiting"
  /\ pc' = [pc EXCEPT ![s] = "failed"]
  /\ UNCHANGED <<lock, guard, caller, awaited, session, database, op, evidence,
                 completion, loops>>

-----------------------------------------------------------------------------
(* begin *)

BeginOk(s) ==
  /\ pc[s] = "beginning"
  /\ conn' = [conn EXCEPT ![s] = "open"]
  /\ guard' = [guard EXCEPT ![s] = TRUE]
  /\ session' = [session EXCEPT ![s] = "active"]
  /\ pc' = [pc EXCEPT ![s] = "work"]
  /\ UNCHANGED <<lock, caller, awaited, staged, durable, op, evidence, completion, loops>>

\* begin succeeds and the session constructor raises (the business clock).
BeginNoSession(s) ==
  /\ pc[s] = "beginning"
  /\ conn' = [conn EXCEPT ![s] = "open"]
  /\ guard' = [guard EXCEPT ![s] = TRUE]
  /\ pc' = [pc EXCEPT ![s] = "rollback"]
  /\ UNCHANGED <<lock, caller, awaited, session, staged, durable, op, evidence,
                 completion, loops>>

BeginRaises(s) ==
  /\ pc[s] = "beginning"
  /\ lock' = NoSave
  /\ pc' = [pc EXCEPT ![s] = "failed"]
  /\ UNCHANGED <<guard, caller, awaited, session, database, op, evidence, completion, loops>>

-----------------------------------------------------------------------------
(* A write: transaction.mutate, called by work or by a task work spawned *)

\* SqlDataServiceTransaction._completed, as mutate sees it.
Completed(s) == pc[s] \notin {"work", "committing", "committed"}

\* mutate refuses a completed transaction and a session that is not writable,
\* which leaves no trace; otherwise the write is on its way to the provider.
Enter(s, o) ==
  /\ op[s][o] = "idle"
  /\ Writable(s)
  /\ ~Completed(s)
  /\ op' = [op EXCEPT ![s][o] = "entered"]
  /\ UNCHANGED <<control, database, evidence, completion, loops>>

\* The statement runs outside the transaction and commits by itself.
ExecuteAutocommit(s, o) ==
  /\ op[s][o] = "entered"
  /\ conn[s] = "open"
  /\ staged' = [staged EXCEPT ![s] = @ \cup {o}]
  /\ durable' = [durable EXCEPT ![s] = @ \cup {o}]
  /\ op' = [op EXCEPT ![s][o] = "executed"]
  /\ UNCHANGED <<control, conn, evidence, completion, loops>>

\* The statement runs: it affects a row, affects none, or fails.
Execute(s, o) ==
  /\ op[s][o] = "entered"
  /\ \/ /\ conn[s] = "open"
        /\ staged' = [staged EXCEPT ![s] = @ \cup {o}]
        /\ op' = [op EXCEPT ![s][o] = "executed"]
     \/ /\ conn[s] = "open"
        /\ op' = [op EXCEPT ![s][o] = "empty"]
        /\ UNCHANGED staged
     \/ /\ op' = [op EXCEPT ![s][o] = "raised"]
        /\ UNCHANGED staged
  /\ UNCHANGED <<control, conn, durable, evidence, completion, loops>>

\* The authoritative readback of the written row.
Readback(s, o) ==
  /\ op[s][o] = "executed"
  /\ \/ /\ conn[s] = "open"
        /\ op' = [op EXCEPT ![s][o] = "read"]
     \/ op' = [op EXCEPT ![s][o] = "raised"]
  /\ UNCHANGED <<control, database, evidence, completion, loops>>

\* The audit event is delivered while the transaction is still open.
FinishUnqueued(s, o) ==
  /\ op[s][o] = "read"
  /\ Writable(s)
  /\ attempts' = [attempts EXCEPT ![s][o] = @ + 1]
  /\ actions' = [actions EXCEPT ![s] = @ \cup {o}]
  /\ op' = [op EXCEPT ![s][o] = "returned"]
  /\ UNCHANGED <<control, database, queued, accepted, undone, loops>>

\* The audit event is queued without asking whether the session accepts it.
FinishUnchecked(s, o) ==
  /\ op[s][o] = "read"
  /\ queued' = [queued EXCEPT ![s] = @ \cup {o}]
  /\ actions' = [actions EXCEPT ![s] = @ \cup {o}]
  /\ op' = [op EXCEPT ![s][o] = "returned"]
  /\ UNCHANGED <<control, database, attempts, accepted, undone, loops>>

\* The audit event is queued, mutate returns, and the caller registers the
\* entity's rollback and commit actions, all before the next await.
Finish(s, o) ==
  /\ op[s][o] = "read"
  /\ \/ /\ Writable(s)
        /\ queued' = [queued EXCEPT ![s] = @ \cup {o}]
        /\ actions' = [actions EXCEPT ![s] = @ \cup {o}]
        /\ op' = [op EXCEPT ![s][o] = "returned"]
     \/ /\ ~Writable(s)
        /\ op' = [op EXCEPT ![s][o] = "raised"]
        /\ UNCHANGED <<queued, actions>>
  /\ UNCHANGED <<control, database, attempts, accepted, undone, loops>>

-----------------------------------------------------------------------------
(* The end of the work *)

WorkDone(s) ==
  /\ pc[s] = "work"
  /\ \A n \in Saves : caller[n] = s /\ awaited[n] => pc[n] \in Ended

\* work returned and the reviewed plan is complete.
WorkReturns(s) ==
  /\ WorkDone(s)
  /\ pc' = [pc EXCEPT ![s] = "committing"]
  /\ UNCHANGED <<lock, guard, caller, awaited, session, database, op, evidence,
                 completion, loops>>

\* work raised or was cancelled, or the reviewed plan is incomplete.
WorkRaises(s) ==
  /\ WorkDone(s)
  /\ pc' = [pc EXCEPT ![s] = "rollback"]
  /\ UNCHANGED <<lock, guard, caller, awaited, session, database, op, evidence,
                 completion, loops>>

\* The database commits; the task that awaits the commit has not resumed yet.
DbCommit(s) ==
  /\ pc[s] = "committing"
  /\ durable' = [durable EXCEPT ![s] = staged[s]]
  /\ conn' = [conn EXCEPT ![s] = "closed"]
  /\ pc' = [pc EXCEPT ![s] = "committed"]
  /\ UNCHANGED <<lock, guard, caller, awaited, session, staged, op, evidence,
                 completion, loops>>

CommitFails(s) ==
  /\ pc[s] = "committing"
  /\ conn' = [conn EXCEPT ![s] = "closed"]
  /\ pc' = [pc EXCEPT ![s] = "rollback"]
  /\ UNCHANGED <<lock, guard, caller, awaited, session, staged, durable, op, evidence,
                 completion, loops>>

\* The await of the commit raises although the database committed: the task
\* is cancelled there, or the answer is lost.
CommitUnconfirmed(s) ==
  /\ pc[s] = "committed"
  /\ pc' = [pc EXCEPT ![s] = "rollback"]
  /\ UNCHANGED <<lock, guard, caller, awaited, session, database, op, evidence,
                 completion, loops>>

-----------------------------------------------------------------------------
(* Completion after the commit, and after the rollback *)

\* The commit returned: committed() marks the session before its first await.
CommitReturns(s) ==
  /\ pc[s] = "committed"
  /\ session' = [session EXCEPT ![s] = "committed"]
  /\ todo' = [todo EXCEPT ![s] = queued[s]]
  /\ pc' = [pc EXCEPT ![s] = "delivering"]
  /\ UNCHANGED <<lock, guard, caller, awaited, database, op, evidence, completion, failures>>

\* A failing sink raises out of the transaction, which then rolls back.
DeliverUncaught(s, o) ==
  /\ pc[s] = "delivering"
  /\ o \in todo[s]
  /\ attempts' = [attempts EXCEPT ![s][o] = @ + 1]
  /\ \/ /\ todo' = [todo EXCEPT ![s] = @ \ {o}]
        /\ UNCHANGED pc
     \/ /\ todo' = [todo EXCEPT ![s] = {}]
        /\ pc' = [pc EXCEPT ![s] = "rollback"]
  /\ UNCHANGED <<lock, guard, caller, awaited, session, database, op, queued, completion,
                 failures>>

\* An event whose sink failed stays in the loop and is offered again.
DeliverKept(s, o) ==
  /\ pc[s] = "delivering"
  /\ o \in todo[s]
  /\ attempts' = [attempts EXCEPT ![s][o] = @ + 1]
  /\ \/ /\ todo' = [todo EXCEPT ![s] = @ \ {o}]
        /\ UNCHANGED failures
     \/ /\ failures' = [failures EXCEPT ![s] = TRUE]
        /\ UNCHANGED todo
  /\ UNCHANGED <<control, database, op, queued, completion>>

\* One audit event is offered to every sink; a failure is kept, not raised.
Deliver(s, o) ==
  /\ pc[s] = "delivering"
  /\ o \in todo[s]
  /\ attempts' = [attempts EXCEPT ![s][o] = @ + 1]
  /\ todo' = [todo EXCEPT ![s] = @ \ {o}]
  /\ \E raised \in BOOLEAN : failures' = [failures EXCEPT ![s] = @ \/ raised]
  /\ UNCHANGED <<control, database, op, queued, completion>>

Delivered(s) ==
  /\ pc[s] = "delivering"
  /\ todo[s] = {}
  /\ todo' = [todo EXCEPT ![s] = actions[s]]
  /\ pc' = [pc EXCEPT ![s] = "accepting"]
  /\ UNCHANGED <<lock, guard, caller, awaited, session, database, op, evidence,
                 completion, failures>>

\* One commit action: the entity accepts the state it wrote.
Accept(s, o) ==
  /\ pc[s] = "accepting"
  /\ o \in todo[s]
  /\ accepted' = [accepted EXCEPT ![s] = @ \cup {o}]
  /\ todo' = [todo EXCEPT ![s] = @ \ {o}]
  /\ \E raised \in BOOLEAN : failures' = [failures EXCEPT ![s] = @ \/ raised]
  /\ UNCHANGED <<control, database, op, evidence, actions, undone>>

\* The finally block, session.close() and the release of the lock.
Leave(s, outcome) ==
  /\ pc' = [pc EXCEPT ![s] = outcome]
  /\ guard' = [guard EXCEPT ![s] = FALSE]
  /\ lock' = NoSave
  /\ IF session[s] = "none"
       THEN UNCHANGED <<session, queued, actions>>
       ELSE /\ session' = [session EXCEPT ![s] = "closed"]
            /\ queued' = [queued EXCEPT ![s] = {}]
            /\ actions' = [actions EXCEPT ![s] = {}]
  /\ UNCHANGED <<caller, awaited, durable, op, attempts, accepted, failures>>

Complete(s) ==
  /\ pc[s] = "accepting"
  /\ todo[s] = {}
  /\ Leave(s, IF failures[s] THEN "committed_error" ELSE "returned")
  /\ UNCHANGED <<conn, staged, undone, todo>>

\* transaction.rollback (its own failure is swallowed); rolled_back() then
\* drops the audit events before its first await.
Rollback(s) ==
  /\ pc[s] = "rollback"
  /\ conn' = [conn EXCEPT ![s] = "closed"]
  /\ staged' = [staged EXCEPT ![s] = {}]
  /\ \/ /\ session[s] # "none"
        /\ queued' = [queued EXCEPT ![s] = {}]
        /\ todo' = [todo EXCEPT ![s] = actions[s]]
        /\ pc' = [pc EXCEPT ![s] = "undoing"]
        /\ UNCHANGED <<lock, guard, caller, awaited, session, durable, op, attempts,
                       actions, accepted, failures>>
     \/ /\ session[s] = "none"
        /\ Leave(s, "failed")
        /\ UNCHANGED todo
  /\ UNCHANGED undone

\* One rollback action: the entity returns to what it was before the save.
Undo(s, o) ==
  /\ pc[s] = "undoing"
  /\ o \in todo[s]
  /\ undone' = [undone EXCEPT ![s] = @ \cup {o}]
  /\ todo' = [todo EXCEPT ![s] = @ \ {o}]
  /\ UNCHANGED <<control, database, op, evidence, actions, accepted, failures>>

UndoEnds(s) ==
  /\ pc[s] = "undoing"
  /\ todo[s] = {}
  /\ Leave(s, "failed")
  /\ UNCHANGED <<conn, staged, undone, todo>>

-----------------------------------------------------------------------------
\* What the task of s does by itself, once called.
Step(s) ==
  \/ Acquire(s)
  \/ BeginOk(s) \/ BeginNoSession(s) \/ BeginRaises(s)
  \/ WorkReturns(s) \/ WorkRaises(s)
  \/ DbCommit(s) \/ CommitFails(s) \/ CommitUnconfirmed(s) \/ CommitReturns(s)
  \/ \E o \in Ops : Deliver(s, o) \/ Accept(s, o) \/ Undo(s, o)
  \/ Delivered(s) \/ Complete(s) \/ Rollback(s) \/ UndoEnds(s)

Write(s) == \E o \in Ops : Enter(s, o) \/ Execute(s, o) \/ Readback(s, o) \/ Finish(s, o)

Calls(s) ==
  \E p \in Saves \cup {NoSave}, aw \in BOOLEAN : Call(s, p, aw) \/ Refuse(s, p, aw)

Next == \E s \in Saves : Calls(s) \/ CancelWaiting(s) \/ Write(s) \/ Step(s)

\* A called save keeps running: asyncio resumes a task whose await is done,
\* and the provider, the sinks and work answer eventually.
Fairness == \A s \in Saves : WF_vars(Step(s))

Spec == Init /\ [][Next]_vars
FairSpec == Spec /\ Fairness

-----------------------------------------------------------------------------
TypeOK ==
  /\ pc \in [Saves -> PC]
  /\ lock \in Saves \cup {NoSave}
  /\ guard \in [Saves -> BOOLEAN]
  /\ caller \in [Saves -> Saves \cup {NoSave}]
  /\ awaited \in [Saves -> BOOLEAN]
  /\ session \in [Saves -> {"none", "active", "committed", "closed"}]
  /\ conn \in [Saves -> {"none", "open", "closed"}]
  /\ op \in [Saves -> [Ops -> OpState]]
  /\ staged \in [Saves -> SUBSET Ops]
  /\ durable \in [Saves -> SUBSET Ops]
  /\ queued \in [Saves -> SUBSET Ops]
  /\ attempts \in [Saves -> [Ops -> 0..1]]
  /\ actions \in [Saves -> SUBSET Ops]
  /\ accepted \in [Saves -> SUBSET Ops]
  /\ undone \in [Saves -> SUBSET Ops]
  /\ todo \in [Saves -> SUBSET Ops]
  /\ failures \in [Saves -> BOOLEAN]

\* Rollback evidence never escapes: an audit event is delivered only for a
\* write the database has committed, however the tasks interleave (queue_audit,
\* committed, rolled_back).
AuditOnlyDurable ==
  \A s \in Saves, o \in Ops : attempts[s][o] > 0 => o \in durable[s]

\* A write whose mutate call returned to its caller is never lost silently:
\* when the save has ended with a commit, the write is durable, its audit event
\* was attempted exactly once and its commit action ran.  This covers writes of
\* tasks that work left running (queue_audit's and after_commit's guards).
ReturnedWritesAudited ==
  \A s \in Saves, o \in Ops :
    pc[s] \in {"returned", "committed_error"} /\ op[s][o] = "returned"
      => o \in durable[s] /\ attempts[s][o] = 1 /\ o \in accepted[s]

\* The verdict is truthful about completion: a save that ends as failed sent no
\* audit event and accepted no entity state, a save that ends as committed undid
\* none (failures after the commit never start a rollback).
VerdictTruthful ==
  \A s \in Saves :
    /\ pc[s] = "failed" => accepted[s] = {} /\ \A o \in Ops : attempts[s][o] = 0
    /\ pc[s] \in {"returned", "committed_error"} => undone[s] = {}

\* Application mutation audits are delivered after commit and discarded on
\* rollback: a write that is durable when its save has ended, and whose mutate
\* call returned, has had its audit event sent.
CommittedWritesAnnounced ==
  \A s \in Saves, o \in Ops :
    pc[s] \in Ended /\ o \in durable[s] /\ op[s][o] = "returned" => attempts[s][o] > 0

\* Every called save ends: queued saves get the lock, and a save called from
\* inside another is refused instead of waiting for the lock its own caller holds.
EveryCallEnds == \A s \in Saves : (pc[s] # "idle") ~> (pc[s] \in Ended)

-----------------------------------------------------------------------------
(* GraphSave implements AtomicSave *)

PhaseOf(s) ==
  CASE pc[s] = "committed" -> "committed"
    [] pc[s] \in {"delivering", "accepting"} -> "acknowledged"
    [] pc[s] \in {"returned", "committed_error"} -> "closed"
    [] pc[s] \in {"rollback", "undoing", "failed", "refused"} ->
         IF durable[s] = {} THEN "aborted" ELSE "lost"
    [] OTHER -> "open"

Announced(s) == {o \in Ops : attempts[s][o] > 0}

Abstract == INSTANCE AtomicSave WITH
  phase <- [s \in Saves |-> PhaseOf(s)],
  announced <- [s \in Saves |-> Announced(s)]

\* Seen from outside, a graph save is atomic: its writes become durable in one
\* step, audit events follow durable writes and are sent once, and the caller
\* is answered after the decision (_execute_graph_transaction as a whole).
ImplementsAtomicSave == Abstract!Spec
=============================================================================
