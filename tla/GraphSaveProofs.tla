-------------------------- MODULE GraphSaveProofs --------------------------
(***************************************************************************)
(* GraphSave's safety properties for every set of saves and of writes.     *)
(*                                                                         *)
(* The inductive invariant follows a write through the phases of its save: *)
(* while the transaction is open a written row is staged, after the commit *)
(* the staged writes are the durable ones, and audit events leave the      *)
(* queue only between the two ends of the delivery loop.                   *)
(***************************************************************************)
EXTENDS GraphSave, TLAPS

\* The transaction has not been decided, or its commit is unanswered.
Undecided == {"work", "committing", "committed"}
\* committed() has begun.
Completing == {"delivering", "accepting", "returned", "committed_error"}

\* The save that has the lock is the only one between begin and end.
LockInv == \A s \in Saves : pc[s] \in Inside => lock = s

\* Where the connection and the session stand in each phase.
PhaseInv ==
  \A s \in Saves :
    /\ conn[s] = "open" => pc[s] \in {"work", "committing", "rollback"}
    /\ pc[s] \in Undecided => session[s] = "active"
    /\ pc[s] \in {"delivering", "accepting"} => session[s] = "committed"
    /\ session[s] = "active" => pc[s] \in Undecided \cup {"rollback", "undoing"}
    /\ pc[s] \in {"idle", "waiting", "beginning", "refused"} => conn[s] = "none"

\* A written row is staged until the rollback, and what is durable was staged.
RowInv ==
  \A s \in Saves, o \in Ops :
    /\ op[s][o] \in {"executed", "read", "returned"} /\ pc[s] \notin {"undoing", "failed"}
         => o \in staged[s]
    /\ pc[s] \in Completing \cup {"committed"} => durable[s] = staged[s]
    /\ pc[s] \in {"idle", "waiting", "beginning", "work", "committing", "refused"}
         => durable[s] = {}
    /\ pc[s] \in {"idle", "waiting", "beginning", "refused"} => op[s][o] = "idle"

\* An audit event is queued by a write that returned, and leaves after the commit.
AuditInv ==
  \A s \in Saves, o \in Ops :
    /\ attempts[s][o] > 0 => pc[s] \in Completing /\ o \in durable[s]
    /\ o \in queued[s] => op[s][o] = "returned"
    /\ pc[s] \in Undecided /\ op[s][o] = "returned" => o \in queued[s] /\ o \in actions[s]
    /\ pc[s] = "delivering" =>
         /\ o \in todo[s] => op[s][o] = "returned" /\ attempts[s][o] = 0
         /\ op[s][o] = "returned" =>
              o \in actions[s] /\ (o \in todo[s] \/ attempts[s][o] = 1)
    /\ pc[s] = "accepting" /\ op[s][o] = "returned" =>
         attempts[s][o] = 1 /\ (o \in todo[s] \/ o \in accepted[s])

\* The entities are accepted on one path and undone on the other.
EntityInv ==
  \A s \in Saves :
    /\ accepted[s] # {} => pc[s] \in {"accepting", "returned", "committed_error"}
    /\ undone[s] # {} => pc[s] \in {"undoing", "failed"}

IInv ==
  /\ TypeOK /\ LockInv /\ PhaseInv /\ RowInv /\ AuditInv /\ EntityInv
  /\ ReturnedWritesAudited

-----------------------------------------------------------------------------
(* The initial states *)

USE DEF PC, Inside, Ended, OpState, Undecided, Completing

LEMMA InitInv == Init => IInv
<1> SUFFICES ASSUME Init PROVE IInv
  OBVIOUS
<1>1. TypeOK
  BY DEF Init, TypeOK
<1>2. LockInv /\ PhaseInv /\ RowInv
  BY DEF Init, LockInv, PhaseInv, RowInv
<1>3. AuditInv /\ EntityInv /\ ReturnedWritesAudited
  BY DEF Init, AuditInv, EntityInv, ReturnedWritesAudited
<1> QED
  BY <1>1, <1>2, <1>3 DEF IInv

-----------------------------------------------------------------------------
(* The steps, phase by phase *)

\* The gate and the lock: no save gets past "waiting" while another is inside.
LEMMA AdmissionInv ==
  ASSUME IInv, NEW s \in Saves
  PROVE  /\ \A p \in Saves \cup {NoSave}, aw \in BOOLEAN : Call(s, p, aw) => IInv'
         /\ \A p \in Saves \cup {NoSave}, aw \in BOOLEAN : Refuse(s, p, aw) => IInv'
         /\ Acquire(s) => IInv'
         /\ CancelWaiting(s) => IInv'
<1> USE NoSaveAssumption DEF IInv, TypeOK, LockInv, PhaseInv, RowInv, AuditInv, EntityInv, ReturnedWritesAudited
<1>1. \A p \in Saves \cup {NoSave}, aw \in BOOLEAN : Call(s, p, aw) => IInv'
  BY DEF Call, database, evidence, completion, loops, Lineage
<1>2. \A p \in Saves \cup {NoSave}, aw \in BOOLEAN : Refuse(s, p, aw) => IInv'
  BY DEF Refuse, database, evidence, completion, loops, Lineage
<1>3. Acquire(s) => IInv'
  BY DEF Acquire, database, evidence, completion, loops
<1>4. CancelWaiting(s) => IInv'
  BY DEF CancelWaiting, database, evidence, completion, loops
<1> QED
  BY <1>1, <1>2, <1>3, <1>4

\* A session begins with no write on its way: nothing can be missing from it.
LEMMA BeginOkInv ==
  ASSUME IInv, NEW s \in Saves, BeginOk(s)
  PROVE  IInv'
<1> USE DEF IInv, BeginOk, evidence, completion, loops
<1>1. TypeOK'
  BY DEF TypeOK
<1>2. LockInv' /\ PhaseInv'
  BY DEF LockInv, PhaseInv, TypeOK
<1>3. \A o \in Ops : op[s][o] = "idle"
  BY DEF RowInv
<1>4. RowInv' /\ EntityInv'
  BY DEF RowInv, EntityInv, TypeOK
<1>5. AuditInv'
  BY <1>3 DEF AuditInv, TypeOK
<1>6. ReturnedWritesAudited'
  BY DEF ReturnedWritesAudited, TypeOK
<1> QED
  BY <1>1, <1>2, <1>4, <1>5, <1>6

\* The two ways begin fails.
LEMMA BeginRaisesInv ==
  ASSUME IInv, NEW s \in Saves
  PROVE  /\ BeginNoSession(s) => IInv'
         /\ BeginRaises(s) => IInv'
<1> USE NoSaveAssumption DEF IInv, TypeOK, LockInv, PhaseInv, RowInv, AuditInv, EntityInv, ReturnedWritesAudited
<1>1. BeginNoSession(s) => IInv'
  BY DEF BeginNoSession, evidence, completion, loops
<1>2. BeginRaises(s) => IInv'
  BY DEF BeginRaises, database, evidence, completion, loops
<1> QED
  BY <1>1, <1>2

\* A write starts.
LEMMA EnterInv ==
  ASSUME IInv, NEW s \in Saves
  PROVE  /\ \A o \in Ops : Enter(s, o) => IInv'
<1> USE NoSaveAssumption DEF IInv, TypeOK, LockInv, PhaseInv, RowInv, AuditInv, EntityInv, ReturnedWritesAudited
<1>1. \A o \in Ops : Enter(s, o) => IInv'
  BY DEF Enter, control, database, evidence, completion, loops, Completed, Writable
<1> QED
  BY <1>1

\* A row is written while the connection is open, so before the commit, or not at all.
LEMMA ExecuteInv ==
  ASSUME IInv, NEW s \in Saves, NEW o \in Ops, Execute(s, o)
  PROVE  IInv'
<1> USE DEF IInv, RowInv, AuditInv, control, database, evidence, completion, loops
<1>1. CASE op' = [op EXCEPT ![s][o] = "executed"] /\ conn[s] = "open"
           /\ staged' = [staged EXCEPT ![s] = @ \cup {o}]
  <2>1. /\ op' \in [Saves -> [Ops -> OpState]]
        /\ \A t \in Saves, q \in Ops :
              op'[t][q] = IF t = s /\ q = o THEN "executed" ELSE op[t][q]
    BY <1>1 DEF TypeOK
  <2>2. TypeOK'
    BY <1>1, <2>1 DEF TypeOK, Execute
  <2>3. LockInv' /\ PhaseInv' /\ EntityInv'
    BY DEF LockInv, PhaseInv, EntityInv, Execute
  <2>4. RowInv'
    BY <1>1, <2>1 DEF TypeOK, Execute, PhaseInv
  <2>5. AuditInv'
    BY <1>1, <2>1 DEF TypeOK, Execute, PhaseInv
  <2>6. ReturnedWritesAudited'
    BY <1>1, <2>1 DEF TypeOK, Execute, PhaseInv, ReturnedWritesAudited
  <2> QED
    BY <2>2, <2>3, <2>4, <2>5, <2>6
<1>2. ASSUME NEW v \in {"empty", "raised"}, op' = [op EXCEPT ![s][o] = v],
             staged' = staged
      PROVE  IInv'
  <2>1. /\ op' \in [Saves -> [Ops -> OpState]]
        /\ \A t \in Saves, q \in Ops :
              op'[t][q] = IF t = s /\ q = o THEN v ELSE op[t][q]
    BY <1>2 DEF TypeOK
  <2>2. TypeOK'
    BY <1>2, <2>1 DEF TypeOK, Execute
  <2>3. LockInv' /\ PhaseInv' /\ EntityInv'
    BY DEF LockInv, PhaseInv, EntityInv, Execute
  <2>4. RowInv'
    BY <1>2, <2>1 DEF TypeOK, Execute
  <2>5. AuditInv'
    BY <1>2, <2>1 DEF TypeOK, Execute
  <2>6. ReturnedWritesAudited'
    BY <1>2, <2>1 DEF TypeOK, Execute, ReturnedWritesAudited
  <2> QED
    BY <2>2, <2>3, <2>4, <2>5, <2>6
<1> QED
  BY <1>1, <1>2 DEF Execute

\* The readback changes neither the rows nor the queue.
LEMMA ReadbackInv ==
  ASSUME IInv, NEW s \in Saves, NEW o \in Ops, Readback(s, o)
  PROVE  IInv'
<1> USE DEF IInv
<1>1. PICK v \in {"read", "raised"} : op' = [op EXCEPT ![s][o] = v]
  BY DEF Readback
<1>2. op[s][o] = "executed" /\ UNCHANGED <<control, database, evidence, completion, loops>>
  BY DEF Readback
<1>3. /\ op' \in [Saves -> [Ops -> OpState]]
      /\ \A t \in Saves, q \in Ops :
            op'[t][q] = IF t = s /\ q = o THEN v ELSE op[t][q]
  BY <1>1 DEF TypeOK
<1> USE DEF control, database, evidence, completion, loops
<1>4. TypeOK'
  BY <1>2, <1>3 DEF TypeOK
<1>5. LockInv' /\ PhaseInv' /\ EntityInv'
  BY <1>2 DEF LockInv, PhaseInv, EntityInv
<1>6. RowInv'
  BY <1>2, <1>3 DEF RowInv
<1>7. AuditInv'
  BY <1>2, <1>3 DEF AuditInv
<1>8. ReturnedWritesAudited'
  BY <1>2, <1>3 DEF ReturnedWritesAudited
<1> QED
  BY <1>4, <1>5, <1>6, <1>7, <1>8

\* A write returns only into a session whose commit has not been answered, and
\* takes its audit event and its actions with it; otherwise it raises.
LEMMA FinishInv ==
  ASSUME IInv, NEW s \in Saves, NEW o \in Ops, Finish(s, o)
  PROVE  IInv'
<1> USE DEF IInv
<1>1. op[s][o] = "read" /\ UNCHANGED <<control, database, attempts, accepted, undone, loops>>
  BY DEF Finish
<1>2. CASE /\ Writable(s)
           /\ queued' = [queued EXCEPT ![s] = @ \cup {o}]
           /\ actions' = [actions EXCEPT ![s] = @ \cup {o}]
           /\ op' = [op EXCEPT ![s][o] = "returned"]
  <2>1. /\ op' \in [Saves -> [Ops -> OpState]]
        /\ \A t \in Saves, q \in Ops :
              op'[t][q] = IF t = s /\ q = o THEN "returned" ELSE op[t][q]
    BY <1>2 DEF TypeOK
  <2> USE DEF control, database, loops
  <2>2. TypeOK'
    BY <1>1, <1>2, <2>1 DEF TypeOK
  <2>3. LockInv' /\ PhaseInv' /\ EntityInv'
    BY <1>1 DEF LockInv, PhaseInv, EntityInv
  <2>4. RowInv'
    BY <1>1, <2>1 DEF RowInv
  <2>5. AuditInv'
    BY <1>1, <1>2, <2>1 DEF AuditInv, TypeOK, PhaseInv, Writable
  <2>6. ReturnedWritesAudited'
    BY <1>1, <1>2, <2>1 DEF ReturnedWritesAudited, PhaseInv, Writable
  <2> QED
    BY <2>2, <2>3, <2>4, <2>5, <2>6
<1>3. CASE op' = [op EXCEPT ![s][o] = "raised"] /\ UNCHANGED <<queued, actions>>
  <2>1. /\ op' \in [Saves -> [Ops -> OpState]]
        /\ \A t \in Saves, q \in Ops :
              op'[t][q] = IF t = s /\ q = o THEN "raised" ELSE op[t][q]
    BY <1>3 DEF TypeOK
  <2> USE DEF control, database, loops
  <2>2. TypeOK'
    BY <1>1, <1>3, <2>1 DEF TypeOK
  <2>3. LockInv' /\ PhaseInv' /\ EntityInv'
    BY <1>1 DEF LockInv, PhaseInv, EntityInv
  <2>4. RowInv'
    BY <1>1, <2>1 DEF RowInv
  <2>5. AuditInv'
    BY <1>1, <1>3, <2>1 DEF AuditInv
  <2>6. ReturnedWritesAudited'
    BY <1>1, <1>3, <2>1 DEF ReturnedWritesAudited
  <2> QED
    BY <2>2, <2>3, <2>4, <2>5, <2>6
<1> QED
  BY <1>2, <1>3 DEF Finish

\* The end of the work and the commit.
LEMMA CommitInv ==
  ASSUME IInv, NEW s \in Saves
  PROVE  /\ WorkReturns(s) => IInv'
         /\ WorkRaises(s) => IInv'
         /\ DbCommit(s) => IInv'
         /\ CommitFails(s) => IInv'
         /\ CommitUnconfirmed(s) => IInv'
         /\ CommitReturns(s) => IInv'
<1> USE NoSaveAssumption DEF IInv, TypeOK, LockInv, PhaseInv, RowInv, AuditInv, EntityInv, ReturnedWritesAudited
<1> DEFINE AtWork == pc[s] = "work"
<1>0. WorkDone(s) => AtWork
  BY DEF WorkDone
<1>1. WorkReturns(s) => IInv'
  BY <1>0 DEF WorkReturns, database, evidence, completion, loops
<1>2. WorkRaises(s) => IInv'
  BY <1>0 DEF WorkRaises, database, evidence, completion, loops
<1>3. DbCommit(s) => IInv'
  BY DEF DbCommit, evidence, completion, loops
<1>4. CommitFails(s) => IInv'
  BY DEF CommitFails, evidence, completion, loops
<1>5. CommitUnconfirmed(s) => IInv'
  BY DEF CommitUnconfirmed, database, evidence, completion, loops
<1>6. CommitReturns(s) => IInv'
  BY DEF CommitReturns, database, evidence, completion
<1> QED
  BY <1>1, <1>2, <1>3, <1>4, <1>5, <1>6

\* The loops after the commit.
LEMMA DeliveryInv ==
  ASSUME IInv, NEW s \in Saves
  PROVE  /\ \A o \in Ops : Deliver(s, o) => IInv'
         /\ Delivered(s) => IInv'
         /\ \A o \in Ops : Accept(s, o) => IInv'
         /\ \A o \in Ops : Undo(s, o) => IInv'
<1> USE NoSaveAssumption DEF IInv, TypeOK, LockInv, PhaseInv, RowInv, AuditInv, EntityInv, ReturnedWritesAudited
<1>1. \A o \in Ops : Deliver(s, o) => IInv'
  BY DEF Deliver, control, database, completion
<1>2. Delivered(s) => IInv'
  BY DEF Delivered, database, evidence, completion
<1>3. \A o \in Ops : Accept(s, o) => IInv'
  BY DEF Accept, control, database, evidence
<1>4. \A o \in Ops : Undo(s, o) => IInv'
  BY DEF Undo, control, database, evidence
<1> QED
  BY <1>1, <1>2, <1>3, <1>4

\* The finally block and session.close(), used by the three actions that end a save.
LEMMA LeaveEffect ==
  ASSUME TypeOK, NEW s \in Saves, NEW outcome \in Ended, Leave(s, outcome)
  PROVE  /\ pc' = [pc EXCEPT ![s] = outcome] /\ pc' \in [Saves -> PC]
         /\ lock' = NoSave
         /\ guard' \in [Saves -> BOOLEAN]
         /\ session' \in [Saves -> {"none", "active", "committed", "closed"}]
         /\ session'[s] \in {"none", "closed"}
         /\ \A t \in Saves \ {s} : /\ session'[t] = session[t] /\ queued'[t] = queued[t]
                                   /\ actions'[t] = actions[t]
         /\ queued' \in [Saves -> SUBSET Ops] /\ queued'[s] \subseteq queued[s]
         /\ actions' \in [Saves -> SUBSET Ops]
         /\ UNCHANGED <<caller, awaited, durable, op, attempts, accepted, failures>>
<1>1. pc' \in [Saves -> PC] /\ guard' \in [Saves -> BOOLEAN]
  BY DEF TypeOK, Leave
<1>2. CASE session[s] = "none"
  BY <1>1, <1>2 DEF TypeOK, Leave
<1>3. CASE session[s] # "none"
  <2>1. /\ session' = [session EXCEPT ![s] = "closed"]
        /\ queued' = [queued EXCEPT ![s] = {}]
        /\ actions' = [actions EXCEPT ![s] = {}]
    BY <1>3 DEF Leave
  <2>2. /\ pc' = [pc EXCEPT ![s] = outcome]
        /\ lock' = NoSave
        /\ UNCHANGED <<caller, awaited, durable, op, attempts, accepted, failures>>
    BY DEF Leave
  <2>3. /\ session \in [Saves -> {"none", "active", "committed", "closed"}]
        /\ queued \in [Saves -> SUBSET Ops] /\ actions \in [Saves -> SUBSET Ops]
    BY DEF TypeOK
  <2> QED
    BY <1>1, <2>1, <2>2, <2>3
<1> QED
  BY <1>2, <1>3

\* A committed save leaves when every entity it wrote has accepted its state.
LEMMA CompleteInv ==
  ASSUME IInv, NEW s \in Saves, Complete(s)
  PROVE  IInv'
<1> USE DEF IInv
<1>1. PICK outcome \in {"returned", "committed_error"} : Leave(s, outcome)
  BY DEF Complete
<1>2. pc[s] = "accepting" /\ todo[s] = {} /\ UNCHANGED <<conn, staged, undone, todo>>
  BY DEF Complete
<1>3. /\ pc' = [pc EXCEPT ![s] = outcome] /\ lock' = NoSave
      /\ session'[s] \in {"none", "closed"} /\ queued'[s] \subseteq queued[s]
      /\ \A t \in Saves \ {s} : /\ session'[t] = session[t] /\ queued'[t] = queued[t]
                                /\ actions'[t] = actions[t]
      /\ UNCHANGED <<caller, awaited, durable, op, attempts, accepted, failures>>
  BY <1>1, LeaveEffect
<1>4. TypeOK'
  BY <1>1, <1>2, LeaveEffect DEF TypeOK
<1>5. pc \in [Saves -> PC]
  BY DEF TypeOK
<1>6. LockInv'
  BY <1>2, <1>3, <1>5 DEF LockInv
<1>7. PhaseInv'
  BY <1>2, <1>3, <1>5 DEF PhaseInv
<1>8. RowInv' /\ EntityInv'
  BY <1>2, <1>3, <1>5 DEF RowInv, EntityInv
<1>9. AuditInv'
  BY <1>2, <1>3, <1>5 DEF AuditInv
<1>10. ReturnedWritesAudited'
  BY <1>2, <1>3, <1>5 DEF ReturnedWritesAudited, AuditInv, RowInv
<1> QED
  BY <1>4, <1>6, <1>7, <1>8, <1>9, <1>10

\* The rollback, with a session to roll back and without.
LEMMA RollbackInv ==
  ASSUME IInv, NEW s \in Saves, Rollback(s)
  PROVE  IInv'
<1> USE DEF IInv
<1>1. /\ pc[s] = "rollback"
      /\ conn' = [conn EXCEPT ![s] = "closed"]
      /\ staged' = [staged EXCEPT ![s] = {}]
      /\ undone' = undone
  BY DEF Rollback
<1>2. CASE /\ session[s] # "none"
           /\ queued' = [queued EXCEPT ![s] = {}]
           /\ todo' = [todo EXCEPT ![s] = actions[s]]
           /\ pc' = [pc EXCEPT ![s] = "undoing"]
           /\ UNCHANGED <<lock, guard, caller, awaited, session, durable, op, attempts,
                          actions, accepted, failures>>
  <2>1. TypeOK'
    BY <1>1, <1>2 DEF TypeOK
  <2>2. LockInv' /\ PhaseInv'
    BY <1>1, <1>2 DEF LockInv, PhaseInv, TypeOK
  <2>3. RowInv' /\ EntityInv'
    BY <1>1, <1>2 DEF RowInv, EntityInv, TypeOK
  <2>4. AuditInv' /\ ReturnedWritesAudited'
    BY <1>1, <1>2 DEF AuditInv, ReturnedWritesAudited, TypeOK
  <2> QED
    BY <2>1, <2>2, <2>3, <2>4
<1>3. CASE session[s] = "none" /\ Leave(s, "failed") /\ UNCHANGED todo
  <2>1. /\ pc' = [pc EXCEPT ![s] = "failed"] /\ lock' = NoSave
        /\ session'[s] \in {"none", "closed"} /\ queued'[s] \subseteq queued[s]
        /\ \A t \in Saves \ {s} : /\ session'[t] = session[t] /\ queued'[t] = queued[t]
                                  /\ actions'[t] = actions[t]
        /\ UNCHANGED <<caller, awaited, durable, op, attempts, accepted, failures>>
    BY <1>3, LeaveEffect
  <2>2. TypeOK'
    BY <1>1, <1>3, LeaveEffect DEF TypeOK
  <2>3. pc \in [Saves -> PC]
    BY DEF TypeOK
  <2>4. LockInv' /\ PhaseInv'
    BY <1>1, <2>1, <2>3 DEF LockInv, PhaseInv, TypeOK
  <2>5. RowInv' /\ EntityInv'
    BY <1>1, <2>1, <2>3 DEF RowInv, EntityInv, TypeOK
  <2>6. AuditInv' /\ ReturnedWritesAudited'
    BY <1>1, <1>3, <2>1, <2>3 DEF AuditInv, ReturnedWritesAudited
  <2> QED
    BY <2>2, <2>4, <2>5, <2>6
<1> QED
  BY <1>1, <1>2, <1>3 DEF Rollback

\* A failed save leaves.
LEMMA UndoEndsInv ==
  ASSUME IInv, NEW s \in Saves, UndoEnds(s)
  PROVE  IInv'
<1> USE DEF IInv
<1>1. Leave(s, "failed")
  BY DEF UndoEnds
<1>2. pc[s] = "undoing" /\ todo[s] = {} /\ UNCHANGED <<conn, staged, undone, todo>>
  BY DEF UndoEnds
<1>3. /\ pc' = [pc EXCEPT ![s] = "failed"] /\ lock' = NoSave
      /\ session'[s] \in {"none", "closed"} /\ queued'[s] \subseteq queued[s]
      /\ \A t \in Saves \ {s} : /\ session'[t] = session[t] /\ queued'[t] = queued[t]
                                /\ actions'[t] = actions[t]
      /\ UNCHANGED <<caller, awaited, durable, op, attempts, accepted, failures>>
  BY <1>1, LeaveEffect
<1>4. TypeOK'
  BY <1>1, <1>2, LeaveEffect DEF TypeOK
<1>5. pc \in [Saves -> PC]
  BY DEF TypeOK
<1>6. LockInv'
  BY <1>2, <1>3, <1>5 DEF LockInv
<1>7. PhaseInv'
  BY <1>2, <1>3, <1>5 DEF PhaseInv
<1>8. RowInv' /\ EntityInv'
  BY <1>2, <1>3, <1>5 DEF RowInv, EntityInv
<1>9. AuditInv' /\ ReturnedWritesAudited'
  BY <1>2, <1>3, <1>5 DEF AuditInv, ReturnedWritesAudited
<1> QED
  BY <1>4, <1>6, <1>7, <1>8, <1>9

LEMMA NextInv == IInv /\ [Next]_vars => IInv'
<1> SUFFICES ASSUME IInv, [Next]_vars PROVE IInv'
  OBVIOUS
<1>1. CASE UNCHANGED vars
  BY <1>1 DEF IInv, TypeOK, LockInv, PhaseInv, RowInv, AuditInv, EntityInv,
    ReturnedWritesAudited, vars, control, database, evidence, completion, loops
<1>2. CASE Next
  <2>1. PICK s \in Saves : Calls(s) \/ CancelWaiting(s) \/ Write(s) \/ Step(s)
    BY <1>2 DEF Next
  <2>2. CASE Calls(s) \/ CancelWaiting(s)
    BY <2>2, AdmissionInv DEF Calls
  <2>3. CASE Write(s)
    BY <2>3, EnterInv, ExecuteInv, ReadbackInv, FinishInv DEF Write
  <2>4. CASE Step(s)
    <3>1. CASE Acquire(s) \/ BeginOk(s) \/ BeginNoSession(s) \/ BeginRaises(s)
      BY <3>1, AdmissionInv, BeginOkInv, BeginRaisesInv
    <3>2. CASE \/ WorkReturns(s) \/ WorkRaises(s) \/ DbCommit(s) \/ CommitFails(s)
               \/ CommitUnconfirmed(s) \/ CommitReturns(s)
      BY <3>2, CommitInv
    <3>3. CASE \/ \E o \in Ops : Deliver(s, o) \/ Accept(s, o) \/ Undo(s, o)
               \/ Delivered(s)
      BY <3>3, DeliveryInv
    <3>4. CASE Complete(s) \/ Rollback(s) \/ UndoEnds(s)
      BY <3>4, CompleteInv, RollbackInv, UndoEndsInv
    <3> QED
      BY <2>4, <3>1, <3>2, <3>3, <3>4 DEF Step
  <2> QED
    BY <2>1, <2>2, <2>3, <2>4
<1> QED
  BY <1>1, <1>2

\* IInv is an invariant: the theorems below are its consequences.
THEOREM Inductive == Spec => []IInv
<1>1. Init => IInv
  BY InitInv
<1>2. IInv /\ [Next]_vars => IInv'
  BY NextInv
<1> QED
  BY <1>1, <1>2, PTL DEF Spec

-----------------------------------------------------------------------------
(* The theorems *)

\* Every variable keeps its type; no audit event is delivered twice.
THEOREM TypeCorrect == Spec => []TypeOK
<1>1. IInv => TypeOK
  BY DEF IInv
<1> QED
  BY <1>1, Inductive, PTL

\* At most one save is between begin and the release of the lock
\* (async with gate.lock in execute_graph_save).
MutualExclusion == \A s, t \in Saves : pc[s] \in Inside /\ pc[t] \in Inside => s = t

THEOREM Exclusive == Spec => []MutualExclusion
<1>1. IInv => MutualExclusion
  BY DEF IInv, LockInv, MutualExclusion
<1> QED
  BY <1>1, Inductive, PTL

\* Audit events are delivered only for writes the database has committed.
THEOREM AuditDurability == Spec => []AuditOnlyDurable
<1>1. IInv => AuditOnlyDurable
  BY DEF IInv, AuditInv, AuditOnlyDurable
<1> QED
  BY <1>1, Inductive, PTL

\* After a commit no returned write lacks its row, its audit event or its accepted entity.
THEOREM ReturnedAudited == Spec => []ReturnedWritesAudited
<1>1. IInv => ReturnedWritesAudited
  BY DEF IInv
<1> QED
  BY <1>1, Inductive, PTL

\* A failed save announced and accepted nothing; a committed one undid nothing.
THEOREM Verdict == Spec => []VerdictTruthful
<1>1. IInv => VerdictTruthful
  <2> SUFFICES ASSUME IInv, NEW s \in Saves
               PROVE  /\ pc[s] = "failed" =>
                           accepted[s] = {} /\ \A o \in Ops : attempts[s][o] = 0
                      /\ pc[s] \in {"returned", "committed_error"} => undone[s] = {}
    BY DEF VerdictTruthful
  <2>1. \A o \in Ops : attempts[s][o] \in 0..1
    BY DEF IInv, TypeOK
  <2>2. pc[s] = "failed" => \A o \in Ops : attempts[s][o] = 0
    BY <2>1 DEF IInv, AuditInv
  <2> QED
    BY <2>2 DEF IInv, EntityInv
<1> QED
  BY <1>1, Inductive, PTL
-----------------------------------------------------------------------------
(* GraphSave implements AtomicSave *)

\* What a step of save s does not touch keeps its abstract image; a step that
\* leaves the phase, the durable writes and the announcements alone stutters.
LEMMA AbstractFrame ==
  ASSUME TypeOK, NEW s \in Saves,
         \A t \in Saves \ {s} : pc'[t] = pc[t] /\ durable'[t] = durable[t],
         \A t \in Saves \ {s} : Announced(t)' = Announced(t)
  PROVE  /\ [t \in Saves |-> PhaseOf(t)]' =
              [[t \in Saves |-> PhaseOf(t)] EXCEPT ![s] = PhaseOf(s)']
         /\ [t \in Saves |-> Announced(t)]' =
              [[t \in Saves |-> Announced(t)] EXCEPT ![s] = Announced(s)']
<1>1. \A t \in Saves \ {s} : PhaseOf(t)' = PhaseOf(t)
  BY DEF PhaseOf
<1> QED
  BY <1>1

LEMMA Stutter ==
  ASSUME TypeOK, NEW s \in Saves,
         \A t \in Saves \ {s} : pc'[t] = pc[t],
         PhaseOf(s)' = PhaseOf(s),
         UNCHANGED <<durable, attempts>>
  PROVE  UNCHANGED Abstract!vars
<1>1. \A t \in Saves : Announced(t)' = Announced(t)
  BY DEF Announced
<1>2. \A t \in Saves : PhaseOf(t)' = PhaseOf(t)
  BY DEF PhaseOf
<1> QED
  BY <1>1, <1>2 DEF Abstract!vars

LEMMA AbstractInit == Init => Abstract!Init
<1> SUFFICES ASSUME Init PROVE Abstract!Init
  OBVIOUS
<1>1. \A s \in Saves : PhaseOf(s) = "open"
  BY DEF Init, PhaseOf
<1>2. \A s \in Saves : Announced(s) = {}
  <2> TAKE s \in Saves
  <2>1. \A o \in Ops : ~(attempts[s][o] > 0)
    BY DEF Init
  <2>2. \A o : o \notin Announced(s)
    BY <2>1 DEF Announced
  <2> QED
    BY <2>2
<1> QED
  BY <1>1, <1>2 DEF Init, Abstract!Init

\* Before the commit and after it, what happens inside a save is invisible.
LEMMA AdmissionStutters ==
  ASSUME IInv, NEW s \in Saves
  PROVE  /\ \A p \in Saves \cup {NoSave}, aw \in BOOLEAN : Call(s, p, aw) => UNCHANGED Abstract!vars
         /\ Acquire(s) \/ BeginOk(s) \/ WorkReturns(s) => UNCHANGED Abstract!vars
<1>1. ASSUME NEW p \in Saves \cup {NoSave}, NEW aw \in BOOLEAN, Call(s, p, aw)
      PROVE  UNCHANGED Abstract!vars
  <2>1. PhaseOf(s)' = PhaseOf(s)
    BY <1>1 DEF IInv, TypeOK, Call, PhaseOf
  <2> QED
    BY <1>1, <2>1, Stutter DEF IInv, TypeOK, Call, database, evidence
<1>2. ASSUME Acquire(s) \/ BeginOk(s) \/ WorkReturns(s)
      PROVE  UNCHANGED Abstract!vars
  <2>1. /\ PhaseOf(s)' = PhaseOf(s)
        /\ \A t \in Saves \ {s} : pc'[t] = pc[t]
    BY <1>2 DEF IInv, TypeOK, Acquire, BeginOk, WorkReturns, WorkDone, PhaseOf
  <2>2. UNCHANGED <<durable, attempts>>
    BY <1>2 DEF Acquire, BeginOk, WorkReturns, database, evidence
  <2> QED
    BY <2>1, <2>2, Stutter DEF IInv
<1> QED
  BY <1>1, <1>2

LEMMA WriteStutters ==
  ASSUME IInv, NEW s \in Saves, Write(s)
  PROVE  UNCHANGED Abstract!vars
<1>1. UNCHANGED <<pc, durable, attempts>>
  BY DEF Write, Enter, Execute, Readback, Finish, control, database, evidence
<1>2. PhaseOf(s)' = PhaseOf(s)
  BY <1>1 DEF PhaseOf
<1> QED
  BY <1>1, <1>2, Stutter DEF IInv

LEMMA CompletionStutters ==
  ASSUME IInv, NEW s \in Saves,
         \/ Delivered(s) \/ Rollback(s) \/ UndoEnds(s)
         \/ \E o \in Ops : Accept(s, o) \/ Undo(s, o)
  PROVE  UNCHANGED Abstract!vars
<1>1. UNCHANGED <<durable, attempts>>
  BY DEF Delivered, Rollback, UndoEnds, Accept, Undo, Leave, database, evidence
<1>2. \A t \in Saves \ {s} : pc'[t] = pc[t]
  BY DEF Delivered, Rollback, UndoEnds, Accept, Undo, Leave, control, IInv, TypeOK
<1>3. PhaseOf(s)' = PhaseOf(s)
  <2>1. CASE Delivered(s)
    BY <1>1, <2>1 DEF Delivered, PhaseOf, IInv, TypeOK
  <2>2. CASE Rollback(s) \/ UndoEnds(s)
    <3>1. /\ pc[s] \in {"rollback", "undoing"}
          /\ pc'[s] \in {"undoing", "failed"}
      BY <2>2 DEF Rollback, UndoEnds, Leave, IInv, TypeOK
    <3> QED
      BY <1>1, <3>1 DEF PhaseOf
  <2>3. CASE \E o \in Ops : Accept(s, o) \/ Undo(s, o)
    BY <1>1, <2>3 DEF Accept, Undo, control, PhaseOf
  <2> QED
    BY <2>1, <2>2, <2>3
<1> QED
  BY <1>1, <1>2, <1>3, Stutter DEF IInv

\* The save ends without having reached the database.
LEMMA AbortStep ==
  ASSUME IInv, NEW s \in Saves,
         \/ \E p \in Saves \cup {NoSave}, aw \in BOOLEAN : Refuse(s, p, aw)
         \/ CancelWaiting(s) \/ BeginNoSession(s) \/ BeginRaises(s)
         \/ WorkRaises(s) \/ CommitFails(s)
  PROVE  Abstract!Abort(s)
<1>1. /\ pc[s] \in {"idle", "waiting", "beginning", "work", "committing"}
      /\ UNCHANGED <<durable, attempts>>
      /\ \A t \in Saves \ {s} : pc'[t] = pc[t]
      /\ pc'[s] \in {"refused", "failed", "rollback"}
  BY DEF Refuse, CancelWaiting, BeginNoSession, BeginRaises, WorkRaises, WorkDone, CommitFails,
    database, evidence, IInv, TypeOK
<1>2. durable[s] = {}
  BY <1>1 DEF IInv, RowInv, TypeOK
<1>3. PhaseOf(s) = "open" /\ PhaseOf(s)' = "aborted"
  BY <1>1, <1>2 DEF PhaseOf
<1>4. \A t \in Saves : Announced(t)' = Announced(t)
  BY <1>1 DEF Announced
<1> QED
  BY <1>1, <1>3, <1>4, AbstractFrame DEF IInv, Abstract!Abort

\* The commit, its acknowledgement, and the answer that never came.
LEMMA CommitSteps ==
  ASSUME IInv, NEW s \in Saves
  PROVE  /\ DbCommit(s) => Abstract!Commit(s)
         /\ CommitReturns(s) => Abstract!Acknowledge(s)
         /\ CommitUnconfirmed(s) => Abstract!Abort(s) \/ Abstract!Lose(s)
<1> USE DEF IInv
<1>1. ASSUME DbCommit(s) PROVE Abstract!Commit(s)
  <2>1. PhaseOf(s) = "open" /\ PhaseOf(s)' = "committed"
    BY <1>1 DEF DbCommit, PhaseOf, TypeOK
  <2>2. /\ durable' = [durable EXCEPT ![s] = staged[s]] /\ staged[s] \in SUBSET Ops
        /\ attempts' = attempts
        /\ \A t \in Saves \ {s} : pc'[t] = pc[t] /\ durable'[t] = durable[t]
    BY <1>1 DEF DbCommit, evidence, TypeOK
  <2>3. \A t \in Saves : Announced(t)' = Announced(t)
    BY <2>2 DEF Announced
  <2> QED
    BY <2>1, <2>2, <2>3, AbstractFrame DEF Abstract!Commit
<1>2. ASSUME CommitReturns(s) PROVE Abstract!Acknowledge(s)
  <2>1. PhaseOf(s) = "committed" /\ PhaseOf(s)' = "acknowledged"
    BY <1>2 DEF CommitReturns, PhaseOf, TypeOK
  <2>2. /\ UNCHANGED <<durable, attempts>>
        /\ \A t \in Saves \ {s} : pc'[t] = pc[t] /\ durable'[t] = durable[t]
    BY <1>2 DEF CommitReturns, database, evidence, TypeOK
  <2>3. \A t \in Saves : Announced(t)' = Announced(t)
    BY <2>2 DEF Announced
  <2> QED
    BY <2>1, <2>2, <2>3, AbstractFrame DEF Abstract!Acknowledge
<1>3. ASSUME CommitUnconfirmed(s) PROVE Abstract!Abort(s) \/ Abstract!Lose(s)
  <2>1. PhaseOf(s) = "committed"
        /\ PhaseOf(s)' = IF durable[s] = {} THEN "aborted" ELSE "lost"
    BY <1>3 DEF CommitUnconfirmed, database, PhaseOf, TypeOK
  <2>2. /\ UNCHANGED <<durable, attempts>>
        /\ \A t \in Saves \ {s} : pc'[t] = pc[t] /\ durable'[t] = durable[t]
    BY <1>3 DEF CommitUnconfirmed, database, evidence, TypeOK
  <2>3. \A t \in Saves : Announced(t)' = Announced(t)
    BY <2>2 DEF Announced
  <2> QED
    BY <2>1, <2>2, <2>3, AbstractFrame DEF Abstract!Abort, Abstract!Lose
<1> QED
  BY <1>1, <1>2, <1>3

\* An audit event is announced once, for a durable write, after the acknowledgement.
LEMMA AnnounceStep ==
  ASSUME IInv, NEW s \in Saves, NEW o \in Ops, Deliver(s, o)
  PROVE  Abstract!Announce(s, o)
<1> USE DEF IInv
<1>1. pc[s] = "delivering" /\ UNCHANGED <<pc, durable>>
  BY DEF Deliver, control, database
<1>2. PhaseOf(s) = "acknowledged" /\ PhaseOf(s)' = PhaseOf(s)
  BY <1>1 DEF PhaseOf
<1>3. attempts[s][o] = 0 /\ o \in durable[s]
  BY DEF Deliver, AuditInv, RowInv, Completing, TypeOK
<1>4. \A t \in Saves, q \in Ops :
        attempts'[t][q] = IF t = s /\ q = o THEN 1 ELSE attempts[t][q]
  BY <1>3 DEF Deliver, TypeOK
<1>5. /\ o \notin Announced(s)
      /\ Announced(s)' = Announced(s) \cup {o}
      /\ \A t \in Saves \ {s} : Announced(t)' = Announced(t)
  BY <1>3, <1>4 DEF Announced
<1> QED
  BY <1>1, <1>2, <1>3, <1>5, AbstractFrame DEF Abstract!Announce

LEMMA CloseStep ==
  ASSUME IInv, NEW s \in Saves, Complete(s)
  PROVE  Abstract!Close(s)
<1> USE DEF IInv
<1>1. /\ pc[s] = "accepting" /\ pc'[s] \in {"returned", "committed_error"}
      /\ \A t \in Saves \ {s} : pc'[t] = pc[t]
      /\ UNCHANGED <<durable, attempts>>
  BY DEF Complete, Leave, TypeOK
<1>2. PhaseOf(s) = "acknowledged" /\ PhaseOf(s)' = "closed"
  BY <1>1 DEF PhaseOf
<1>3. \A t \in Saves : Announced(t)' = Announced(t)
  BY <1>1 DEF Announced
<1> QED
  BY <1>1, <1>2, <1>3, AbstractFrame DEF Abstract!Close

LEMMA AbstractNext == IInv /\ [Next]_vars => [Abstract!Next]_(Abstract!vars)
<1> SUFFICES ASSUME IInv, [Next]_vars PROVE [Abstract!Next]_(Abstract!vars)
  OBVIOUS
<1>1. CASE UNCHANGED vars
  BY <1>1 DEF vars, control, database, evidence, Abstract!vars, PhaseOf, Announced
<1>2. CASE Next
  <2>1. PICK s \in Saves : Calls(s) \/ CancelWaiting(s) \/ Write(s) \/ Step(s)
    BY <1>2 DEF Next
  <2>2. CASE Calls(s) \/ CancelWaiting(s)
    BY <2>2, AdmissionStutters, AbortStep DEF Calls, Abstract!Next
  <2>3. CASE Write(s)
    BY <2>3, WriteStutters
  <2>4. CASE Step(s)
    <3>1. CASE Acquire(s) \/ BeginOk(s) \/ WorkReturns(s)
      BY <3>1, AdmissionStutters
    <3>2. CASE \/ BeginNoSession(s) \/ BeginRaises(s) \/ WorkRaises(s) \/ CommitFails(s)
      BY <3>2, AbortStep DEF Abstract!Next
    <3>3. CASE DbCommit(s) \/ CommitReturns(s) \/ CommitUnconfirmed(s)
      BY <3>3, CommitSteps DEF Abstract!Next
    <3>4. CASE \/ Delivered(s) \/ Rollback(s) \/ UndoEnds(s)
               \/ \E o \in Ops : Accept(s, o) \/ Undo(s, o)
      BY <3>4, CompletionStutters
    <3>5. CASE Complete(s) \/ \E o \in Ops : Deliver(s, o)
      BY <3>5, CloseStep, AnnounceStep DEF Abstract!Next
    <3> QED
      BY <2>4, <3>1, <3>2, <3>3, <3>4, <3>5 DEF Step
  <2> QED
    BY <2>1, <2>2, <2>3, <2>4
<1> QED
  BY <1>1, <1>2

\* A graph save, seen from outside, is an AtomicSave.
THEOREM Refinement == Spec => ImplementsAtomicSave
<1>1. Init => Abstract!Init
  BY AbstractInit
<1>2. IInv /\ [Next]_vars => [Abstract!Next]_(Abstract!vars)
  BY AbstractNext
<1> QED
  BY <1>1, <1>2, Inductive, PTL DEF Spec, ImplementsAtomicSave, Abstract!Spec
=============================================================================
