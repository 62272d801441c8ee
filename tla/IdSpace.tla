----------------------------- MODULE IdSpace -----------------------------
(***************************************************************************)
(* The internal ID space of one entity: SqlDataServiceExecutor.next_id and *)
(* ensure_id_floor over the row of teaql_id_space.                         *)
(*                                                                         *)
(* Callers read the level, then write it back on condition that it did not *)
(* change, one SQL statement at a time.  A caller runs on a connection of  *)
(* its own, where every statement commits by itself, or on a transaction   *)
(* shared with other callers, whose first write locks out all others.  A   *)
(* statement may raise before or after it took effect.  A transaction      *)
(* reads what is committed (SQLite's BEGIN IMMEDIATE, read committed).     *)
(***************************************************************************)
EXTENDS Integers

CONSTANTS
  Callers,      \* calls of next_id or ensure_id_floor for the entity
  Txs,          \* transactions callers may run in
  Autocommit,   \* the transport without a transaction
  Floors,       \* explicit IDs passed to ensure_id_floor
  MaxAttempts,  \* MAX_ID_ALLOCATION_ATTEMPTS
  MaxLevel      \* 2^63 - 1

ASSUME AutocommitAssumption == Autocommit \notin Txs
ASSUME BoundsAssumption ==
  /\ MaxAttempts \in Nat \ {0}
  /\ MaxLevel \in Nat \ {0}
  /\ Floors \subseteq 0 .. MaxLevel

Absent == -1   \* the row does not exist

VARIABLES
  pc,       \* pc[c]: the statement call c is about to send, or how it ended
  tx,       \* tx[c]: the transaction of c, or Autocommit
  goal,     \* goal[c]: the floor c asks for, or Absent for next_id
  seen,     \* seen[c]: the level c read
  attempt,  \* attempt[c]: which attempt of its loop c is in
  result,   \* result[c]: the ID next_id returned, 0 for none
  level,    \* current_level as committed, or Absent
  writer,   \* the transaction that wrote the row and is still open, or Autocommit
  dirty,    \* the level as writer sees it
  outcome,  \* outcome[t]: open, committed or rolledback
  base,     \* history: base[c] is the level c's first statement could see
  promised  \* history: promised[c] is the highest floor in force when c was called

caller == <<pc, tx, goal, seen, attempt, result, base, promised>>
row == <<level, writer, dirty, outcome>>
vars == <<caller, row>>

-----------------------------------------------------------------------------
PC == {"idle", "read", "insert", "recheck", "update", "done", "failed", "exhausted"}
Levels == Absent .. MaxLevel

\* The level a statement of c sees.
View(c) == IF writer # Autocommit /\ writer = tx[c] THEN dirty ELSE level

\* The connection of c still takes statements, and writes of c need not wait.
Connected(c) == tx[c] # Autocommit => outcome[tx[c]] = "open"
CanWrite(c) == Connected(c) /\ writer \in {Autocommit, tx[c]}

\* The statement of c sets the level to l.
Store(c, l) ==
  IF tx[c] = Autocommit
    THEN level' = l /\ UNCHANGED <<writer, dirty, outcome>>
    ELSE writer' = tx[c] /\ dirty' = l /\ UNCHANGED <<level, outcome>>

\* A result or a floor survives unless the transaction it was made in rolls back.
Kept(c) == tx[c] # Autocommit => outcome[tx[c]] = "committed"

\* Floors a new call in transaction t may rely on.
InForce(t) == {goal[c] : c \in {d \in Callers :
                 pc[d] = "done" /\ (Kept(d) \/ tx[d] = t)}} \cup {Absent}

Init ==
  /\ pc = [c \in Callers |-> "idle"]
  /\ tx = [c \in Callers |-> Autocommit]
  /\ goal = [c \in Callers |-> Absent]
  /\ seen = [c \in Callers |-> Absent]
  /\ attempt = [c \in Callers |-> 0]
  /\ result = [c \in Callers |-> 0]
  /\ level = Absent
  /\ writer = Autocommit
  /\ dirty = Absent
  /\ outcome = [t \in Txs |-> "open"]
  /\ base = [c \in Callers |-> Absent]
  /\ promised = [c \in Callers |-> Absent]

-----------------------------------------------------------------------------
\* next_id (g = Absent) or ensure_id_floor(g) is called.
Call(c, t, g) ==
  /\ pc[c] = "idle"
  /\ t # Autocommit => outcome[t] = "open"
  /\ pc' = [pc EXCEPT ![c] = "read"]
  /\ tx' = [tx EXCEPT ![c] = t]
  /\ goal' = [goal EXCEPT ![c] = g]
  /\ attempt' = [attempt EXCEPT ![c] = 1]
  /\ base' = [base EXCEPT ![c] = IF writer # Autocommit /\ writer = t THEN dirty ELSE level]
  /\ \E f \in InForce(t) :
       /\ \A e \in InForce(t) : e <= f
       /\ promised' = [promised EXCEPT ![c] = f]
  /\ UNCHANGED <<seen, result, row>>

\* The end of the sequence is not noticed.
AfterReadUnbounded(c, l) ==
  CASE l = Absent -> "insert"
    [] goal[c] # Absent /\ l >= goal[c] -> "done"
    [] OTHER -> "update"

\* What the call does with the level it read.
AfterRead(c, l) ==
  CASE l = Absent -> "insert"
    [] goal[c] = Absent /\ l >= MaxLevel -> "failed"
    [] goal[c] # Absent /\ l >= goal[c] -> "done"
    [] OTHER -> "update"

Read(c) ==
  /\ pc[c] = "read"
  /\ Connected(c)
  /\ seen' = [seen EXCEPT ![c] = View(c)]
  /\ pc' = [pc EXCEPT ![c] = AfterRead(c, View(c))]
  /\ UNCHANGED <<tx, goal, attempt, result, base, promised, row>>

\* The call goes round its loop, or gives up.
Retry(c) ==
  IF attempt[c] < MaxAttempts
    THEN /\ attempt' = [attempt EXCEPT ![c] = @ + 1]
         /\ pc' = [pc EXCEPT ![c] = "read"]
    ELSE pc' = [pc EXCEPT ![c] = "exhausted"] /\ UNCHANGED attempt

\* The call wrote l and returns.
Return(c, l) ==
  /\ pc' = [pc EXCEPT ![c] = "done"]
  /\ result' = [result EXCEPT ![c] = IF goal[c] = Absent THEN l ELSE @]

\* The floor itself is left to be allocated.
NextLevelBelowFloor(c, l) ==
  IF goal[c] # Absent THEN goal[c] - 1 ELSE IF l = Absent THEN 1 ELSE l + 1

\* The level the call writes when it has read l.
NextLevel(c, l) ==
  IF goal[c] # Absent THEN goal[c] ELSE IF l = Absent THEN 1 ELSE l + 1

\* The first row of the entity: the insert succeeds, or meets the row of
\* another call, or takes effect and raises.
Insert(c) ==
  /\ pc[c] = "insert"
  /\ CanWrite(c)
  /\ \/ /\ View(c) = Absent
        /\ Store(c, NextLevel(c, Absent))
        /\ Return(c, NextLevel(c, Absent))
     \/ /\ View(c) # Absent
        /\ pc' = [pc EXCEPT ![c] = "recheck"]
        /\ UNCHANGED <<result, row>>
     \/ /\ View(c) = Absent
        /\ Store(c, NextLevel(c, Absent))
        /\ pc' = [pc EXCEPT ![c] = "recheck"]
        /\ UNCHANGED result
  /\ UNCHANGED <<tx, goal, seen, attempt, base, promised>>

\* After an insert that raised the call tries again, row or no row.
RecheckBlind(c) ==
  /\ pc[c] = "recheck"
  /\ Connected(c)
  /\ Retry(c)
  /\ UNCHANGED <<tx, goal, seen, result, base, promised, row>>

\* ... and does so without counting its attempts.
RecheckUnbounded(c) ==
  /\ pc[c] = "recheck"
  /\ Connected(c)
  /\ pc' = [pc EXCEPT ![c] = "read"]
  /\ UNCHANGED <<tx, goal, seen, attempt, result, base, promised, row>>

\* After an insert that raised: another call's row is there, or the error stands.
Recheck(c) ==
  /\ pc[c] = "recheck"
  /\ Connected(c)
  /\ IF View(c) = Absent
       THEN pc' = [pc EXCEPT ![c] = "failed"] /\ UNCHANGED attempt
       ELSE Retry(c)
  /\ UNCHANGED <<tx, goal, seen, result, base, promised, row>>

\* The level is written without asking whether it is still the one read.
UpdateUnconditional(c) ==
  /\ pc[c] = "update"
  /\ CanWrite(c)
  /\ Store(c, NextLevel(c, seen[c]))
  /\ Return(c, NextLevel(c, seen[c]))
  /\ UNCHANGED <<tx, goal, seen, attempt, base, promised>>

\* The update succeeds, meets a changed level, or its answer is lost.
Update(c) ==
  /\ pc[c] = "update"
  /\ CanWrite(c)
  /\ \/ /\ View(c) = seen[c]
        /\ Store(c, NextLevel(c, seen[c]))
        /\ Return(c, NextLevel(c, seen[c]))
        /\ UNCHANGED attempt
     \/ /\ View(c) # seen[c]
        /\ Retry(c)
        /\ UNCHANGED <<result, row>>
     \/ /\ View(c) = seen[c]
        /\ Store(c, NextLevel(c, seen[c]))
        /\ pc' = [pc EXCEPT ![c] = "failed"]
        /\ UNCHANGED <<result, attempt>>
  /\ UNCHANGED <<tx, goal, seen, base, promised>>

\* A statement raises without effect (a lock timeout, a broken connection).
Raise(c) ==
  /\ pc[c] \in {"read", "insert", "recheck", "update"}
  /\ pc' = [pc EXCEPT ![c] = IF @ = "insert" THEN "recheck" ELSE "failed"]
  /\ UNCHANGED <<tx, goal, seen, attempt, result, base, promised, row>>

\* So does every statement on a connection whose transaction has ended.
Disconnected(c) ==
  /\ pc[c] \in {"read", "insert", "recheck", "update"}
  /\ ~Connected(c)
  /\ pc' = [pc EXCEPT ![c] = "failed"]
  /\ UNCHANGED <<tx, goal, seen, attempt, result, base, promised, row>>

-----------------------------------------------------------------------------
(* The transactions callers run in *)

Commit(t) ==
  /\ outcome[t] = "open"
  /\ outcome' = [outcome EXCEPT ![t] = "committed"]
  /\ IF writer = t
       THEN level' = dirty /\ writer' = Autocommit /\ dirty' = Absent
       ELSE UNCHANGED <<level, writer, dirty>>
  /\ UNCHANGED caller

Rollback(t) ==
  /\ outcome[t] = "open"
  /\ outcome' = [outcome EXCEPT ![t] = "rolledback"]
  /\ IF writer = t
       THEN writer' = Autocommit /\ dirty' = Absent
       ELSE UNCHANGED <<writer, dirty>>
  /\ UNCHANGED <<level, caller>>

-----------------------------------------------------------------------------
Step(c) == Read(c) \/ Insert(c) \/ Recheck(c) \/ Update(c) \/ Disconnected(c)
End(t) == Commit(t) \/ Rollback(t)

Next ==
  \/ \E c \in Callers :
       \/ \E t \in Txs \cup {Autocommit}, g \in Floors \cup {Absent} : Call(c, t, g)
       \/ Step(c) \/ Raise(c)
  \/ \E t \in Txs : End(t)

\* Drivers answer, and a transaction ends one way or the other.
Fairness == (\A c \in Callers : WF_vars(Step(c))) /\ (\A t \in Txs : WF_vars(End(t)))

Spec == Init /\ [][Next]_vars
FairSpec == Spec /\ Fairness

-----------------------------------------------------------------------------
TypeOK ==
  /\ pc \in [Callers -> PC]
  /\ tx \in [Callers -> Txs \cup {Autocommit}]
  /\ goal \in [Callers -> Floors \cup {Absent}]
  /\ seen \in [Callers -> Levels]
  /\ attempt \in [Callers -> 0 .. MaxAttempts]
  /\ result \in [Callers -> 0 .. MaxLevel]
  /\ level \in Levels
  /\ writer \in Txs \cup {Autocommit}
  /\ dirty \in Levels
  /\ outcome \in [Txs -> {"open", "committed", "rolledback"}]
  /\ base \in [Callers -> Levels]
  /\ promised \in [Callers -> Levels]

\* The transaction of c is not undone, or not yet.
Standing(c) == tx[c] # Autocommit => outcome[tx[c]] # "rolledback"

\* No two calls of next_id return the same ID, whatever statements interleave
\* and whatever transactions are open, unless a rollback gave the first one back
\* (the conditional UPDATE and the primary key of teaql_id_space).
UniqueIds ==
  \A c, d \in Callers :
    c # d /\ result[c] # 0 /\ result[d] # 0 /\ Standing(c) /\ Standing(d)
      => result[c] # result[d]

\* A call that starts after ensure_id_floor(f) returned never allocates f or
\* less, so it never collides with the explicit ID the floor was raised for.
FloorRespected == \A c \in Callers : result[c] # 0 => result[c] > promised[c]

\* A call loses an attempt only to another call that moved the level: giving up
\* after MAX_ID_ALLOCATION_ATTEMPTS means the level rose that often meanwhile.
ContentionBound ==
  \A c \in Callers :
    pc[c] # "idle" /\ Connected(c) =>
      attempt[c] - (IF pc[c] = "exhausted" THEN 0 ELSE 1) <= View(c) - base[c]

\* An allocated ID is never reused, also not after a failed transaction.
NeverReused ==
  \A c, d \in Callers : c # d /\ result[c] # 0 /\ result[d] # 0 => result[c] # result[d]

\* Every call ends, with an ID, with its floor or with an error.
EveryCallReturns ==
  \A c \in Callers : (pc[c] # "idle") ~> (pc[c] \in {"done", "failed", "exhausted"})

-----------------------------------------------------------------------------
(* IdSpace implements IdLedger *)

\* The ID c owns for good, 0 for none.
Issued == [c \in Callers |-> IF Kept(c) THEN result[c] ELSE 0]

Ledger == INSTANCE IdLedger WITH issued <- Issued

\* Seen through what is committed, IDs are only ever issued above every ID and
\* floor there has been, each to one caller (next_id, ensure_id_floor).
ImplementsLedger == Ledger!Spec
=============================================================================
