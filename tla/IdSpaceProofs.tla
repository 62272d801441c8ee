-------------------------- MODULE IdSpaceProofs --------------------------
(***************************************************************************)
(* IdSpace's safety properties for every set of calls and transactions,    *)
(* every number of attempts and every end of the sequence.                 *)
(*                                                                         *)
(* The argument: a call writes only when no other transaction has the row, *)
(* and only above the level it sees, so the level any live call sees never *)
(* falls; every ID and every floor that stands is at or below it.          *)
(***************************************************************************)
EXTENDS IdSpace, TLAPS

USE AutocommitAssumption, BoundsAssumption DEF Absent, Levels, PC

\* Only an open transaction has the row, and it has only raised the level.
LockInv == writer # Autocommit => outcome[writer] = "open" /\ dirty >= level

\* A call that has not begun asks for nothing; only next_id that returned has an ID.
CallInv ==
  \A c \in Callers :
    /\ pc[c] = "idle" => result[c] = 0 /\ tx[c] = Autocommit
    /\ result[c] # 0 => pc[c] = "done"

\* What stands is at or below the level that is seen from where it was made.
HighInv ==
  \A c \in Callers : Standing(c) =>
    /\ result[c] <= View(c) \/ result[c] = 0
    /\ pc[c] = "done" => goal[c] <= View(c)
    /\ pc[c] # "idle" => promised[c] <= View(c)

\* An ID of an open transaction is above everything committed, in a row it holds.
OpenInv ==
  \A c \in Callers :
    result[c] # 0 /\ tx[c] # Autocommit /\ outcome[tx[c]] = "open"
      => writer = tx[c] /\ level < result[c]

\* Attempts lost so far are covered by how far the level rose since the call.
LoopInv ==
  \A c \in Callers : Connected(c) =>
    /\ pc[c] \in {"insert", "recheck"} => base[c] + attempt[c] - 1 <= Absent
    /\ pc[c] = "update" =>
         /\ base[c] + attempt[c] - 1 <= seen[c] /\ seen[c] <= View(c) /\ seen[c] # Absent
         /\ seen[c] < IF goal[c] = Absent THEN MaxLevel ELSE goal[c]

IInv ==
  /\ TypeOK /\ LockInv /\ CallInv /\ HighInv /\ OpenInv /\ LoopInv
  /\ UniqueIds /\ FloorRespected /\ ContentionBound

-----------------------------------------------------------------------------
(* The level *)

LEMMA InitInv == Init => IInv
<1> SUFFICES ASSUME Init PROVE IInv
  OBVIOUS
<1>1. TypeOK
  BY DEF Init, TypeOK
<1>2. \A c \in Callers : View(c) = Absent /\ pc[c] = "idle" /\ tx[c] = Autocommit /\ result[c] = 0
  BY DEF Init, View
<1>3. LockInv /\ CallInv /\ HighInv /\ OpenInv /\ LoopInv
  BY <1>2 DEF Init, LockInv, CallInv, HighInv, OpenInv, LoopInv
<1>4. UniqueIds /\ FloorRespected /\ ContentionBound
  BY <1>2 DEF Init, UniqueIds, FloorRespected, ContentionBound
<1> QED
  BY <1>1, <1>3, <1>4 DEF IInv

\* What a call holds is a number.
LEMMA Numbers ==
  ASSUME TypeOK, NEW c \in Callers
  PROVE  /\ seen[c] \in Int /\ attempt[c] \in Int /\ result[c] \in Int
         /\ goal[c] \in Int /\ base[c] \in Int /\ promised[c] \in Int
<1>1. goal[c] \in Floors \cup {Absent}
  BY DEF TypeOK
<1>2. \A f \in Floors : f \in Int
  OBVIOUS
<1>3. CASE goal[c] = Absent
  BY <1>3 DEF TypeOK
<1>4. CASE goal[c] # Absent
  <2>1. goal[c] \in Floors
    BY <1>1, <1>4
  <2>2. goal[c] \in Int
    BY <1>2, <2>1
  <2> QED
    BY <2>2 DEF TypeOK
<1> QED
  BY <1>3, <1>4

\* The level a call sees is a level, and is never below the committed one.
LEMMA ViewType ==
  ASSUME TypeOK, LockInv, NEW c \in Callers
  PROVE  View(c) \in Levels /\ View(c) >= level
BY DEF TypeOK, LockInv, View

\* A write raises the level for the calls that share its view and for no other:
\* it needed the row, so no open transaction but its own holds it.
LEMMA StoreEffect ==
  ASSUME TypeOK, LockInv, NEW c \in Callers, NEW l \in Levels,
         CanWrite(c), View(c) <= l, Store(c, l), tx' = tx
  PROVE  /\ level' \in Levels /\ writer' \in Txs \cup {Autocommit} /\ dirty' \in Levels
         /\ outcome' = outcome
         /\ LockInv'
         /\ View(c)' = l
         /\ \A d \in Callers : View(d)' \in Levels /\ View(d)' >= View(d)
         /\ tx[c] # Autocommit => writer' = tx[c] /\ level' = level
         /\ tx[c] = Autocommit => writer = Autocommit /\ writer' = Autocommit /\ level' = l
<1>1. tx[c] \in Txs \cup {Autocommit} /\ outcome \in [Txs -> {"open", "committed", "rolledback"}]
  BY DEF TypeOK
<1>2. \A d \in Callers : View(d) \in Levels /\ View(d) >= level
  BY ViewType
<1>3. CASE tx[c] = Autocommit
  <2>1. writer = Autocommit /\ level' = l /\ UNCHANGED <<writer, dirty, outcome>>
    BY <1>3 DEF CanWrite, Store
  <2>2. \A d \in Callers : View(d) = level /\ View(d)' = l
    BY <2>1 DEF View
  <2> QED
    BY <1>2, <1>3, <2>1, <2>2 DEF TypeOK, LockInv
<1>4. CASE tx[c] # Autocommit
  <2>1. /\ writer \in {Autocommit, tx[c]} /\ writer' = tx[c] /\ dirty' = l
        /\ UNCHANGED <<level, outcome>> /\ outcome[tx[c]] = "open"
    BY <1>4 DEF CanWrite, Connected, Store
  <2>2. View(c)' = l
    BY <1>4, <2>1 DEF View
  <2>3. ASSUME NEW d \in Callers PROVE View(d)' \in Levels /\ View(d)' >= View(d)
    <3>1. CASE tx[d] = tx[c]
      <4>1. View(d) = View(c) /\ View(d)' = l
        BY <1>4, <2>1, <3>1 DEF View
      <4> QED
        BY <4>1
    <3>2. CASE tx[d] # tx[c]
      <4>1. View(d) = level /\ View(d)' = level
        BY <1>4, <2>1, <3>2 DEF View
      <4> QED
        BY <4>1, <1>2 DEF TypeOK
    <3> QED
      BY <3>1, <3>2
  <2>4. l >= level
    BY <1>2 DEF TypeOK
  <2> QED
    BY <1>1, <1>4, <2>1, <2>2, <2>3, <2>4 DEF TypeOK, LockInv
<1> QED
  BY <1>3, <1>4

-----------------------------------------------------------------------------
(* The steps of a call *)

\* Steps that write nothing: c moves from one statement to the next, or ends
\* without an ID.
LEMMA QuietInv ==
  ASSUME IInv, NEW c \in Callers, UNCHANGED <<tx, goal, result, base, promised, row>>,
         TypeOK', pc[c] # "idle", pc[c] # "done", pc'[c] # "idle",
         \A d \in Callers \ {c} : /\ pc'[d] = pc[d] /\ seen'[d] = seen[d]
                                  /\ attempt'[d] = attempt[d],
         pc'[c] = "done" => goal[c] <= View(c),
         Connected(c) => base[c] + attempt'[c] - (IF pc'[c] = "exhausted" THEN 0 ELSE 1) <= View(c),
         Connected(c) /\ pc'[c] \in {"insert", "recheck"} => base[c] + attempt'[c] - 1 <= Absent,
         Connected(c) /\ pc'[c] = "update" =>
           /\ base[c] + attempt'[c] - 1 <= seen'[c] /\ seen'[c] <= View(c) /\ seen'[c] # Absent
           /\ seen'[c] < IF goal[c] = Absent THEN MaxLevel ELSE goal[c]
  PROVE  IInv'
<1> USE DEF IInv
<1>1. /\ UNCHANGED <<level, writer, dirty, outcome>>
      /\ \A d \in Callers : /\ View(d)' = View(d) /\ (Connected(d)' <=> Connected(d))
                            /\ (Standing(d)' <=> Standing(d))
  BY DEF row, View, Connected, Standing
<1>2. result[c] = 0
  BY DEF CallInv
<1>3. LockInv'
  BY <1>1 DEF LockInv
<1>4. CallInv'
  BY <1>2 DEF CallInv
<1>5. HighInv'
  BY <1>1, <1>2 DEF HighInv
<1>6. OpenInv'
  BY <1>1 DEF OpenInv
<1>7. LoopInv'
  BY <1>1 DEF LoopInv
<1>8. UniqueIds' /\ FloorRespected'
  BY <1>1 DEF UniqueIds, FloorRespected
<1>9. ContentionBound'
  <2> SUFFICES ASSUME NEW d \in Callers, pc'[d] # "idle", Connected(d)'
               PROVE  attempt'[d] - (IF pc'[d] = "exhausted" THEN 0 ELSE 1) <= View(d)' - base'[d]
    BY DEF ContentionBound
  <2>1. base[d] \in Int /\ View(d) \in Int /\ attempt'[d] \in Int
    BY ViewType DEF TypeOK
  <2>2. CASE d = c
    BY <1>1, <2>1, <2>2
  <2>3. CASE d # c
    BY <1>1, <2>1, <2>3 DEF ContentionBound
  <2> QED
    BY <2>2, <2>3
<1> QED
  BY <1>3, <1>4, <1>5, <1>6, <1>7, <1>8, <1>9

\* A statement of c stores l above what c saw, and c returns with it.
LEMMA ReturnInv ==
  ASSUME IInv, NEW c \in Callers, NEW l \in Levels, CanWrite(c), View(c) < l,
         pc[c] \in {"insert", "update"}, Store(c, l), Return(c, l),
         goal[c] = Absent => l >= 1, goal[c] # Absent => l = goal[c],
         UNCHANGED <<tx, goal, seen, attempt, base, promised>>
  PROVE  IInv'
<1> USE DEF IInv
<1>1. /\ level' \in Levels /\ writer' \in Txs \cup {Autocommit} /\ dirty' \in Levels
      /\ outcome' = outcome /\ LockInv' /\ View(c)' = l
      /\ \A d \in Callers : View(d)' \in Levels /\ View(d)' >= View(d)
      /\ tx[c] # Autocommit => writer' = tx[c] /\ level' = level
      /\ tx[c] = Autocommit => writer = Autocommit /\ writer' = Autocommit /\ level' = l
  BY StoreEffect, ViewType DEF TypeOK
<1>2. /\ pc' = [pc EXCEPT ![c] = "done"]
      /\ result' = [result EXCEPT ![c] = IF goal[c] = Absent THEN l ELSE result[c]]
  BY DEF Return
<1>3. TypeOK'
  BY <1>1, <1>2 DEF TypeOK
<1>4. \A d \in Callers : /\ View(d) \in Levels /\ View(d) >= level
                         /\ (Connected(d)' <=> Connected(d)) /\ (Standing(d)' <=> Standing(d))
  BY <1>1, ViewType DEF Connected, Standing
<1>5. Connected(c) /\ Standing(c) /\ result[c] = 0
  BY DEF CanWrite, Connected, Standing, CallInv
<1>6. CallInv'
  BY <1>2 DEF CallInv, TypeOK
<1>7. HighInv'
  <2> SUFFICES ASSUME NEW d \in Callers, Standing(d)
               PROVE  /\ result'[d] <= View(d)' \/ result'[d] = 0
                      /\ pc'[d] = "done" => goal[d] <= View(d)'
                      /\ pc'[d] # "idle" => promised[d] <= View(d)'
    BY <1>4 DEF HighInv
  <2>1. /\ result[d] \in Int /\ goal[d] \in Int /\ promised[d] \in Int
        /\ View(d) \in Int /\ View(d)' \in Int /\ View(d) <= View(d)'
    BY <1>1, <1>4, Numbers
  <2>2. CASE d = c
    <3>1. View(c)' = l /\ l \in Int /\ goal[c] <= l
      BY <1>1, <1>4
    <3>2. result'[c] = l \/ result'[c] = 0
      BY <1>2, <1>5 DEF TypeOK
    <3>3. promised[c] <= View(c)
      BY <1>5 DEF HighInv
    <3> QED
      BY <2>1, <2>2, <3>1, <3>2, <3>3
  <2>3. CASE d # c
    <3>1. pc'[d] = pc[d] /\ result'[d] = result[d]
      BY <2>3, <1>2 DEF TypeOK
    <3> QED
      BY <2>1, <3>1 DEF HighInv
  <2> QED
    BY <2>2, <2>3
<1>8. ASSUME NEW d \in Callers, d # c, result[d] # 0, Standing(d), goal[c] = Absent
      PROVE  result[d] < l
  <2>1. result[d] <= View(d) /\ result[d] \in Int /\ tx[d] \in Txs \cup {Autocommit}
    BY <1>8 DEF HighInv, TypeOK
  <2>2. CASE writer # Autocommit /\ writer = tx[d]
    <3>1. tx[c] = tx[d]
      BY <2>2, <1>1 DEF CanWrite
    <3>2. View(d) = View(c)
      BY <3>1 DEF View
    <3> QED
      BY <2>1, <3>2, <1>4
  <2>3. CASE ~(writer # Autocommit /\ writer = tx[d])
    <3>1. View(d) = level
      BY <2>3 DEF View
    <3> QED
      BY <2>1, <3>1, <1>4 DEF TypeOK
  <2> QED
    BY <2>2, <2>3
<1>9. OpenInv'
  <2> SUFFICES ASSUME NEW d \in Callers, result'[d] # 0, tx[d] # Autocommit, outcome[tx[d]] = "open"
               PROVE  writer' = tx[d] /\ level' < result'[d]
    BY <1>1 DEF OpenInv
  <2>1. CASE d = c
    BY <2>1, <1>1, <1>2, <1>4, <1>5 DEF TypeOK
  <2>2. CASE d # c
    <3>1. result'[d] = result[d] /\ writer = tx[d] /\ level < result[d]
      BY <2>2, <1>2 DEF OpenInv, TypeOK
    <3> QED
      BY <3>1, <1>1 DEF CanWrite
  <2> QED
    BY <2>1, <2>2
<1>10. LoopInv'
  <2> SUFFICES ASSUME NEW d \in Callers, Connected(d)
               PROVE  /\ pc'[d] \in {"insert", "recheck"} => base[d] + attempt[d] - 1 <= Absent
                      /\ pc'[d] = "update" =>
                           /\ base[d] + attempt[d] - 1 <= seen[d] /\ seen[d] <= View(d)'
                           /\ seen[d] # Absent
                           /\ seen[d] < IF goal[d] = Absent THEN MaxLevel ELSE goal[d]
    BY <1>4 DEF LoopInv
  <2>1. seen[d] \in Int /\ View(d) \in Int /\ View(d)' \in Int /\ View(d) <= View(d)'
    BY <1>1, <1>4 DEF TypeOK
  <2>2. pc'[d] = "done" \/ pc'[d] = pc[d]
    BY <1>2 DEF TypeOK
  <2> QED
    BY <2>1, <2>2 DEF LoopInv
<1>11. UniqueIds'
  <2> SUFFICES ASSUME NEW d \in Callers, NEW e \in Callers, d # e, result'[d] # 0,
                      result'[e] # 0, Standing(d), Standing(e)
               PROVE  result'[d] # result'[e]
    BY <1>4 DEF UniqueIds
  <2>1. CASE d # c /\ e # c
    BY <2>1, <1>2 DEF UniqueIds, TypeOK
  <2>2. CASE d = c
    <3>1. result'[d] = l /\ goal[c] = Absent /\ result'[e] = result[e]
      BY <2>2, <1>2, <1>5 DEF TypeOK
    <3>2. result[e] < l
      BY <2>2, <3>1, <1>8
    <3> QED
      BY <3>1, <3>2 DEF TypeOK
  <2>3. CASE e = c
    <3>1. result'[e] = l /\ goal[c] = Absent /\ result'[d] = result[d]
      BY <2>3, <1>2, <1>5 DEF TypeOK
    <3>2. result[d] < l
      BY <2>3, <3>1, <1>8
    <3> QED
      BY <3>1, <3>2 DEF TypeOK
  <2> QED
    BY <2>1, <2>2, <2>3
<1>12. FloorRespected'
  <2>1. promised[c] <= View(c) /\ promised[c] \in Int
    BY <1>5 DEF HighInv, TypeOK
  <2>2. l > promised[c]
    BY <2>1, <1>4
  <2> QED
    BY <1>2, <2>2 DEF FloorRespected, TypeOK
<1>13. ContentionBound'
  <2> SUFFICES ASSUME NEW d \in Callers, pc'[d] # "idle", Connected(d)
               PROVE  attempt[d] - (IF pc'[d] = "exhausted" THEN 0 ELSE 1) <= View(d)' - base[d]
    BY <1>4 DEF ContentionBound
  <2>1. /\ base[d] \in Int /\ View(d) \in Int /\ View(d)' \in Int /\ attempt[d] \in Int
        /\ View(d) <= View(d)'
    BY <1>1, <1>4 DEF TypeOK
  <2>2. pc[d] # "idle" /\ (pc'[d] = "exhausted" <=> pc[d] = "exhausted")
    BY <1>2 DEF TypeOK
  <2> QED
    BY <2>1, <2>2 DEF ContentionBound
<1> QED
  BY <1>1, <1>3, <1>6, <1>7, <1>9, <1>10, <1>11, <1>12, <1>13

\* The same store, but the statement raised: the number is lost to c.
LEMMA LostInv ==
  ASSUME IInv, NEW c \in Callers, NEW l \in Levels, CanWrite(c), View(c) < l,
         NEW q \in {"recheck", "failed"}, pc[c] \in {"insert", "update"},
         q = "recheck" => pc[c] = "insert",
         Store(c, l), pc' = [pc EXCEPT ![c] = q],
         UNCHANGED <<tx, goal, seen, attempt, result, base, promised>>
  PROVE  IInv'
<1> USE DEF IInv
<1>1. /\ level' \in Levels /\ writer' \in Txs \cup {Autocommit} /\ dirty' \in Levels
      /\ outcome' = outcome /\ LockInv' /\ View(c)' = l
      /\ \A d \in Callers : View(d)' \in Levels /\ View(d)' >= View(d)
      /\ tx[c] # Autocommit => writer' = tx[c] /\ level' = level
      /\ tx[c] = Autocommit => writer = Autocommit /\ writer' = Autocommit /\ level' = l
  BY StoreEffect, ViewType DEF TypeOK
<1>2. TypeOK'
  BY <1>1 DEF TypeOK
<1>3. \A d \in Callers : /\ View(d) \in Levels
                         /\ (Connected(d)' <=> Connected(d)) /\ (Standing(d)' <=> Standing(d))
  BY <1>1, ViewType DEF Connected, Standing
<1>4. CallInv'
  BY DEF CallInv, TypeOK
<1>5. HighInv'
  <2> SUFFICES ASSUME NEW d \in Callers, Standing(d)
               PROVE  /\ result[d] <= View(d)' \/ result[d] = 0
                      /\ pc'[d] = "done" => goal[d] <= View(d)'
                      /\ pc'[d] # "idle" => promised[d] <= View(d)'
    BY <1>3 DEF HighInv
  <2>1. /\ result[d] \in Int /\ goal[d] \in Int /\ promised[d] \in Int
        /\ View(d) \in Int /\ View(d)' \in Int /\ View(d) <= View(d)'
    BY <1>1, <1>3, Numbers
  <2>2. /\ pc'[d] = "done" => pc[d] = "done"
        /\ pc'[d] # "idle" => pc[d] # "idle"
    BY DEF TypeOK
  <2> QED
    BY <2>1, <2>2 DEF HighInv
<1>6. OpenInv'
  <2> SUFFICES ASSUME NEW d \in Callers, result[d] # 0, tx[d] # Autocommit, outcome[tx[d]] = "open"
               PROVE  writer' = tx[d] /\ level' < result[d]
    BY <1>1 DEF OpenInv
  <2>1. writer = tx[d] /\ level < result[d]
    BY DEF OpenInv
  <2> QED
    BY <2>1, <1>1 DEF CanWrite
<1>7. LoopInv'
  <2> SUFFICES ASSUME NEW d \in Callers, Connected(d)
               PROVE  /\ pc'[d] \in {"insert", "recheck"} => base[d] + attempt[d] - 1 <= Absent
                      /\ pc'[d] = "update" =>
                           /\ base[d] + attempt[d] - 1 <= seen[d] /\ seen[d] <= View(d)'
                           /\ seen[d] # Absent
                           /\ seen[d] < IF goal[d] = Absent THEN MaxLevel ELSE goal[d]
    BY <1>3 DEF LoopInv
  <2>1. seen[d] \in Int /\ View(d) \in Int /\ View(d)' \in Int /\ View(d) <= View(d)'
    BY <1>1, <1>3 DEF TypeOK
  <2>2. \/ pc'[d] = "failed" \/ pc'[d] = pc[d]
        \/ pc'[d] = "recheck" /\ pc[d] = "insert"
    BY DEF TypeOK
  <2> QED
    BY <2>1, <2>2 DEF LoopInv
<1>8. UniqueIds' /\ FloorRespected'
  BY <1>3 DEF UniqueIds, FloorRespected
<1>9. ContentionBound'
  <2> SUFFICES ASSUME NEW d \in Callers, pc'[d] # "idle", Connected(d)
               PROVE  attempt[d] - (IF pc'[d] = "exhausted" THEN 0 ELSE 1) <= View(d)' - base[d]
    BY <1>3 DEF ContentionBound
  <2>1. /\ base[d] \in Int /\ View(d) \in Int /\ View(d)' \in Int /\ attempt[d] \in Int
        /\ View(d) <= View(d)'
    BY <1>1, <1>3 DEF TypeOK
  <2>2. pc[d] # "idle" /\ (pc'[d] = "exhausted" <=> pc[d] = "exhausted")
    BY DEF TypeOK
  <2> QED
    BY <2>1, <2>2 DEF ContentionBound
<1> QED
  BY <1>1, <1>2, <1>4, <1>5, <1>6, <1>7, <1>8, <1>9

-----------------------------------------------------------------------------
(* The actions *)

LEMMA CallStep ==
  ASSUME IInv, NEW c \in Callers, NEW t \in Txs \cup {Autocommit},
         NEW g \in Floors \cup {Absent}, Call(c, t, g)
  PROVE  IInv'
<1> USE DEF IInv
<1>1. /\ pc[c] = "idle" /\ result[c] = 0 /\ tx[c] = Autocommit
      /\ t # Autocommit => outcome[t] = "open"
      /\ pc' = [pc EXCEPT ![c] = "read"] /\ tx' = [tx EXCEPT ![c] = t]
      /\ goal' = [goal EXCEPT ![c] = g] /\ attempt' = [attempt EXCEPT ![c] = 1]
      /\ base' = [base EXCEPT ![c] = IF writer # Autocommit /\ writer = t THEN dirty ELSE level]
      /\ UNCHANGED <<seen, result, level, writer, dirty, outcome>>
  BY DEF Call, row, CallInv
<1>2. PICK f \in InForce(t) : promised' = [promised EXCEPT ![c] = f]
  BY DEF Call
<1>3. /\ View(c)' = base'[c] /\ base'[c] \in Levels /\ View(c)' >= level
      /\ Standing(c)'
  BY <1>1 DEF View, TypeOK, Standing, LockInv
<1>4. \A d \in Callers \ {c} : /\ View(d)' = View(d) /\ (Connected(d)' <=> Connected(d))
                               /\ (Standing(d)' <=> Standing(d))
                               /\ pc'[d] = pc[d] /\ tx'[d] = tx[d] /\ goal'[d] = goal[d]
                               /\ attempt'[d] = attempt[d] /\ base'[d] = base[d]
                               /\ promised'[d] = promised[d]
  BY <1>1, <1>2 DEF View, Connected, Standing, TypeOK
<1>5. \A d \in Callers : View(d) \in Levels /\ View(d) >= level
  BY ViewType
<1>6. f \in Levels /\ f <= View(c)'
  <2>1. CASE f = Absent
    BY <2>1, <1>3
  <2>2. ASSUME NEW d \in Callers, pc[d] = "done", Kept(d) \/ tx[d] = t, f = goal[d]
        PROVE  f \in Levels /\ f <= View(c)'
    <3>1. d # c /\ goal[d] \in Levels /\ goal[d] \in Int /\ level \in Int /\ dirty \in Int
      BY <2>2, <1>1 DEF TypeOK
    <3>2. Standing(d)
      BY <2>2, <1>1 DEF Kept, Standing
    <3>3. goal[d] <= View(d)
      BY <2>2, <3>2 DEF HighInv
    <3>4. View(d) = level \/ tx[d] = t
      BY <2>2 DEF Kept, View, LockInv
    <3>5. CASE tx[d] = t
      <4>1. View(d) = View(c)'
        BY <3>5, <1>1 DEF View, TypeOK
      <4> QED
        BY <2>2, <3>1, <3>3, <4>1
    <3>6. CASE View(d) = level
      BY <2>2, <3>1, <3>3, <3>6, <1>3
    <3> QED
      BY <3>4, <3>5, <3>6
  <2> QED
    BY <1>2, <2>1, <2>2 DEF InForce
<1>7. TypeOK'
  BY <1>1, <1>2, <1>3, <1>6 DEF TypeOK
<1>8. LockInv' /\ CallInv'
  BY <1>1, <1>4 DEF LockInv, CallInv, TypeOK
<1>9. HighInv'
  <2> SUFFICES ASSUME NEW d \in Callers, Standing(d)'
               PROVE  /\ result'[d] <= View(d)' \/ result'[d] = 0
                      /\ pc'[d] = "done" => goal'[d] <= View(d)'
                      /\ pc'[d] # "idle" => promised'[d] <= View(d)'
    BY DEF HighInv
  <2>1. CASE d = c
    BY <2>1, <1>1, <1>2, <1>6 DEF TypeOK
  <2>2. CASE d # c
    BY <2>2, <1>1, <1>4 DEF HighInv
  <2> QED
    BY <2>1, <2>2
<1>10. OpenInv'
  BY <1>1, <1>4 DEF OpenInv
<1>11. LoopInv'
  <2> SUFFICES ASSUME NEW d \in Callers, d # c, Connected(d)'
               PROVE  /\ pc'[d] \in {"insert", "recheck"} => base'[d] + attempt'[d] - 1 <= Absent
                      /\ pc'[d] = "update" =>
                           /\ base'[d] + attempt'[d] - 1 <= seen'[d] /\ seen'[d] <= View(d)'
                           /\ seen'[d] # Absent
                           /\ seen'[d] < IF goal'[d] = Absent THEN MaxLevel ELSE goal'[d]
    BY <1>1 DEF LoopInv, TypeOK
  <2> QED
    BY <1>1, <1>4 DEF LoopInv
<1>12. UniqueIds'
  BY <1>1, <1>4 DEF UniqueIds
<1>13. FloorRespected'
  BY <1>1, <1>4 DEF FloorRespected
<1>14. ContentionBound'
  <2> SUFFICES ASSUME NEW d \in Callers, pc'[d] # "idle", Connected(d)'
               PROVE  attempt'[d] - (IF pc'[d] = "exhausted" THEN 0 ELSE 1) <= View(d)' - base'[d]
    BY DEF ContentionBound
  <2>1. CASE d = c
    BY <2>1, <1>1, <1>3 DEF TypeOK
  <2>2. CASE d # c
    BY <2>2, <1>1, <1>4 DEF ContentionBound
  <2> QED
    BY <2>1, <2>2
<1> QED
  BY <1>7, <1>8, <1>9, <1>10, <1>11, <1>12, <1>13, <1>14

LEMMA ReadStep ==
  ASSUME IInv, NEW c \in Callers, Read(c)
  PROVE  IInv'
<1>1. /\ pc[c] = "read" /\ Connected(c)
      /\ seen' = [seen EXCEPT ![c] = View(c)]
      /\ pc' = [pc EXCEPT ![c] = AfterRead(c, View(c))]
      /\ UNCHANGED <<tx, goal, attempt, result, base, promised, row>>
  BY DEF Read
<1>2. View(c) \in Levels
  BY ViewType DEF IInv
<1>3. /\ AfterRead(c, View(c)) \in {"insert", "failed", "done", "update"}
      /\ AfterRead(c, View(c)) = "insert" => View(c) = Absent
      /\ AfterRead(c, View(c)) = "done" => goal[c] <= View(c)
      /\ AfterRead(c, View(c)) = "update" =>
           View(c) # Absent /\ View(c) < IF goal[c] = Absent THEN MaxLevel ELSE goal[c]
  BY <1>2 DEF AfterRead, IInv, TypeOK
<1>4. TypeOK'
  BY <1>1, <1>2, <1>3 DEF IInv, TypeOK, row
<1>5. base[c] + attempt[c] - 1 <= View(c)
  BY <1>1, <1>2 DEF IInv, ContentionBound, TypeOK
<1>6. pc'[c] = AfterRead(c, View(c)) /\ seen'[c] = View(c) /\ attempt'[c] = attempt[c]
  BY <1>1 DEF IInv, TypeOK
<1>7. \A d \in Callers \ {c} : pc'[d] = pc[d] /\ seen'[d] = seen[d] /\ attempt'[d] = attempt[d]
  BY <1>1 DEF IInv, TypeOK
<1> QED
  BY <1>1, <1>2, <1>3, <1>4, <1>5, <1>6, <1>7, QuietInv DEF IInv, TypeOK

\* What going round the loop leaves.
LEMMA RetryEffect ==
  ASSUME TypeOK, NEW c \in Callers, Retry(c), UNCHANGED seen
  PROVE  /\ pc' \in [Callers -> PC] /\ attempt' \in [Callers -> 0 .. MaxAttempts]
         /\ \/ pc'[c] = "read" /\ attempt'[c] = attempt[c] + 1
            \/ pc'[c] = "exhausted" /\ attempt'[c] = attempt[c]
         /\ \A d \in Callers \ {c} :
              pc'[d] = pc[d] /\ seen'[d] = seen[d] /\ attempt'[d] = attempt[d]
BY DEF Retry, TypeOK

LEMMA RecheckStep ==
  ASSUME IInv, NEW c \in Callers, Recheck(c)
  PROVE  IInv'
<1>1. /\ pc[c] = "recheck" /\ Connected(c)
      /\ UNCHANGED <<tx, goal, seen, result, base, promised, row>>
  BY DEF Recheck
<1>2. View(c) \in Levels /\ base[c] \in Levels /\ attempt[c] \in Int
  BY ViewType DEF IInv, TypeOK
<1>3. base[c] + attempt[c] - 1 <= Absent
  BY <1>1 DEF IInv, LoopInv
<1>4. CASE View(c) = Absent
  <2>1. pc' = [pc EXCEPT ![c] = "failed"] /\ attempt' = attempt
    BY <1>4 DEF Recheck
  <2>2. TypeOK'
    BY <1>1, <2>1 DEF IInv, TypeOK, row
  <2>3. pc'[c] = "failed" /\ \A d \in Callers \ {c} : pc'[d] = pc[d]
    BY <2>1 DEF IInv, TypeOK
  <2> QED
    BY <1>1, <1>2, <1>3, <1>4, <2>1, <2>2, <2>3, QuietInv
<1>5. CASE View(c) # Absent
  <2>1. Retry(c)
    BY <1>5 DEF Recheck
  <2>2. /\ pc' \in [Callers -> PC] /\ attempt' \in [Callers -> 0 .. MaxAttempts]
        /\ \/ pc'[c] = "read" /\ attempt'[c] = attempt[c] + 1
           \/ pc'[c] = "exhausted" /\ attempt'[c] = attempt[c]
        /\ \A d \in Callers \ {c} :
             pc'[d] = pc[d] /\ seen'[d] = seen[d] /\ attempt'[d] = attempt[d]
    BY <1>1, <2>1, RetryEffect DEF IInv
  <2>3. TypeOK'
    BY <1>1, <2>2 DEF IInv, TypeOK, row
  <2> QED
    BY <1>1, <1>2, <1>3, <1>5, <2>2, <2>3, QuietInv
<1> QED
  BY <1>4, <1>5

LEMMA RaiseStep ==
  ASSUME IInv, NEW c \in Callers, Raise(c) \/ Disconnected(c)
  PROVE  IInv'
<1>1. /\ pc[c] \in {"read", "insert", "recheck", "update"}
      /\ UNCHANGED <<tx, goal, seen, attempt, result, base, promised, row>>
  BY DEF Raise, Disconnected
<1> DEFINE q == IF pc[c] = "insert" THEN "recheck" ELSE "failed"
<1>a. pc' = [pc EXCEPT ![c] = q] \/ pc' = [pc EXCEPT ![c] = "failed"]
  BY DEF Raise, Disconnected
<1>2. /\ \A d \in Callers \ {c} : pc'[d] = pc[d]
      /\ pc'[c] = "failed" \/ (pc'[c] = "recheck" /\ pc[c] = "insert")
      /\ pc' \in [Callers -> PC]
  BY <1>a DEF IInv, TypeOK
<1>3. TypeOK'
  BY <1>1, <1>2 DEF IInv, TypeOK, row
<1>4. Connected(c) => base[c] + attempt[c] - 1 <= View(c)
  <2>1. View(c) \in Int /\ base[c] \in Int /\ attempt[c] \in Int
    BY ViewType DEF IInv, TypeOK
  <2> QED
    BY <1>1, <2>1 DEF IInv, ContentionBound
<1>5. Connected(c) /\ pc'[c] = "recheck" => base[c] + attempt[c] - 1 <= Absent
  BY <1>2 DEF IInv, LoopInv
<1> QED
  BY <1>1, <1>2, <1>3, <1>4, <1>5, QuietInv

\* The first level c is about to write is a level, above having none.
LEMMA InsertLevel ==
  ASSUME TypeOK, NEW c \in Callers
  PROVE  /\ NextLevel(c, Absent) \in Levels /\ Absent < NextLevel(c, Absent)
         /\ goal[c] = Absent => NextLevel(c, Absent) >= 1
         /\ goal[c] # Absent => NextLevel(c, Absent) = goal[c]
<1>1. goal[c] \in Floors \cup {Absent}
  BY DEF TypeOK
<1>2. \A f \in Floors : f \in 0 .. MaxLevel
  OBVIOUS
<1>3. CASE goal[c] = Absent
  BY <1>3 DEF NextLevel
<1>4. CASE goal[c] # Absent
  <2>1. goal[c] \in Floors
    BY <1>1, <1>4
  <2>2. goal[c] \in 0 .. MaxLevel
    BY <1>2, <2>1
  <2> QED
    BY <1>4, <2>2 DEF NextLevel
<1> QED
  BY <1>3, <1>4

LEMMA InsertStep ==
  ASSUME IInv, NEW c \in Callers, Insert(c)
  PROVE  IInv'
<1> DEFINE l == NextLevel(c, Absent)
<1>1. pc[c] = "insert" /\ CanWrite(c) /\ UNCHANGED <<tx, goal, seen, attempt, base, promised>>
  BY DEF Insert
<1>3. /\ l \in Levels /\ Absent < l
      /\ goal[c] = Absent => l >= 1
      /\ goal[c] # Absent => l = goal[c]
  BY InsertLevel DEF IInv
<1>4. CASE View(c) = Absent /\ Store(c, l) /\ Return(c, l)
  <2> HIDE DEF l
  <2> QED
    BY <1>1, <1>3, <1>4, ReturnInv
<1>5. CASE View(c) # Absent /\ pc' = [pc EXCEPT ![c] = "recheck"] /\ UNCHANGED <<result, row>>
  <2>1. TypeOK'
    BY <1>1, <1>5 DEF IInv, TypeOK, row
  <2>2. pc'[c] = "recheck" /\ \A d \in Callers \ {c} : pc'[d] = pc[d]
    BY <1>5 DEF IInv, TypeOK
  <2>3. Connected(c) /\ View(c) \in Int /\ base[c] \in Int /\ attempt[c] \in Int
    BY <1>1, ViewType, Numbers DEF CanWrite, IInv
  <2>4. base[c] + attempt[c] - 1 <= Absent
    BY <1>1, <2>3 DEF IInv, LoopInv
  <2>5. base[c] + attempt[c] - 1 <= View(c)
    BY <1>1, <2>3 DEF IInv, ContentionBound
  <2> QED
    BY <1>1, <1>5, <2>1, <2>2, <2>4, <2>5, QuietInv
<1>6. CASE View(c) = Absent /\ Store(c, l) /\ pc' = [pc EXCEPT ![c] = "recheck"] /\ UNCHANGED result
  <2> HIDE DEF l
  <2> QED
    BY <1>1, <1>3, <1>6, LostInv
<1> QED
  BY <1>4, <1>5, <1>6 DEF Insert

\* What c is about to write is above what it sees.
LEMMA UpdateLevel ==
  ASSUME IInv, NEW c \in Callers, pc[c] = "update", Connected(c)
  PROVE  /\ NextLevel(c, seen[c]) \in Levels /\ seen[c] < NextLevel(c, seen[c])
         /\ goal[c] = Absent => NextLevel(c, seen[c]) >= 1
         /\ goal[c] # Absent => NextLevel(c, seen[c]) = goal[c]
         /\ base[c] + attempt[c] - 1 <= seen[c] /\ seen[c] <= View(c)
<1>1. /\ base[c] + attempt[c] - 1 <= seen[c] /\ seen[c] <= View(c) /\ seen[c] # Absent
      /\ seen[c] < IF goal[c] = Absent THEN MaxLevel ELSE goal[c]
  BY DEF IInv, LoopInv
<1>2. seen[c] \in Levels /\ goal[c] \in Floors \cup {Absent}
  BY DEF IInv, TypeOK
<1>a. \A f \in Floors : f \in 0 .. MaxLevel
  OBVIOUS
<1>3. CASE goal[c] = Absent
  BY <1>1, <1>2, <1>3 DEF NextLevel
<1>4. CASE goal[c] # Absent
  <2>1. goal[c] \in Floors
    BY <1>2, <1>4
  <2>2. goal[c] \in 0 .. MaxLevel
    BY <1>a, <2>1
  <2> QED
    BY <1>1, <1>4, <2>2 DEF NextLevel
<1> QED
  BY <1>3, <1>4

LEMMA UpdateStep ==
  ASSUME IInv, NEW c \in Callers, Update(c)
  PROVE  IInv'
<1> DEFINE l == NextLevel(c, seen[c])
<1>1. /\ pc[c] = "update" /\ CanWrite(c) /\ Connected(c)
      /\ UNCHANGED <<tx, goal, seen, base, promised>>
  BY DEF Update, CanWrite
<1>2. /\ l \in Levels /\ seen[c] < l
      /\ goal[c] = Absent => l >= 1
      /\ goal[c] # Absent => l = goal[c]
      /\ base[c] + attempt[c] - 1 <= seen[c] /\ seen[c] <= View(c)
  BY <1>1, UpdateLevel
<1>3. CASE View(c) = seen[c] /\ Store(c, l) /\ Return(c, l) /\ UNCHANGED attempt
  <2> HIDE DEF l
  <2> QED
    BY <1>1, <1>2, <1>3, ReturnInv
<1>4. CASE View(c) # seen[c] /\ Retry(c) /\ UNCHANGED <<result, row>>
  <2>1. /\ pc' \in [Callers -> PC] /\ attempt' \in [Callers -> 0 .. MaxAttempts]
        /\ \/ pc'[c] = "read" /\ attempt'[c] = attempt[c] + 1
           \/ pc'[c] = "exhausted" /\ attempt'[c] = attempt[c]
        /\ \A d \in Callers \ {c} :
             pc'[d] = pc[d] /\ seen'[d] = seen[d] /\ attempt'[d] = attempt[d]
    BY <1>1, <1>4, RetryEffect DEF IInv
  <2>2. TypeOK'
    BY <1>1, <1>4, <2>1 DEF IInv, TypeOK, row
  <2>3. View(c) \in Int /\ base[c] \in Int /\ attempt[c] \in Int /\ seen[c] \in Int
    BY ViewType, Numbers DEF IInv
  <2>4. base[c] + attempt[c] <= View(c)
    BY <1>2, <1>4, <2>3
  <2> QED
    BY <1>1, <1>4, <2>1, <2>2, <2>3, <2>4, QuietInv
<1>5. CASE View(c) = seen[c] /\ Store(c, l) /\ pc' = [pc EXCEPT ![c] = "failed"]
             /\ UNCHANGED <<result, attempt>>
  <2> HIDE DEF l
  <2> QED
    BY <1>1, <1>2, <1>5, LostInv
<1> QED
  BY <1>3, <1>4, <1>5 DEF Update

-----------------------------------------------------------------------------
(* The end of a transaction *)

\* Nobody's view falls unless its transaction is undone.
LEMMA EndInv ==
  ASSUME IInv, UNCHANGED caller, TypeOK', LockInv', OpenInv',
         \A d \in Callers :
           /\ Connected(d)' => Connected(d)
           /\ Standing(d)' => Standing(d) /\ View(d)' >= View(d)
  PROVE  IInv'
<1>1. UNCHANGED <<pc, tx, goal, seen, attempt, result, base, promised>>
  BY DEF caller
<1>2. ASSUME NEW d \in Callers
      PROVE  /\ View(d) \in Int /\ View(d)' \in Int /\ seen[d] \in Int /\ attempt[d] \in Int
             /\ result[d] \in Int /\ goal[d] \in Int /\ base[d] \in Int /\ promised[d] \in Int
  <2>1. View(d)' \in Int
    BY DEF View, TypeOK
  <2> QED
    BY <2>1, ViewType, Numbers DEF IInv
<1>3. \A d \in Callers : Connected(d)' => Standing(d)' /\ View(d)' >= View(d)
  BY DEF Connected, Standing
<1>4. CallInv'
  BY <1>1 DEF CallInv, IInv
<1>5. HighInv'
  BY <1>1, <1>2 DEF HighInv, IInv
<1>6. LoopInv'
  <2> SUFFICES ASSUME NEW d \in Callers, Connected(d)'
               PROVE  /\ pc[d] \in {"insert", "recheck"} => base[d] + attempt[d] - 1 <= Absent
                      /\ pc[d] = "update" =>
                           /\ base[d] + attempt[d] - 1 <= seen[d] /\ seen[d] <= View(d)'
                           /\ seen[d] # Absent
                           /\ seen[d] < IF goal[d] = Absent THEN MaxLevel ELSE goal[d]
    BY <1>1 DEF LoopInv
  <2> QED
    BY <1>2, <1>3 DEF LoopInv, IInv
<1>7. UniqueIds' /\ FloorRespected'
  BY <1>1 DEF UniqueIds, FloorRespected, IInv
<1>8. ContentionBound'
  <2> SUFFICES ASSUME NEW d \in Callers, pc[d] # "idle", Connected(d)'
               PROVE  attempt[d] - (IF pc[d] = "exhausted" THEN 0 ELSE 1) <= View(d)' - base[d]
    BY <1>1 DEF ContentionBound
  <2>1. attempt[d] - (IF pc[d] = "exhausted" THEN 0 ELSE 1) <= View(d) - base[d]
    BY DEF ContentionBound, IInv
  <2> QED
    BY <1>2, <1>3, <2>1
<1> QED
  BY <1>4, <1>5, <1>6, <1>7, <1>8 DEF IInv

LEMMA CommitStep ==
  ASSUME IInv, NEW t \in Txs, Commit(t)
  PROVE  IInv'
<1>1. /\ outcome[t] = "open" /\ outcome' = [outcome EXCEPT ![t] = "committed"]
      /\ UNCHANGED caller
      /\ writer = t => level' = dirty /\ writer' = Autocommit /\ dirty' = Absent
      /\ writer # t => UNCHANGED <<level, writer, dirty>>
  BY DEF Commit
<1>2. TypeOK /\ LockInv /\ OpenInv
  BY DEF IInv
<1>3. UNCHANGED <<pc, tx, goal, seen, attempt, result, base, promised>>
  BY <1>1 DEF caller
<1>4. TypeOK'
  BY <1>1, <1>2, <1>3 DEF TypeOK
<1>5. LockInv'
  BY <1>1, <1>2 DEF LockInv, TypeOK
<1>6. OpenInv'
  BY <1>1, <1>2, <1>3 DEF OpenInv, TypeOK
<1>7. ASSUME NEW d \in Callers
      PROVE  /\ Connected(d)' => Connected(d)
             /\ Standing(d)' => Standing(d) /\ View(d)' >= View(d)
  <2>1. Connected(d)' => Connected(d)
    BY <1>1, <1>2, <1>3 DEF Connected, TypeOK
  <2>2. Standing(d)' => Standing(d)
    BY <1>1, <1>2, <1>3 DEF Standing, TypeOK
  <2>3. View(d)' >= View(d)
    BY <1>1, <1>2, <1>3 DEF View, TypeOK, LockInv
  <2> QED
    BY <2>1, <2>2, <2>3
<1> QED
  BY <1>1, <1>4, <1>5, <1>6, <1>7, EndInv

LEMMA RollbackStep ==
  ASSUME IInv, NEW t \in Txs, Rollback(t)
  PROVE  IInv'
<1>1. /\ outcome[t] = "open" /\ outcome' = [outcome EXCEPT ![t] = "rolledback"]
      /\ UNCHANGED <<level, caller>>
      /\ writer = t => writer' = Autocommit /\ dirty' = Absent
      /\ writer # t => UNCHANGED <<writer, dirty>>
  BY DEF Rollback
<1>2. TypeOK /\ LockInv /\ OpenInv
  BY DEF IInv
<1>3. UNCHANGED <<pc, tx, goal, seen, attempt, result, base, promised>>
  BY <1>1 DEF caller
<1>4. TypeOK'
  BY <1>1, <1>2, <1>3 DEF TypeOK
<1>5. LockInv'
  BY <1>1, <1>2 DEF LockInv, TypeOK
<1>6. OpenInv'
  BY <1>1, <1>2, <1>3 DEF OpenInv, TypeOK
<1>7. ASSUME NEW d \in Callers
      PROVE  /\ Connected(d)' => Connected(d)
             /\ Standing(d)' => Standing(d) /\ View(d)' >= View(d)
  <2>1. Connected(d)' => Connected(d)
    BY <1>1, <1>2, <1>3 DEF Connected, TypeOK
  <2>2. Standing(d)' => Standing(d) /\ tx[d] # t
    BY <1>1, <1>2, <1>3 DEF Standing, TypeOK
  <2>3. tx[d] # t => View(d)' = View(d) /\ View(d) \in Int
    BY <1>1, <1>2, <1>3 DEF View, TypeOK, LockInv
  <2> QED
    BY <2>1, <2>2, <2>3
<1> QED
  BY <1>1, <1>4, <1>5, <1>6, <1>7, EndInv

-----------------------------------------------------------------------------
(* The theorems *)

LEMMA StutterInv == IInv /\ UNCHANGED vars => IInv'
<1> SUFFICES ASSUME IInv, UNCHANGED vars PROVE IInv'
  OBVIOUS
<1>1. UNCHANGED <<pc, tx, goal, seen, attempt, result, base, promised>>
      /\ UNCHANGED <<level, writer, dirty, outcome>>
  BY DEF vars, caller, row
<1>2. TypeOK' /\ LockInv' /\ OpenInv'
  BY <1>1 DEF IInv, TypeOK, LockInv, OpenInv
<1>3. \A d \in Callers : /\ Connected(d)' => Connected(d)
                         /\ Standing(d)' => Standing(d) /\ View(d)' >= View(d)
  <2>1. \A d \in Callers : View(d) \in Int
    BY ViewType DEF IInv
  <2> QED
    BY <1>1, <2>1 DEF Connected, Standing, View
<1> QED
  BY <1>1, <1>2, <1>3, EndInv DEF caller

LEMMA NextInv == IInv /\ [Next]_vars => IInv'
<1> SUFFICES ASSUME IInv, [Next]_vars PROVE IInv'
  OBVIOUS
<1>1. ASSUME NEW c \in Callers, NEW t \in Txs \cup {Autocommit}, NEW g \in Floors \cup {Absent},
             Call(c, t, g)
      PROVE  IInv'
  BY <1>1, CallStep
<1>2. ASSUME NEW c \in Callers, Step(c) \/ Raise(c)
      PROVE  IInv'
  BY <1>2, ReadStep, InsertStep, RecheckStep, UpdateStep, RaiseStep DEF Step
<1>3. ASSUME NEW t \in Txs, End(t)
      PROVE  IInv'
  BY <1>3, CommitStep, RollbackStep DEF End
<1>4. CASE UNCHANGED vars
  BY <1>4, StutterInv
<1> QED
  BY <1>1, <1>2, <1>3, <1>4 DEF Next

\* In every behaviour, for any calls and transactions, the inductive invariant holds.
THEOREM Inductive == Spec => []IInv
<1>1. Init => IInv
  BY InitInv
<1>2. IInv /\ [Next]_vars => IInv'
  BY NextInv
<1> QED
  BY <1>1, <1>2, PTL DEF Spec

\* Levels and IDs stay within the sequence (executor.next_id's overflow check).
THEOREM TypeCorrect == Spec => []TypeOK
<1>1. IInv => TypeOK
  BY DEF IInv
<1> QED
  BY <1>1, Inductive, PTL

\* However many calls race, in and out of transactions, no two of them own the
\* same ID (the compare-and-swap of next_id).
THEOREM Unique == Spec => []UniqueIds
<1>1. IInv => UniqueIds
  BY DEF IInv
<1> QED
  BY <1>1, Inductive, PTL

\* An ID allocated after ensure_id_floor(f) returned is above f.
THEOREM Floor == Spec => []FloorRespected
<1>1. IInv => FloorRespected
  BY DEF IInv
<1> QED
  BY <1>1, Inductive, PTL

\* A call gives up only when the level rose MAX_ID_ALLOCATION_ATTEMPTS times.
THEOREM Contention == Spec => []ContentionBound
<1>1. IInv => ContentionBound
  BY DEF IInv
<1> QED
  BY <1>1, Inductive, PTL

-----------------------------------------------------------------------------
(* IdSpace implements IdLedger *)

\* What a step that changes nothing but c's own fields shows outside.
LEMMA QuietRefines ==
  ASSUME TypeOK, UNCHANGED <<result, level, outcome>>,
         \A d \in Callers : tx'[d] = tx[d] \/ result[d] = 0
  PROVE  UNCHANGED <<level, Issued>>
<1>1. ASSUME NEW d \in Callers
      PROVE  (IF Kept(d) THEN result[d] ELSE 0)' = IF Kept(d) THEN result[d] ELSE 0
  BY DEF Kept
<1> QED
  BY <1>1 DEF Issued

\* A store above the level, kept by the caller or lost, is issued at once or not yet.
LEMMA StoreRefines ==
  ASSUME IInv, NEW c \in Callers, NEW l \in Levels, CanWrite(c), View(c) < l, Store(c, l),
         result[c] = 0, result' = result \/ result' = [result EXCEPT ![c] = l], UNCHANGED tx
  PROVE  Ledger!Issue \/ UNCHANGED <<level, Issued>>
<1>1. tx[c] # Autocommit => /\ level' = level /\ outcome' = outcome
                            /\ outcome[tx[c]] = "open"
  BY DEF Store, CanWrite, Connected
<1>2. tx[c] = Autocommit => level' = l /\ outcome' = outcome
  BY DEF Store
<1>3. \A d \in Callers : Kept(d)' <=> Kept(d)
  BY <1>1, <1>2 DEF Kept
<1>4. \A d \in Callers : d # c => Issued'[d] = Issued[d]
  BY <1>3 DEF Issued, IInv, TypeOK
<1>5. Issued[c] = 0
  BY DEF Issued
<1>6. View(c) >= level /\ View(c) \in Int /\ level \in Int
  BY ViewType DEF IInv, TypeOK
<1>7. CASE tx[c] # Autocommit
  <2>1. ~Kept(c)
    BY <1>1, <1>7 DEF Kept
  <2>2. Issued'[c] = 0
    BY <2>1, <1>3 DEF Issued
  <2>3. Issued' = Issued
    BY <1>4, <1>5, <2>2 DEF Issued
  <2> QED
    BY <1>1, <1>7, <2>3
<1>8. CASE tx[c] = Autocommit
  <2>1. Issued'[c] \in {0, l}
    BY DEF Issued, IInv, TypeOK
  <2>2. level' = l /\ l > level /\ l \in Int
    BY <1>2, <1>6, <1>8
  <2>3. \A d \in Callers : Issued'[d] = Issued[d] \/ Ledger!Fresh(d)
    BY <1>4, <1>5, <1>6, <2>1, <2>2 DEF Ledger!Fresh
  <2>4. \A d, e \in Callers :
          d # e /\ Issued'[d] # Issued[d] /\ Issued'[e] # Issued[e] => Issued'[d] # Issued'[e]
    BY <1>4
  <2> QED
    BY <1>6, <2>2, <2>3, <2>4 DEF Ledger!Issue
<1> QED
  BY <1>7, <1>8

LEMMA InsertRefines ==
  ASSUME IInv, NEW c \in Callers, Insert(c)
  PROVE  Ledger!Issue \/ UNCHANGED <<level, Issued>>
<1> DEFINE l == NextLevel(c, Absent)
<1>1. pc[c] = "insert" /\ CanWrite(c) /\ tx' = tx
  BY DEF Insert
<1>2. result[c] = 0
  BY <1>1 DEF IInv, CallInv
<1>4. CASE View(c) # Absent
  BY <1>1, <1>4, QuietRefines DEF Insert, IInv, row
<1>5. CASE View(c) = Absent
  <2>1. l \in Levels /\ Absent < l
    BY InsertLevel DEF IInv
  <2>2. Store(c, l)
    BY <1>5 DEF Insert
  <2>3. result' = result \/ result' = [result EXCEPT ![c] = l]
    BY <1>2, <1>5 DEF Insert, Return, IInv, TypeOK
  <2> HIDE DEF l
  <2> QED
    BY <1>1, <1>2, <1>5, <2>1, <2>2, <2>3, StoreRefines
<1> QED
  BY <1>4, <1>5

LEMMA UpdateRefines ==
  ASSUME IInv, NEW c \in Callers, Update(c)
  PROVE  Ledger!Issue \/ UNCHANGED <<level, Issued>>
<1> DEFINE l == NextLevel(c, seen[c])
<1>1. pc[c] = "update" /\ CanWrite(c) /\ Connected(c) /\ tx' = tx
  BY DEF Update, CanWrite
<1>2. result[c] = 0
  BY <1>1 DEF IInv, CallInv
<1>3. CASE View(c) # seen[c]
  BY <1>1, <1>3, QuietRefines DEF Update, IInv, row
<1>4. CASE View(c) = seen[c]
  <2>1. l \in Levels /\ View(c) < l
    BY <1>1, <1>4, UpdateLevel
  <2>2. Store(c, l)
    BY <1>4 DEF Update
  <2>3. result' = result \/ result' = [result EXCEPT ![c] = l]
    BY <1>2, <1>4 DEF Update, Return, IInv, TypeOK
  <2> HIDE DEF l
  <2> QED
    BY <1>1, <1>2, <2>1, <2>2, <2>3, StoreRefines
<1> QED
  BY <1>3, <1>4

\* A commit issues every ID of its transaction at once.
LEMMA CommitRefines ==
  ASSUME IInv, NEW t \in Txs, Commit(t)
  PROVE  Ledger!Issue \/ UNCHANGED <<level, Issued>>
<1>1. /\ outcome[t] = "open" /\ outcome' = [outcome EXCEPT ![t] = "committed"]
      /\ UNCHANGED <<tx, result>>
      /\ writer = t => level' = dirty
      /\ writer # t => UNCHANGED <<level, writer, dirty>>
  BY DEF Commit, caller
<1>2. TypeOK /\ LockInv /\ OpenInv /\ UniqueIds /\ HighInv
  BY DEF IInv
<1>3. level' >= level /\ level' \in Int /\ level \in Int
  BY <1>1, <1>2 DEF TypeOK, LockInv
<1>4. ASSUME NEW d \in Callers, Issued'[d] # Issued[d]
      PROVE  tx[d] = t /\ result[d] # 0 /\ Issued[d] = 0 /\ Issued'[d] = result[d]
  BY <1>1, <1>2, <1>4, AutocommitAssumption DEF Issued, Kept, TypeOK
<1>5. ASSUME NEW d \in Callers, Issued'[d] # Issued[d]
      PROVE  Standing(d) /\ result[d] \in (level + 1) .. level'
  <2>1. tx[d] = t /\ result[d] # 0 /\ result[d] \in Int
    BY <1>4, <1>5, Numbers DEF IInv
  <2>2. Standing(d)
    BY <1>1, <2>1 DEF Standing
  <2>3. writer = t /\ level < result[d]
    BY <1>1, <1>2, <2>1, AutocommitAssumption DEF OpenInv
  <2>4. View(d) = dirty
    BY <2>1, <2>3, AutocommitAssumption DEF View
  <2>5. result[d] <= dirty /\ level' = dirty
    BY <1>1, <1>2, <2>1, <2>2, <2>3, <2>4 DEF HighInv
  <2> QED
    BY <1>3, <2>1, <2>2, <2>3, <2>5
<1>6. \A d \in Callers : Issued'[d] = Issued[d] \/ Ledger!Fresh(d)
  BY <1>4, <1>5 DEF Ledger!Fresh
<1>7. \A d, e \in Callers :
        d # e /\ Issued'[d] # Issued[d] /\ Issued'[e] # Issued[e] => Issued'[d] # Issued'[e]
  BY <1>2, <1>4, <1>5 DEF UniqueIds
<1> QED
  BY <1>3, <1>6, <1>7 DEF Ledger!Issue

LEMMA RollbackRefines ==
  ASSUME IInv, NEW t \in Txs, Rollback(t)
  PROVE  UNCHANGED <<level, Issued>>
<1>1. /\ outcome[t] = "open" /\ outcome' = [outcome EXCEPT ![t] = "rolledback"]
      /\ UNCHANGED <<tx, result, level>>
  BY DEF Rollback, caller
<1>2. \A d \in Callers : Kept(d)' <=> Kept(d)
  BY <1>1 DEF Kept, IInv, TypeOK
<1> QED
  BY <1>1, <1>2 DEF Issued

LEMMA StepRefines == IInv /\ [Next]_vars => Ledger!Issue \/ UNCHANGED <<level, Issued>>
<1> SUFFICES ASSUME IInv, [Next]_vars PROVE Ledger!Issue \/ UNCHANGED <<level, Issued>>
  OBVIOUS
<1>1. TypeOK /\ CallInv
  BY DEF IInv
<1>2. ASSUME NEW c \in Callers, NEW t \in Txs \cup {Autocommit}, NEW g \in Floors \cup {Absent},
             Call(c, t, g)
      PROVE  UNCHANGED <<level, Issued>>
  <2>1. /\ pc[c] = "idle" /\ tx' = [tx EXCEPT ![c] = t]
        /\ UNCHANGED <<result, level, outcome>>
    BY <1>2 DEF Call, row
  <2>2. \A d \in Callers : tx'[d] = tx[d] \/ result[d] = 0
    BY <1>1, <2>1 DEF TypeOK, CallInv
  <2> QED
    BY <1>1, <2>1, <2>2, QuietRefines
<1>3. ASSUME NEW c \in Callers, Read(c) \/ Recheck(c) \/ Raise(c) \/ Disconnected(c)
      PROVE  UNCHANGED <<level, Issued>>
  <2>1. UNCHANGED <<tx, result, level, outcome>>
    BY <1>3 DEF Read, Recheck, Raise, Disconnected, row
  <2> QED
    BY <1>1, <2>1, QuietRefines
<1>4. ASSUME NEW c \in Callers, Insert(c) \/ Update(c)
      PROVE  Ledger!Issue \/ UNCHANGED <<level, Issued>>
  BY <1>4, InsertRefines, UpdateRefines
<1>5. ASSUME NEW t \in Txs, End(t)
      PROVE  Ledger!Issue \/ UNCHANGED <<level, Issued>>
  BY <1>5, CommitRefines, RollbackRefines DEF End
<1>6. CASE UNCHANGED vars
  BY <1>1, <1>6, QuietRefines DEF vars, caller, row
<1> QED
  BY <1>2, <1>3, <1>4, <1>5, <1>6 DEF Next, Step

\* What the committed rows show is the ledger: every ID is issued once, above
\* everything issued or reserved before.
THEOREM Refinement == Spec => ImplementsLedger
<1>1. Init => Ledger!Init
  BY DEF Init, Ledger!Init, Issued, Kept
<1>2. IInv /\ [Next]_vars => [Ledger!Issue]_<<level, Issued>>
  BY StepRefines
<1> QED
  BY <1>1, <1>2, Inductive, PTL DEF Spec, ImplementsLedger, Ledger!Spec

=============================================================================
