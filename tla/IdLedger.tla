----------------------------- MODULE IdLedger -----------------------------
(***************************************************************************)
(* What the ID space promises: the numbers handed out for good are fresh.  *)
(* A step raises the level and issues, to callers that had none, distinct  *)
(* numbers above the old level and not above the new one.  IdSpace         *)
(* implements this module, with a transaction issuing when it commits.     *)
(***************************************************************************)
EXTENDS Integers

CONSTANT Callers

VARIABLES
  level,    \* the highest number ever issued or reserved by a floor
  issued    \* issued[c]: the number caller c owns for good, 0 for none

Init ==
  /\ level = -1
  /\ issued = [c \in Callers |-> 0]

Fresh(c) == issued[c] = 0 /\ issued'[c] \in (level + 1) .. level'

Issue ==
  /\ level' >= level
  /\ \A c \in Callers : issued'[c] = issued[c] \/ Fresh(c)
  /\ \A c, d \in Callers :
       c # d /\ issued'[c] # issued[c] /\ issued'[d] # issued[d] => issued'[c] # issued'[d]

Spec == Init /\ [][Issue]_<<level, issued>>
=============================================================================
