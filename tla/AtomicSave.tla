---------------------------- MODULE AtomicSave ----------------------------
(***************************************************************************)
(* What one root graph save promises its caller, whatever happens inside:  *)
(* its writes reach the database all at once or not at all, an audit event *)
(* is announced only for a write that is already durable and at most once, *)
(* and the caller learns the outcome only after it is decided.             *)
(*                                                                         *)
(* A durable commit whose acknowledgement never arrives is a decision of   *)
(* its own ("Lose"): the caller is told that the save failed, and nothing  *)
(* is announced.  GraphSave implements this module.                        *)
(***************************************************************************)
CONSTANTS Saves, Ops

VARIABLES
  phase,      \* phase[s]: what has been decided about save s
  durable,    \* durable[s]: the writes of s the database holds
  announced   \* announced[s]: the writes of s whose audit event was sent

vars == <<phase, durable, announced>>

Phases == {"open", "committed", "acknowledged", "aborted", "lost", "closed"}

Init ==
  /\ phase = [s \in Saves |-> "open"]
  /\ durable = [s \in Saves |-> {}]
  /\ announced = [s \in Saves |-> {}]

\* The only step that makes writes durable: all of them together.
Commit(s) ==
  /\ phase[s] = "open"
  /\ \E W \in SUBSET Ops : durable' = [durable EXCEPT ![s] = W]
  /\ phase' = [phase EXCEPT ![s] = "committed"]
  /\ UNCHANGED announced

Acknowledge(s) ==
  /\ phase[s] = "committed"
  /\ phase' = [phase EXCEPT ![s] = "acknowledged"]
  /\ UNCHANGED <<durable, announced>>

Announce(s, o) ==
  /\ phase[s] = "acknowledged"
  /\ o \in durable[s] \ announced[s]
  /\ announced' = [announced EXCEPT ![s] = @ \cup {o}]
  /\ UNCHANGED <<phase, durable>>

Close(s) ==
  /\ phase[s] = "acknowledged"
  /\ phase' = [phase EXCEPT ![s] = "closed"]
  /\ UNCHANGED <<durable, announced>>

\* A commit of nothing may still be answered as a failure.
Abort(s) ==
  /\ phase[s] = "open" \/ (phase[s] = "committed" /\ durable[s] = {})
  /\ phase' = [phase EXCEPT ![s] = "aborted"]
  /\ UNCHANGED <<durable, announced>>

Lose(s) ==
  /\ phase[s] = "committed"
  /\ durable[s] # {}
  /\ phase' = [phase EXCEPT ![s] = "lost"]
  /\ UNCHANGED <<durable, announced>>

Next ==
  \E s \in Saves :
    \/ Commit(s) \/ Acknowledge(s) \/ Close(s) \/ Abort(s) \/ Lose(s)
    \/ \E o \in Ops : Announce(s, o)

Spec == Init /\ [][Next]_vars
=============================================================================
