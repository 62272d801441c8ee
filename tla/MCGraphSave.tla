---------------------------- MODULE MCGraphSave ----------------------------
(***************************************************************************)
(* GraphSave with two saves of two writes each.  Two saves are enough for  *)
(* every relation between saves the module has (holding and waiting for    *)
(* the lock, calling inside a lineage, calling after it ended), two writes *)
(* for a write that overtakes another and for one left behind.             *)
(***************************************************************************)
EXTENDS GraphSave
=============================================================================
