------------------------- MODULE MCMutationPolicy -------------------------
(* MutationPolicy over two operations, sent alone or as a batch. *)
EXTENDS MutationPolicy

CONSTANTS a, b

Operations == {a, b}
SinglesAndBatches == {<<a>>, <<b>>, <<a, b>>, <<b, b>>}
=============================================================================
