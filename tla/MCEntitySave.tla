---------------------------- MODULE MCEntitySave ----------------------------
(***************************************************************************)
(* EntitySave with an order, an item in its list and a third object that   *)
(* is new, a second copy of the order or of the item, loaded separately,   *)
(* or a reference to one of them.  The copy may be in the list as well.    *)
(* Two tasks save, in one context or each in its own.                      *)
(***************************************************************************)
EXTENDS EntitySave

CONSTANTS order, item, other

Interchangeable == Permutations(Savers)

Lists(hs) == [h \in {order, item, other} |-> IF h = order THEN hs ELSE <<>>]
One == [s \in Savers |-> 1]   \* one context for all tasks
Own == [s \in Savers |-> s]   \* a context for each

NewOrder == [ids |-> <<>>, refs |-> {}, items |-> Lists(<<item>>), context |-> One, calls |-> 2]

NewItem == [NewOrder EXCEPT !.ids = order :> 1 @@ other :> 1]

Loaded == [NewOrder EXCEPT !.ids = order :> 1 @@ item :> 2 @@ other :> 2, !.calls = 3]
LoadedInTwoContexts == [Loaded EXCEPT !.context = Own, !.calls = 2]
ItemListedTwice == [LoadedInTwoContexts EXCEPT !.items = Lists(<<item, other>>)]
LoadedAndReference == [LoadedInTwoContexts EXCEPT !.refs = {other}]

MCShapes == {NewOrder, NewItem, Loaded, LoadedInTwoContexts,
             ItemListedTwice, LoadedAndReference}
=============================================================================
