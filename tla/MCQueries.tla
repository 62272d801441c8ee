----------------------------- MODULE MCQueries -----------------------------
(***************************************************************************)
(* IdSetPage and TypedList side by side: they share no state, so one of    *)
(* the Parts is in play in each behaviour and the other stays as it starts.*)
(*                                                                         *)
(* Pages: one query asked in two event loops, and another one that         *)
(* competes with it for the store.                                         *)
(*                                                                         *)
(* Lists: pages of two or fewer rows and three children over two kinds,    *)
(* with every plan of a relation, or an id-set, and facets.                *)
(***************************************************************************)
EXTENDS IdSetPage, TLC

CONSTANTS
  Parts,
  l1, l2, k1, k2,                                        \* pages
  red, blue, u1, u2,                                     \* lists
  Lists, Contexts, Requests, Tables, MemberIds, ChildIds, Kinds, Rank, Ceiling, Policies

\* What the database of the lists may hold.
Databases ==
  [member : UNION {[M -> Kinds] : M \in SUBSET MemberIds},
   child : UNION {[C -> [of : MemberIds, kind : Kinds]] : C \in SUBSET ChildIds},
   kinds : SUBSET Kinds]

Facets == {"none", "all", "matching"}

ASSUME TablesAssumption ==
  /\ MemberIds \subseteq Int \ {0} /\ ChildIds \subseteq Int
  /\ IsFiniteSet(MemberIds) /\ IsFiniteSet(ChildIds)
  /\ Rank \in [ChildIds -> Int]
  /\ Tables \subseteq Databases
ASSUME RequestsAssumption ==
  /\ Ceiling \in Nat
  /\ Requests \subseteq
       [context : Contexts, filter : SUBSET Kinds, idSet : BOOLEAN, counted : BOOLEAN, offset : Nat,
        limit : Nat, sums : BOOLEAN, facet : Facets,
        load : SUBSET [query : BOOLEAN, offset : Nat, limit : Nat, threshold : SUBSET Int, facet : Facets]]
  /\ \A r \in Requests : \A x, y \in r.load : x = y

VARIABLES inPlay, policy, tables, sets, observed, list, overlapped

listVars == <<policy, tables, sets, observed, list, overlapped>>

Listing == INSTANCE TypedList

TwoLoops ==
  {[key |-> k1, loop |-> l1, offset |-> 0], [key |-> k1, loop |-> l2, offset |-> 1],
   [key |-> k2, loop |-> l1, offset |-> 0]}

-----------------------------------------------------------------------------
Plain == [context |-> u1, filter |-> {red, blue}, idSet |-> FALSE, counted |-> TRUE, offset |-> 0,
          limit |-> 2, sums |-> FALSE, load |-> {}, facet |-> "none"]
FirstChild == [query |-> TRUE, offset |-> 0, limit |-> 1, threshold |-> {}, facet |-> "none"]

\* Two filters with an id-set share a context.
SomeLists ==
  {[Plain EXCEPT !.idSet = TRUE, !.offset = 1, !.limit = 1, !.facet = "matching"],
   [Plain EXCEPT !.idSet = TRUE, !.filter = {red}, !.load = {[FirstChild EXCEPT !.query = FALSE]}],
   [Plain EXCEPT !.limit = 1, !.facet = "all", !.sums = TRUE],
   [Plain EXCEPT !.load = {[FirstChild EXCEPT !.facet = "matching"]}],
   [Plain EXCEPT !.load = {[FirstChild EXCEPT !.offset = 1, !.threshold = {1}]}, !.context = u2]}

\* The first of two rows, and a facet.
FirstPage == {[Plain EXCEPT !.idSet = TRUE, !.limit = 1, !.facet = "matching"]}

TwoRows ==
  LET child(m, k) == [of |-> m, kind |-> k]
  IN  {[member |-> 1 :> red @@ 2 :> blue,
        child |-> 1 :> child(1, red) @@ 2 :> child(1, blue) @@ 3 :> child(2, red),
        kinds |-> {red, blue}]}

SecondFirst == 1 :> 2 @@ 2 :> 1 @@ 3 :> 1

Interchangeable == Permutations(Callers) \cup Permutations(Lists)

-----------------------------------------------------------------------------
AnyInit ==
  /\ inPlay \in Parts
  /\ Init /\ Listing!Init
  /\ inPlay # "pages" => rows = {}
  /\ inPlay # "lists" => policy = "window"

AnyNext ==
  /\ UNCHANGED inPlay
  /\ \/ inPlay = "pages" /\ Next /\ UNCHANGED listVars
     \/ inPlay = "lists" /\ Listing!Next /\ UNCHANGED vars

AnySpec == AnyInit /\ [][AnyNext]_<<inPlay, vars, listVars>>

-----------------------------------------------------------------------------
\* Whatever is written between the statements of a list, the related rows of its
\* rows and the numbers beside them are true: Listing!RelatedTrue and
\* Listing!CountsTrue (execute_typed_list, _query).
AnswerTrue == Listing!AnswerTrue

\* Facets show full matching counts, also beside one page of the matching rows.
FacetsOfWholeMembership == Listing!FacetsOfWholeMembership
=============================================================================
