----------------------------- MODULE TypedList -----------------------------
(***************************************************************************)
(* execute_typed_list over SqlDataServiceExecutor._query: one list request *)
(* is a series of SELECTs, for the total, the page, a related count, the   *)
(* children of its rows by the plan of the relation, and facets of the     *)
(* list and of each row's children.  Other programs write between them.    *)
(*                                                                         *)
(* The total of a list with an id-set is read from its UserContext, where  *)
(* every query of the context leaves what it observed.  The store of       *)
(* retained sets and its locks are those of IdSetPage.                     *)
(*                                                                         *)
(* The database is the sequence of its states.  A SELECT reads one of the  *)
(* states since it was issued; it and the code up to the next await are    *)
(* one step.                                                               *)
(***************************************************************************)
EXTENDS Integers, Sequences, SequencesExt, FiniteSets, FiniteSetsExt

CONSTANTS
  Lists,       \* tasks that call execute_for_list
  Contexts,    \* their UserContexts
  Requests,    \* records [context, filter, idSet, counted, offset, limit, sums,
               \* load, facet]; load: at most one [query, offset, limit,
               \* threshold, facet], query FALSE for a relation loaded whole
  Tables,      \* how the database starts: records [member, child, kinds], where
               \* member maps rows to kinds and child maps rows to [of, kind]
  MemberIds, ChildIds, Kinds,
  Rank,        \* Rank[c]: what the order requested of children says of c
  Ceiling,     \* rows of a SELECT without a limit
  Policies,    \* relation_top_n_policy: "window" or "always_probe"
  MaxChanges   \* bound: writes to the database

VARIABLES
  policy,      \* that of the dialect
  tables,      \* the states of the database, the present one last
  sets,        \* sets[f]: the retained set of filter f, if any
  observed,    \* observed[c]: _id_set_count and its accuracy in context c
  list,        \* list[t]: the call of task t
  overlapped   \* history: tasks whose calls met another of their context

vars == <<policy, tables, sets, observed, list, overlapped>>

-----------------------------------------------------------------------------
NoAnswer == [rows |-> <<>>, total |-> {}, sums |-> <<>>, related |-> <<>>, facets |-> <<>>]
NoList == [pc |-> "idle", request |-> {}, from |-> 0, issued |-> 0, only |-> {},
           todo |-> <<>>, counts |-> <<>>, answer |-> NoAnswer]
Inexact == [exact |-> FALSE, count |-> 0]

Filters == {r.filter : r \in Requests}

Init ==
  /\ policy \in Policies
  /\ tables \in {<<t>> : t \in Tables}
  /\ sets = [f \in Filters |-> {}]
  /\ observed = [c \in Contexts |-> Inexact]
  /\ list = [l \in Lists |-> NoList]
  /\ overlapped = {}

-----------------------------------------------------------------------------
(* Other programs *)

Without(f, x) == [y \in DOMAIN f \ {x} |-> f[y]]
With(f, x, z) == [y \in DOMAIN f \cup {x} |-> IF y = x THEN z ELSE f[y]]

\* The databases that differ from t by one row.
Changes(t) ==
  {[t EXCEPT !.member = Without(@, m)] : m \in MemberIds}
  \cup {[t EXCEPT !.member = With(@, m, k)] : m \in MemberIds, k \in Kinds}
  \cup {[t EXCEPT !.child = Without(@, c)] : c \in ChildIds}
  \cup {[t EXCEPT !.child = With(@, c, [of |-> m, kind |-> k])] :
          c \in ChildIds, m \in MemberIds, k \in Kinds}
  \cup {[t EXCEPT !.kinds = K] : K \in SUBSET Kinds}

Change ==
  /\ Len(tables) <= MaxChanges
  /\ \E t \in Changes(Last(tables)) \ {Last(tables)} : tables' = Append(tables, t)
  /\ UNCHANGED <<policy, sets, observed, list, overlapped>>

\* A retained set expires or is evicted.
Lose(f) ==
  /\ sets[f] # {}
  /\ sets' = [sets EXCEPT ![f] = {}]
  /\ UNCHANGED <<policy, tables, observed, list, overlapped>>

-----------------------------------------------------------------------------
(* What SELECTs return *)

InOrder(S) ==
  CHOOSE s \in [1 .. Cardinality(S) -> S] : \A i, j \in 1 .. Cardinality(S) : i < j => s[i] < s[j]

\* Those of s in S, in the order of s.
Among(s, S) ==
  LET places == InOrder({i \in DOMAIN s : s[i] \in S})
  IN  [j \in DOMAIN places |-> s[places[j]]]

Slice(s, offset, limit) == SubSeq(s, offset + 1, Min({offset + limit, Len(s)}))

\* The rows the filter selects, and the kinds of functions' values counted.
Selected(t, r) == {m \in DOMAIN t.member : t.member[m] \in r.filter}
ChildrenOf(t, p) == {c \in DOMAIN t.child : t.child[c].of = p}
Tally(kind) == [k \in {kind[x] : x \in DOMAIN kind} |-> Cardinality({x \in DOMAIN kind : kind[x] = k})]

\* The order requested of children, completed by their IDs.
Before(c, d) == Rank[c] < Rank[d] \/ (Rank[c] = Rank[d] /\ c < d)
Sorted(S) ==
  CHOOSE s \in [1 .. Cardinality(S) -> S] : \A i, j \in 1 .. Cardinality(S) : i < j => Before(s[i], s[j])

\* prepare_for_list: without a limit any Ceiling rows come back.
Capped(S) == {T \in SUBSET S : Cardinality(T) = Min({Cardinality(S), Ceiling})}

\* SELECT ... WHERE fk = p ORDER BY ... LIMIT ... OFFSET ...
Probe(t, p, load) == Slice(Sorted(ChildrenOf(t, p)), load.offset, load.limit)

\* The rank is that among the children of all parents.
WindowOfAll(t, ps, load) ==
  LET all == {c \in DOMAIN t.child : t.child[c].of \in ps}
      rank(c) == 1 + Cardinality({d \in all : Before(d, c)})
  IN  {c \in all : rank(c) > load.offset /\ rank(c) <= load.offset + load.limit}

\* ROW_NUMBER() OVER (PARTITION BY fk ORDER BY ...) of the children of ps.
Window(t, ps, load) ==
  LET all == {c \in DOMAIN t.child : t.child[c].of \in ps}
      rank(c) == 1 + Cardinality({d \in all : t.child[d].of = t.child[c].of /\ Before(d, c)})
  IN  {c \in all : rank(c) > load.offset /\ rank(c) <= load.offset + load.limit}

\* The children S handed to their parents ps.
Buckets(t, ps, S) == [p \in ps |-> Sorted({c \in S : t.child[c].of = p})]

\* selected_plan of a relation with n parents
UsesProbes(load, n) ==
  /\ load.query
  /\ \/ policy = "always_probe" /\ load.threshold = {}
     \/ \E x \in load.threshold : x > 0 /\ n <= x

\* The rows a facet counts: the children of p, or those of the list, of which
\* a page of an id-set is only its IDs.
Counted(s, t, p) ==
  IF p # 0 THEN [c \in ChildrenOf(t, p) |-> t.child[c].kind]
  ELSE [m \in {n \in Selected(t, s.request) : \A ids \in s.only : n \in ToSet(ids)} |-> t.member[m]]

\* What the values of a facet show, all kinds or those counted.
Shown(counts, t, facet) ==
  [k \in IF facet = "all" THEN t.kinds ELSE t.kinds \cap DOMAIN counts |->
     IF k \in DOMAIN counts THEN counts[k] ELSE 0]

\* The call s after SELECT q read t.
Results(s, q, t) ==
  LET r == s.request
      ps == ToSet(s.answer.rows)
      load == CHOOSE x \in r.load : TRUE
  IN  CASE q.op = "sum" ->
             {[s EXCEPT !.answer.sums = [p \in ps |-> Cardinality(ChildrenOf(t, p))]]}
        [] q.op = "probe" ->
             {[s EXCEPT !.answer.related = With(@, q.of, Probe(t, q.of, load))]}
        [] q.op = "load" /\ load.query ->
             {[s EXCEPT !.answer.related = Buckets(t, ps, Window(t, ps, load))]}
        [] q.op = "load" /\ ~load.query ->
             {[s EXCEPT !.answer.related = Buckets(t, ps, S)] :
                S \in Capped(UNION {ChildrenOf(t, p) : p \in ps})}
        [] q.op = "count" -> {[s EXCEPT !.counts = Tally(Counted(s, t, q.of))]}
        [] q.op = "show" ->
             {[s EXCEPT !.counts = <<>>,
                        !.answer.facets = With(@, q.of, Shown(s.counts, t,
                                             IF q.of = 0 THEN r.facet ELSE load.facet))]}

\* The SELECTs that follow a page of rows.
Nested(r, rows) ==
  LET q(op, p) == [op |-> op, of |-> p]
      facet(p) == <<q("count", p), q("show", p)>>
      sums == IF r.sums /\ rows # <<>> THEN <<q("sum", 0)>> ELSE <<>>
      load(x) == IF UsesProbes(x, Len(rows)) THEN [i \in DOMAIN rows |-> q("probe", rows[i])]
                 ELSE <<q("load", 0)>>
      each(x) == IF x.facet = "none" THEN <<>>
                 ELSE [i \in 1 .. 2 * Len(rows) |-> facet(rows[(i + 1) \div 2])[2 - (i % 2)]]
      loads == IF r.load = {} \/ rows = <<>> THEN <<>>
               ELSE LET x == CHOOSE y \in r.load : TRUE IN load(x) \o each(x)
  IN  sums \o loads \o (IF r.facet = "none" THEN <<>> ELSE facet(0))

-----------------------------------------------------------------------------
(* A call of execute_for_list *)

Reads(l) == {tables[i] : i \in list[l].issued .. Len(tables)}
Go(l, s) == list' = [list EXCEPT ![l] = s]
Observe(r, o) == observed' = [observed EXCEPT ![r.context] = o]

\* SELECT pc is issued by a _query without an id-set, which leaves its mark.
Issue(l, s, pc) ==
  /\ Go(l, [s EXCEPT !.pc = pc, !.issued = Len(tables)])
  /\ Observe(s.request, Inexact)

Done(l, s) == Go(l, [s EXCEPT !.pc = "done"])

\* _query is over: the total of a list with an id-set is what the context has
\* observed, or else counted.
Finish(l, s) ==
  LET r == s.request
      seen == observed[r.context]
  IN  IF r.counted /\ r.idSet /\ ~seen.exact THEN Issue(l, s, "total")
      ELSE /\ Done(l, [s EXCEPT !.answer.total = IF r.counted /\ r.idSet THEN {seen.count} ELSE @])
           /\ UNCHANGED observed

\* The next nested SELECT, or the end.
Continue(l, s) == IF s.todo = <<>> THEN Finish(l, s) ELSE Issue(l, s, "nested")

\* The page comes from a retained set; past its end nothing is queried.
UseSet(l, s, ids) ==
  LET r == s.request
      page == Slice(ids, r.offset, r.limit)
  IN  /\ Observe(r, [exact |-> TRUE, count |-> Len(ids)])
      /\ IF r.offset >= Len(ids)
           THEN Done(l, [s EXCEPT !.answer.total = IF r.counted THEN {Len(ids)} ELSE {}])
           ELSE Go(l, [s EXCEPT !.pc = "page", !.issued = Len(tables), !.only = {page}])

\* _prepare_id_set_page of the list's own query.  Without an id-set, or when
\* the store is unavailable, it is a plain page.
Prepare(l, s) ==
  LET r == s.request
  IN  \/ Issue(l, s, "page")
      \/ r.idSet /\ sets[r.filter] = {} /\ Issue(l, s, "collect")
      \/ r.idSet /\ \E ids \in sets[r.filter] : UseSet(l, s, ids)

Running(l) == list[l].pc \notin {"idle", "done", "failed"}

\* The total comes first, unless an id-set will know it.  A missing set that
\* another call is collecting is waited for.
Start(l, r) ==
  /\ list[l].pc = "idle"
  /\ r.idSet /\ sets[r.filter] = {} =>
       \A k \in Lists : list[k].pc = "collect" => list[k].request.filter # r.filter
  /\ LET s == [NoList EXCEPT !.request = r, !.from = Len(tables)]
     IN  IF r.counted /\ ~r.idSet THEN Issue(l, s, "total") ELSE Prepare(l, s)
  /\ LET met == {k \in Lists : Running(k) /\ list[k].request.context = r.context}
     IN  overlapped' = overlapped \cup met \cup (IF met = {} THEN {} ELSE {l})
  /\ UNCHANGED <<policy, tables, sets>>

SelectTotal(l) ==
  /\ list[l].pc = "total"
  /\ \E t \in Reads(l) :
       LET s == [list[l] EXCEPT !.answer.total = {Cardinality(Selected(t, list[l].request))}]
       IN  IF s.request.idSet THEN Done(l, s) /\ UNCHANGED observed ELSE Prepare(l, s)
  /\ UNCHANGED <<policy, tables, sets, overlapped>>

\* The set is retained, or the list falls back to a plain page.
Collect(l) ==
  /\ list[l].pc = "collect"
  /\ \/ \E t \in Reads(l) :
          LET ids == InOrder(Selected(t, list[l].request))
          IN  /\ sets' = [sets EXCEPT ![list[l].request.filter] = {ids}]
              /\ UseSet(l, list[l], ids)
     \/ Issue(l, list[l], "page") /\ UNCHANGED sets
  /\ UNCHANGED <<policy, tables, overlapped>>

\* The rows of the page, those of an id-set in the order of the set.
SelectPage(l) ==
  /\ list[l].pc = "page"
  /\ \E t \in Reads(l) :
       LET r == list[l].request
           now == Selected(t, r)
           rows == IF list[l].only = {} THEN Slice(InOrder(now), r.offset, r.limit)
                   ELSE Among(CHOOSE ids \in list[l].only : TRUE, now)
       IN  Continue(l, [list[l] EXCEPT !.answer.rows = rows, !.todo = Nested(r, rows)])
  /\ UNCHANGED <<policy, tables, sets, overlapped>>

SelectNested(l) ==
  /\ list[l].pc = "nested"
  /\ \E t \in Reads(l) : \E s \in Results(list[l], Head(list[l].todo), t) :
       Continue(l, [s EXCEPT !.todo = Tail(@)])
  /\ UNCHANGED <<policy, tables, sets, overlapped>>

\* A SELECT raises, or the call is cancelled.
Fail(l) ==
  /\ Running(l)
  /\ Go(l, [NoList EXCEPT !.pc = "failed"])
  /\ UNCHANGED <<policy, tables, sets, observed, overlapped>>

Next ==
  \/ Change
  \/ \E f \in Filters : Lose(f)
  \/ \E l \in Lists :
       \/ \E r \in Requests : Start(l, r)
       \/ SelectTotal(l) \/ Collect(l) \/ SelectPage(l) \/ SelectNested(l) \/ Fail(l)

Spec == Init /\ [][Next]_vars

-----------------------------------------------------------------------------
\* The states the database was in since l was called.
Since(l) == {tables[i] : i \in list[l].from .. Len(tables)}
Ended(l) == list[l].pc = "done" /\ list[l].answer.rows # <<>>
Parents(l) == ToSet(list[l].answer.rows)

\* s shows, in order, the children of p that rank within the limits of load.
InLimits(s, t, p, load) ==
  LET ahead(c) == Cardinality({d \in ChildrenOf(t, p) : Before(d, c)})
  IN  /\ \A i, j \in DOMAIN s : i < j => Before(s[i], s[j])
      /\ ToSet(s) = {c \in ChildrenOf(t, p) :
                      ahead(c) >= load.offset /\ ahead(c) < load.offset + load.limit}

\* The lists in related show children in t: all of them, or as many as a SELECT
\* returns.
UpToCeiling(related, t, ps) ==
  LET there == UNION {ChildrenOf(t, p) : p \in ps}
      shown == UNION {ToSet(related[p]) : p \in ps}
  IN  /\ \A p \in ps : ToSet(related[p]) \subseteq ChildrenOf(t, p)
      /\ Cardinality(shown) = Min({Cardinality(there), Ceiling})

\* Whichever plan loads a relation, each row has the children in its own limits,
\* all rows as of one moment of the call, or each as of its own if they are
\* probed (_enhance_relations, compile_select_sql).
RelatedTrue ==
  \A l \in Lists : Ended(l) => \A load \in list[l].request.load :
    LET related == list[l].answer.related
        ps == Parents(l)
    IN  IF ~load.query THEN \E t \in Since(l) : UpToCeiling(related, t, ps)
        ELSE IF UsesProbes(load, Cardinality(ps))
               THEN \A p \in ps : \E t \in Since(l) : InLimits(related[p], t, p, load)
               ELSE \E t \in Since(l) : \A p \in ps : InLimits(related[p], t, p, load)

\* shown tells how many of kind[t] there were of each kind at one moment of the
\* call, of all kinds or of those that occur.
FacetTrue(l, shown, which, kind) ==
  \E t, u \in Since(l) :
    LET of(k) == Cardinality({x \in DOMAIN kind[t] : kind[t][x] = k})
    IN  /\ DOMAIN shown = {k \in u.kinds : which = "all" \/ of(k) > 0}
        /\ \A k \in DOMAIN shown : shown[k] = of(k)

\* The facet of l tells of everything its filter selects.
WholeFacet(l) ==
  LET r == list[l].request
  IN  0 \in DOMAIN list[l].answer.facets
      /\ FacetTrue(l, list[l].answer.facets[0], r.facet,
                   [t \in Since(l) |-> [m \in Selected(t, r) |-> t.member[m]]])

\* The facets of its rows' children tell of all of them, whatever the rows show.
ChildFacets(l, load) ==
  \A p \in Parents(l) :
    FacetTrue(l, list[l].answer.facets[p], load.facet,
              [t \in Since(l) |-> [c \in ChildrenOf(t, p) |-> t.child[c].kind]])

\* A total from a retained set is as old as that set.
TotalTrue(l) ==
  LET r == list[l].request
      plain == ~r.idSet \/ (list[l].only = {} /\ Ended(l))
  IN  \E t \in IF plain THEN Since(l) ELSE ToSet(tables) :
        list[l].answer.total = {Cardinality(Selected(t, r))}

SumsTrue(l) ==
  \E t \in Since(l) : list[l].answer.sums = [p \in Parents(l) |-> Cardinality(ChildrenOf(t, p))]

\* Each number beside the rows, a total, a related count, a facet of the list or of
\* a row, was the number of all rows it speaks of at one moment, however the page
\* and its relations are limited.  Facets of a list with an id-set are left out,
\* and so are totals from an id-set read while another list of the same context
\* runs (execute_typed_list, _query_facets).
CountsTrue ==
  \A l \in Lists : list[l].pc = "done" =>
    LET r == list[l].request
    IN  /\ r.counted /\ (r.idSet => l \notin overlapped) => TotalTrue(l)
        /\ Ended(l) =>
             /\ r.sums => SumsTrue(l)
             /\ r.facet # "none" /\ ~r.idSet => WholeFacet(l)
             /\ \A load \in r.load : load.facet # "none" => ChildFacets(l, load)

\* The related rows and the counts of an answer are true.
AnswerTrue == RelatedTrue /\ CountsTrue

\* Facets show full matching counts, also of a list that shows one page of them.
FacetsOfWholeMembership ==
  \A l \in Lists : list[l].pc = "done" /\ list[l].request.facet # "none" => WholeFacet(l)
=============================================================================
