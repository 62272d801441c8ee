---------------------------- MODULE EntityLedger ----------------------------
(***************************************************************************)
(* EntityRoot: the pending mutations of one graph of generated entities,   *)
(* by entity key.  changes[k] holds the fields of k set since it was       *)
(* loaded or saved, orig[k] the version k was loaded with, and new and     *)
(* deleted the keys to be inserted and deleted.  Trace chains carry no     *)
(* decision and are left out, and so are nested change sets, which no      *)
(* generated code pushes.  Each operation holds the root's lock.           *)
(***************************************************************************)
NoLedger == [changes |-> <<>>, orig |-> <<>>, new |-> {}, deleted |-> {}]

Without(f, k) == [j \in DOMAIN f \ {k} |-> f[j]]
Updated(f, g) == [j \in DOMAIN f \cup DOMAIN g |-> IF j \in DOMAIN g THEN g[j] ELSE f[j]]
WithEntry(f, k, v) == Updated(f, [j \in {k} |-> v])

Fields(l, k) == IF k \in DOMAIN l.changes THEN l.changes[k] ELSE <<>>
OriginalVersion(l, k) == IF k \in DOMAIN l.orig THEN {l.orig[k]} ELSE {}

\* The changes of k become those in values, on top of what k has.
SetFields(l, k, values) ==
  IF DOMAIN values = {} THEN l
  ELSE [l EXCEPT !.changes = WithEntry(@, k, Updated(Fields(l, k), values))]

SetField(l, k, field, v) == SetFields(l, k, [f \in {field} |-> v])

MarkAsNew(l, k) == [l EXCEPT !.new = @ \cup {k}]

\* A deletion supersedes the changes of its entity.
MarkAsDeleted(l, k) == [l EXCEPT !.changes = Without(@, k), !.deleted = @ \cup {k}]

HasPending(l, k) == k \in l.new \cup l.deleted \cup DOMAIN l.changes

\* Version v of k contradicts the one the ledger knows: ENTITY_VERSION_CONFLICT.
Conflicts(l, k, versions) ==
  \E v \in versions : k \in DOMAIN l.orig /\ l.orig[k] # v

\* merge_entity_from: l takes over what m has on k, and m keeps it.
MergeEntity(l, m, k) ==
  LET merged == [SetFields(l, k, Fields(m, k)) EXCEPT
                   !.orig = IF k \in DOMAIN m.orig THEN WithEntry(@, k, m.orig[k]) ELSE @,
                   !.new = @ \cup ({k} \cap m.new)]
  IN  IF k \in m.deleted THEN MarkAsDeleted(merged, k) ELSE merged

\* What was pending for key a is pending for key b.  rekey refuses to mix two
\* loaded versions; that is left out, since no generated code meets it: b is an
\* ID next_id just returned, of which no ledger has a version, or a itself.
Rekey(l, a, b) ==
  IF a = b THEN l
  ELSE LET moved == SetFields([l EXCEPT !.changes = Without(@, a)], b, Fields(l, a))
       IN  [moved EXCEPT
              !.orig = IF a \in DOMAIN @ THEN WithEntry(Without(@, a), b, @[a]) ELSE @,
              !.new = IF a \in @ THEN (@ \ {a}) \cup {b} ELSE @,
              !.deleted = IF a \in @ THEN (@ \ {a}) \cup {b} ELSE @]

\* Nothing is pending for k any more.
ClearEntity(l, k) ==
  [l EXCEPT !.changes = Without(@, k), !.new = @ \ {k}, !.deleted = @ \ {k}]

\* The version k has after a commit; ClearEntity(l, k) comes first.
AcceptCommittedVersion(l, k, versions) ==
  IF versions = {} THEN l
  ELSE [l EXCEPT !.orig = WithEntry(@, k, CHOOSE v \in versions : TRUE)]
=============================================================================
