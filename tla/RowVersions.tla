---------------------------- MODULE RowVersions ----------------------------
(***************************************************************************)
(* What the INSERT, UPDATE, DELETE and RECOVER statements compiled by      *)
(* SqlDialect do to a table with a version column.  A table maps the IDs   *)
(* of its rows to rows; a row has a version, the value of its business     *)
(* fields and the object that inserted it, if one of the program did.      *)
(*                                                                         *)
(* The expected version of a command is optional: a set of at most one     *)
(* version.  A deleted row keeps its place and has a negative version.     *)
(***************************************************************************)
EXTENDS Integers

\* The rows of upper, and of lower those upper does not have.
Over(upper, lower) ==
  [k \in DOMAIN upper \cup DOMAIN lower |-> IF k \in DOMAIN upper THEN upper[k] ELSE lower[k]]
WithRow(table, k, row) == Over([j \in {k} |-> row], table)

\* The version is not asked for.
MatchesAny(table, k, expected) == k \in DOMAIN table

\* The WHERE clause of a command that expects a version, or none.
Matches(table, k, expected) ==
  k \in DOMAIN table /\ \A e \in expected : table[k].ver = e

\* INSERT; the primary key refuses a second row.
InsertRow(table, k, v, h) == WithRow(table, k, [ver |-> 1, val |-> v, by |-> {h}])

\* UPDATE of the fields in values, which advances an expected version by one.
UpdateRow(table, k, expected, values) ==
  [table EXCEPT ![k].ver = IF expected = {} THEN @ ELSE @ + 1,
                ![k].val = IF "val" \in DOMAIN values THEN values["val"] ELSE @]

\* Soft DELETE: the successor of the expected version, negated, or -1.
DeleteRow(table, k, expected) ==
  [table EXCEPT ![k].ver = IF expected = {} THEN -1 ELSE -(@ + 1)]

\* RECOVER of a negative version.
RecoverRow(table, k) == [table EXCEPT ![k].ver = 1 - @]
=============================================================================
