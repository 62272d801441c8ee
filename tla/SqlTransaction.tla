-------------------------- MODULE SqlTransaction --------------------------
(***************************************************************************)
(* A SQL transaction outside a graph save, with its audit journal: the     *)
(* handle service.begin returns, on which tasks call mutate, commit and    *)
(* rollback as they like ("explicit"), or the transaction _mutate opens    *)
(* for one request ("automatic").                                          *)
(*                                                                         *)
(* A step is the code between two awaits.  A statement, a commit or a      *)
(* rollback takes effect in the database before the task that awaits it    *)
(* goes on, and the await may raise although it took effect.  _completed   *)
(* is set after the await of a commit, so commits overlap: until the first *)
(* of them has closed the connection, the database answers each of them.   *)
(***************************************************************************)
EXTENDS Naturals, Sequences, FiniteSets, SequencesExt

CONSTANTS
  TxCalls,   \* calls made on the transaction
  Owners,    \* contexts that record audits; a call may also come without one
  MaxItems   \* bound: mutations in one request

VARIABLES
  opened,     \* who uses the transaction: "explicit" or "automatic"
  db,         \* the database's side: open, committed or rolled_back
  completed,  \* _completed
  journal,    \* the _CommittedAuditJournal: [owner, active, events]
  txCall,     \* txCall[c]: [kind, pc, context, left]
  changed,    \* writes that changed a row: [by, left]
  offered,    \* audit events offered to the sinks, in order: [event, via], a write and a commit
  sinkRaised  \* the commits under which a sink raised

txVars == <<opened, db, completed, journal, txCall, changed, offered, sinkRaised>>

TxInit ==
  /\ opened \in {"explicit", "automatic"}
  /\ db = "open"
  /\ completed = FALSE
  /\ journal = [owner |-> {}, active |-> FALSE, events |-> <<>>]
  /\ txCall = [c \in TxCalls |-> [kind |-> "none", pc |-> "idle", context |-> {}, left |-> 0]]
  /\ changed = {}
  /\ offered = <<>>
  /\ sinkRaised = {}

-----------------------------------------------------------------------------
Made(kind) == {c \in TxCalls : txCall[c].kind = kind}
Over(kind, pcs) == {c \in Made(kind) : txCall[c].pc \in pcs}
Failed == Over("mutate", {"raised"}) \cup Over("commit", {"raised"})

\* The first commit or rollback to end has closed the connection.
Closed ==
  Over("commit", {"delivering", "returned", "committed_error", "raised"})
    \cup Over("rollback", {"returned", "raised"}) # {}

\* _mutate makes one request, commits what returned and rolls back what raised.
Due(kind) ==
  \/ opened = "explicit"
  \/ Made(kind) = {} /\ kind = "mutate"
  \/ Made(kind) = {} /\ kind = "commit" /\ Over("mutate", {"returned"}) # {}
  \/ Made(kind) = {} /\ kind = "rollback" /\ Failed # {}

Starts(c, kind, pc, context, left) ==
  /\ txCall[c].pc = "idle"
  /\ Due(kind)
  /\ txCall' = [txCall EXCEPT ![c] = [kind |-> kind, pc |-> pc, context |-> context, left |-> left]]

At(c, pc) == txCall' = [txCall EXCEPT ![c].pc = pc]

\* The next mutation of a batch, or the end of the request.
Proceed(c) ==
  txCall' = [txCall EXCEPT ![c].left = @ - 1, ![c].pc = IF txCall[c].left = 1 THEN "returned" ELSE "executing"]

\* require_active, which asks nothing of a call without a context.
Recordable(c) == txCall[c].context = {} \/ journal.active

-----------------------------------------------------------------------------
(* mutate *)

\* The first call with a context makes its journal, and no other context may follow.
Mutate(c, context, n) ==
  /\ ~completed
  /\ context = {} \/ journal.owner \in {{}, context}
  /\ Starts(c, "mutate", "executing", context, n)
  /\ journal' = IF context # {} /\ journal.owner = {}
                  THEN [journal EXCEPT !.owner = context, !.active = TRUE]
                  ELSE journal
  /\ UNCHANGED <<opened, db, completed, changed, offered, sinkRaised>>

Refuse(c, kind, context) ==
  /\ completed \/ (kind = "mutate" /\ context # {} /\ journal.owner \notin {{}, context})
  /\ Starts(c, kind, "refused", context, 0)
  /\ UNCHANGED <<opened, db, completed, journal, changed, offered, sinkRaised>>

\* The statement changes a row or none; its await raises whatever it did.
Execute(c) ==
  /\ txCall[c].pc = "executing"
  /\ \/ /\ db = "open"
        /\ changed' = changed \cup {[by |-> c, left |-> txCall[c].left]}
        /\ At(c, "executed") \/ At(c, "raised")
     \/ /\ db = "open"
        /\ Proceed(c)
        /\ UNCHANGED changed
     \/ /\ At(c, "raised")
        /\ UNCHANGED changed
  /\ UNCHANGED <<opened, db, completed, journal, offered, sinkRaised>>

\* Nobody asks whether the journal is still writable.
RecordUnchecked(c) ==
  /\ txCall[c].pc = "executed"
  /\ Proceed(c)
  /\ journal' = IF txCall[c].context = {} THEN journal
                  ELSE [journal EXCEPT !.events = Append(@, [by |-> c, left |-> txCall[c].left])]
  /\ UNCHANGED <<opened, db, completed, changed, offered, sinkRaised>>

\* The row was read back, or deleted, and its audit is queued; or that raises.
Record(c) ==
  /\ txCall[c].pc = "executed"
  /\ \/ /\ Recordable(c)
        /\ Proceed(c)
        /\ journal' = IF txCall[c].context = {} THEN journal
                        ELSE [journal EXCEPT !.events = Append(@, [by |-> c, left |-> txCall[c].left])]
     \/ /\ At(c, "raised")
        /\ UNCHANGED journal
  /\ UNCHANGED <<opened, db, completed, changed, offered, sinkRaised>>

-----------------------------------------------------------------------------
(* commit *)

Commit(c) ==
  /\ ~completed
  /\ Starts(c, "commit", "committing", {}, 0)
  /\ UNCHANGED <<opened, db, completed, journal, changed, offered, sinkRaised>>

\* A commit behind another one, or behind a rollback, finds nothing to do.
DbCommit(c) ==
  /\ txCall[c].pc = "committing"
  /\ ~Closed
  /\ db' = IF db = "open" THEN "committed" ELSE db
  /\ At(c, "committed")
  /\ UNCHANGED <<opened, completed, journal, changed, offered, sinkRaised>>

\* commit_sql raises: it fails and closes the connection, finds it closed, or
\* was cancelled, or lost its answer, after the database committed.
CommitRaises(c) ==
  /\ txCall[c].pc \in {"committing", "committed"}
  /\ db' = IF db = "open" THEN "rolled_back" ELSE db
  /\ At(c, "raised")
  /\ UNCHANGED <<opened, completed, journal, changed, offered, sinkRaised>>

\* committed() takes no more events and offers those it has.
CommitReturns(c) ==
  /\ txCall[c].pc = "committed"
  /\ completed' = TRUE
  /\ journal' = [journal EXCEPT !.active = FALSE]
  /\ txCall' = [txCall EXCEPT ![c].pc = "delivering", ![c].left = 1]
  /\ UNCHANGED <<opened, db, changed, offered, sinkRaised>>

\* Both sinks are offered one event; a failure, and a cancellation, is kept.
\* Overlapping commits walk the same list, each from its start.
Deliver(c) ==
  /\ txCall[c].pc = "delivering"
  /\ txCall[c].left \in DOMAIN journal.events
  /\ offered' = Append(offered, [event |-> journal.events[txCall[c].left], via |-> c])
  /\ sinkRaised' \in {sinkRaised, sinkRaised \cup {c}}
  /\ txCall' = [txCall EXCEPT ![c].left = @ + 1]
  /\ UNCHANGED <<opened, db, completed, journal, changed>>

Delivered(c) ==
  /\ txCall[c].pc = "delivering"
  /\ txCall[c].left \notin DOMAIN journal.events
  /\ journal' = [journal EXCEPT !.events = <<>>]
  /\ At(c, IF c \in sinkRaised THEN "committed_error" ELSE "returned")
  /\ UNCHANGED <<opened, db, completed, changed, offered, sinkRaised>>

-----------------------------------------------------------------------------
(* rollback, which asks nothing *)

Rollback(c) ==
  /\ Starts(c, "rollback", "rolling_back", {}, 0)
  /\ journal' = [journal EXCEPT !.active = FALSE, !.events = <<>>]
  /\ completed' = TRUE
  /\ UNCHANGED <<opened, db, changed, offered, sinkRaised>>

DbRollback(c) ==
  /\ txCall[c].pc = "rolling_back"
  /\ ~Closed
  /\ db' = IF db = "open" THEN "rolled_back" ELSE db
  /\ At(c, "rolled_back")
  /\ UNCHANGED <<opened, completed, journal, changed, offered, sinkRaised>>

\* The connection is closed whether or not the rollback raises.
RollbackEnds(c) ==
  /\ \/ txCall[c].pc = "rolled_back" /\ At(c, "returned")
     \/ txCall[c].pc \in {"rolling_back", "rolled_back"} /\ At(c, "raised")
  /\ db' = IF db = "open" THEN "rolled_back" ELSE db
  /\ UNCHANGED <<opened, completed, journal, changed, offered, sinkRaised>>

TxNext ==
  \E c \in TxCalls :
    \/ \E context \in {{}} \cup {{u} : u \in Owners} :
         \/ \E n \in 1 .. MaxItems : Mutate(c, context, n)
         \/ Refuse(c, "mutate", context)
    \/ Refuse(c, "commit", {})
    \/ Execute(c) \/ Record(c)
    \/ Commit(c) \/ DbCommit(c) \/ CommitRaises(c) \/ CommitReturns(c)
    \/ Deliver(c) \/ Delivered(c)
    \/ Rollback(c) \/ DbRollback(c) \/ RollbackEnds(c)

-----------------------------------------------------------------------------
Announced == {offer.event : offer \in ToSet(offered)}
Announcers == Over("commit", {"delivering", "returned", "committed_error"})

\* An audit tells of a row that changed in the committed transaction.  No commit
\* offers one twice, so it is offered once unless commits overlapped, and then at
\* most once for each commit the database answered.
OnlyCommitted ==
  /\ offered # <<>> => db = "committed"
  /\ Announced \subseteq changed
  /\ \A offer \in ToSet(offered) : offer.via \in Announcers
  /\ Len(offered) = Cardinality(ToSet(offered))

\* Once a commit is over that nobody rolled back meanwhile, all that any mutate
\* of a context returned for is committed and was announced, also when sinks raised.
AllReturned ==
  Over("commit", {"returned", "committed_error"}) # {} /\ Made("rollback") = {} =>
    /\ db = "committed"
    /\ \A w \in changed :
         txCall[w.by].pc = "returned" /\ txCall[w.by].context # {} => w \in Announced

\* A request with its own transaction leaves none open behind it, and one that
\* raises its failure announced nothing.
OwnTransactionEnds ==
  opened = "automatic" =>
    /\ Failed # {} => offered = <<>>
    /\ Over("rollback", {"returned", "raised"}) # {} => db # "open"

\* A SQL transaction's audits are those of its committed rows, whatever tasks
\* call on it, in any order or at once, and whichever statement, commit or sink
\* raises or is cancelled (SqlDataServiceTransaction, _mutate, _CommittedAuditJournal).
JournalTruthful == OnlyCommitted /\ AllReturned /\ OwnTransactionEnds
=============================================================================
