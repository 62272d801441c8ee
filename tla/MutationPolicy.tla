-------------------------- MODULE MutationPolicy --------------------------
(***************************************************************************)
(* The mutation policy of one graph save: MutationPolicyRuntimeState from  *)
(* begin_graph to the end of the transaction.                              *)
(*                                                                         *)
(* Work announces operations (record_preflight) and sends mutate requests, *)
(* each one operation or a batch of them, from as many tasks as it likes.  *)
(* The first request has everything announced so far reviewed as one plan; *)
(* every request then takes its operations off the plan before it writes.  *)
(* Review and consumption happen without an await; the writes of a request *)
(* follow one statement at a time.  Work may survive a request that raised.*)
(***************************************************************************)
EXTENDS Integers, Sequences, FiniteSets

CONSTANTS
  Ops,        \* signatures of operations: kind, entity, id, version, values
  Calls,      \* mutate requests work sends
  Requests,   \* what a request may carry: sequences of operations
  MaxPlan     \* how often one signature is announced at most

ASSUME CallsAssumption == IsFiniteSet(Calls)
ASSUME RequestsAssumption ==
  /\ Requests \subseteq Seq(Ops) \ {<<>>}
  /\ MaxPlan \in Nat

VARIABLES
  registry,   \* the customer's registry: absent, silent (resolves no policy) or customer
  phase,      \* work, committing, committed or rolledback
  preflight,  \* preflight[o]: how often o was announced
  reviewed,   \* _graph_reviewed
  remaining,  \* remaining[o]: how often o may still be written
  pc,         \* pc[c]: idle, running, done, failed or refused
  todo,       \* todo[c]: operations c has been let through with and has still to write
  written,    \* written[o]: writes of o in the transaction
  plan,       \* history: the reviewed plan
  sealed      \* history: the plan was reviewed when work returned

policy == <<preflight, reviewed, remaining, plan>>
vars == <<registry, phase, policy, pc, todo, written, sealed>>

-----------------------------------------------------------------------------
None == [o \in Ops |-> 0]
Count(r, o) == Cardinality({i \in DOMAIN r : r[i] = o})
Covers(r, n, bag) == \A o \in Ops : Count(SubSeq(r, 1, n), o) <= bag[o]

\* How many operations of r the bag has before the first it does not have.
Taken(r, bag) ==
  CHOOSE n \in 0 .. Len(r) : Covers(r, n, bag) /\ (n = Len(r) \/ ~Covers(r, n + 1, bag))

Init ==
  /\ registry \in {"absent", "silent", "customer"}
  /\ phase = "work"
  /\ preflight = None
  /\ reviewed = FALSE
  /\ remaining = None
  /\ pc = [c \in Calls |-> "idle"]
  /\ todo = [c \in Calls |-> <<>>]
  /\ written = None
  /\ plan = None
  /\ sealed = FALSE

-----------------------------------------------------------------------------
(* Before the transaction sees anything *)

\* The session is writable until commit returned or rollback began.
Writable == phase \in {"work", "committing"}

\* An operation is announced; after the review that raises.
RecordPreflight(o) ==
  /\ Writable
  /\ ~reviewed
  /\ preflight[o] < MaxPlan
  /\ preflight' = [preflight EXCEPT ![o] = @ + 1]
  /\ UNCHANGED <<registry, phase, reviewed, remaining, plan, pc, todo, written, sealed>>

\* Only a customer's policy denies.
Verdicts == IF registry = "customer" THEN {"allow", "deny"} ELSE {"allow"}

Refuse(c) == pc' = [pc EXCEPT ![c] = "refused"] /\ UNCHANGED todo
Admit(c, r) == pc' = [pc EXCEPT ![c] = "running"] /\ todo' = [todo EXCEPT ![c] = r]

\* The plan is consulted and not used up.
ConsumeKept(c, r, bag) ==
  /\ remaining' = bag
  /\ IF Taken(r, bag) = Len(r) THEN Admit(c, r) ELSE Refuse(c)

\* c takes its operations off the bag one by one; one that is not there raises,
\* and those before it stay taken.
Consume(c, r, bag) ==
  LET n == Taken(r, bag) IN
  /\ remaining' = [o \in Ops |-> bag[o] - Count(SubSeq(r, 1, n), o)]
  /\ IF n = Len(r) THEN Admit(c, r) ELSE Refuse(c)

\* A request with no graph announced: the generated default reviews it alone,
\* a customer's registry fails closed.
EnterAlone(c, r) ==
  /\ ~reviewed /\ preflight = None
  /\ IF registry = "absent" THEN Admit(c, r) ELSE Refuse(c)
  /\ UNCHANGED policy

\* The first request after announcements has them reviewed.
EnterFirst(c, r) ==
  /\ ~reviewed /\ preflight # None
  /\ \/ /\ "allow" \in Verdicts
        /\ reviewed' = TRUE
        /\ plan' = preflight
        /\ Consume(c, r, preflight)
     \/ /\ "deny" \in Verdicts
        /\ Refuse(c)
        /\ UNCHANGED <<reviewed, plan, remaining>>
  /\ UNCHANGED preflight

EnterReviewed(c, r) ==
  /\ reviewed
  /\ Consume(c, r, remaining)
  /\ UNCHANGED <<preflight, reviewed, plan>>

\* mutate is called: enter_mutation, up to the first await.
EnterMutation(c, r) ==
  /\ pc[c] = "idle"
  /\ Writable
  /\ EnterAlone(c, r) \/ EnterFirst(c, r) \/ EnterReviewed(c, r)
  /\ UNCHANGED <<registry, phase, written, sealed>>

\* The request is not valid or fails its checks, or it comes too late: the
\* session is closed or the transaction completed.
Reject(c) ==
  /\ pc[c] = "idle"
  /\ Refuse(c)
  /\ UNCHANGED <<registry, phase, policy, written, sealed>>

-----------------------------------------------------------------------------
(* The writes *)

\* The next statement of c takes effect; the last one ends the call, or its
\* readback or the queuing of its audit raises.
Write(c) ==
  /\ pc[c] = "running"
  /\ Writable
  /\ written' = [written EXCEPT ![Head(todo[c])] = @ + 1]
  /\ \/ /\ todo' = [todo EXCEPT ![c] = Tail(@)]
        /\ pc' = [pc EXCEPT ![c] = IF Len(todo[c]) = 1 THEN "done" ELSE "running"]
     \/ /\ todo' = [todo EXCEPT ![c] = <<>>]
        /\ pc' = [pc EXCEPT ![c] = "failed"]
  /\ UNCHANGED <<registry, phase, policy, sealed>>

\* The next statement of c raises; the rest of its batch is not sent.
Fail(c) ==
  /\ pc[c] = "running"
  /\ todo' = [todo EXCEPT ![c] = <<>>]
  /\ pc' = [pc EXCEPT ![c] = "failed"]
  /\ UNCHANGED <<registry, phase, policy, written, sealed>>

-----------------------------------------------------------------------------
(* The end of the save *)

\* The plan is not asked whether it is used up.
FinishIncomplete ==
  /\ phase = "work"
  /\ phase' = "committing"
  /\ sealed' = reviewed
  /\ UNCHANGED <<registry, policy, pc, todo, written>>

\* Work returns; ensure_graph_complete passes, or raises and the save rolls back.
Finish ==
  /\ phase = "work"
  /\ phase' = IF reviewed /\ remaining # None THEN "rolledback" ELSE "committing"
  /\ sealed' = reviewed
  /\ UNCHANGED <<registry, policy, pc, todo, written>>

\* commit returns.
Commit ==
  /\ phase = "committing"
  /\ phase' = "committed"
  /\ UNCHANGED <<registry, policy, pc, todo, written, sealed>>

\* Work or commit raises.
Rollback ==
  /\ Writable
  /\ phase' = "rolledback"
  /\ UNCHANGED <<registry, policy, pc, todo, written, sealed>>

Next ==
  \/ \E o \in Ops : RecordPreflight(o)
  \/ \E c \in Calls :
       \/ \E r \in Requests : EnterMutation(c, r)
       \/ Reject(c) \/ Write(c) \/ Fail(c)
  \/ Finish \/ Commit \/ Rollback

Spec == Init /\ [][Next]_vars

-----------------------------------------------------------------------------
Suffixes == {<<>>} \cup (UNION {{SubSeq(r, n, Len(r)) : n \in 1 .. Len(r)} : r \in Requests})

TypeOK ==
  /\ registry \in {"absent", "silent", "customer"}
  /\ phase \in {"work", "committing", "committed", "rolledback"}
  /\ preflight \in [Ops -> 0 .. MaxPlan]
  /\ reviewed \in BOOLEAN
  /\ remaining \in [Ops -> 0 .. MaxPlan]
  /\ pc \in [Calls -> {"idle", "running", "done", "failed", "refused"}]
  /\ \A c \in Calls : todo[c] \in Suffixes /\ (todo[c] # <<>> <=> pc[c] = "running")
  /\ written \in [Ops -> Nat]
  /\ plan \in [Ops -> 0 .. MaxPlan]
  /\ sealed \in BOOLEAN

\* Writes of o that have been let through and not been sent.
Coming(o) ==
  Cardinality({p \in UNION {{c} \X DOMAIN todo[c] : c \in Calls} : todo[p[1]][p[2]] = o})

\* The state is well typed.  With a registry installed, whatever requests, batches,
\* denials and failures interleave, every write is one of the plan a review allowed,
\* and no entry of the plan is used twice (enter_mutation, _consume_planned).
WritesReviewed ==
  /\ TypeOK
  /\ registry # "absent" => \A o \in Ops : written[o] + Coming(o) + remaining[o] <= plan[o]

\* A plan that was reviewed when work returned and of which no request raised or
\* is left running is committed whole, also when requests still arrive while
\* commit is awaited (ensure_graph_complete).
WholePlanCommitted ==
  phase = "committed" /\ sealed /\ registry # "absent"
    /\ (\A c \in Calls : pc[c] \in {"idle", "done"})
    => written = plan

\* A reviewed plan with operations that were not executed is never committed.
IncompleteFailsClosed ==
  phase = "committed" /\ sealed /\ registry # "absent" /\ (\A c \in Calls : pc[c] # "running")
    => written = plan
=============================================================================
