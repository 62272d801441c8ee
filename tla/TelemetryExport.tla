-------------------------- MODULE TelemetryExport --------------------------
(***************************************************************************)
(* One signal of the standard telemetry: ExportQueue's accounting of the   *)
(* records handed to the SDK's batch processor, the exporter that settles  *)
(* them over HTTP, and the flush and shutdown of StandardTelemetry.        *)
(*                                                                         *)
(* Threads of the application hand records over; a thread of the SDK takes *)
(* batches off its own deque and exports them, one batch at a time and one *)
(* HTTP attempt each; flush and shutdown run in threads of their own and   *)
(* wait with a timeout.  Each action is what happens under a lock, or one  *)
(* call between two.  A report of a loss is part of the step it reports.   *)
(***************************************************************************)
EXTENDS Integers, Sequences, FiniteSets, SequencesExt

CONSTANTS
  Records,     \* finished spans or log records
  Capacity,    \* capacity of the queue, queued and exporting records together
  BatchSize,   \* max_export_batch_size
  Flushers,    \* calls of flush
  Closers,     \* calls of shutdown
  Nobody,      \* holder of the free lifecycle lock
  MaxOffers    \* bound on offers, records offered twice and late ones included

ASSUME RecordsAssumption == IsFiniteSet(Records)
ASSUME SizesAssumption == {Capacity, BatchSize, MaxOffers} \subseteq Nat \ {0}
ASSUME LifecycleAssumption == Flushers \cap Closers = {} /\ Nobody \notin Flushers \cup Closers

Lifecycles == Flushers \cup Closers
Reasons == {"queue_overflow", "export_failure", "shutdown", "handoff_failure"}

VARIABLES
  state,     \* state[r]: new, refused, queued, exporting, complete or retired
  sequence,  \* sequence[r]: place of r in the order of admission, 0 for none
  count,     \* count[k]: offered, admitted, completed, overflow, post_shutdown, ...
  lost,      \* lost[k]: records reported as lost for reason k
  closed,    \* the queue takes no more records
  aborted,   \* queued records have been retired
  deque,     \* the SDK's queue of records to export
  batch,     \* records the SDK's thread is exporting
  exporter,  \* that thread: idle, taken (a batch), admitted (by begin_export), sending
  wire,      \* the HTTP attempt: none, active, or late (given up and still running)
  sent,      \* sent[r]: how often r was put into an attempt
  acked,     \* records whose attempt the receiver acknowledged in time
  pc,        \* pc[l]: where flush or shutdown l stands
  holder,    \* who holds _lifecycle_lock
  shut,      \* StandardTelemetry.closed
  prefix     \* prefix[l]: how many records were admitted when l began to wait

queue == <<state, sequence, count, lost, closed, aborted>>
export == <<deque, batch, exporter, wire, sent, acked>>
lifecycle == <<pc, holder, shut, prefix>>
vars == <<queue, export, lifecycle>>

Counters == {"offered", "admitted", "completed", "overflow", "post_shutdown",
             "handoff_failed", "retired"}

-----------------------------------------------------------------------------
Pending == {r \in Records : state[r] \in {"queued", "exporting"}}
Queued == {r \in Records : state[r] = "queued"}

\* Each counter of K gains n.
Add(K, n) == count' = [k \in Counters |-> count[k] + IF k \in K THEN n ELSE 0]
Lose(n, reason) == lost' = [lost EXCEPT ![reason] = @ + n]

Init ==
  /\ state = [r \in Records |-> "new"]
  /\ sequence = [r \in Records |-> 0]
  /\ count = [k \in Counters |-> 0]
  /\ lost = [k \in Reasons |-> 0]
  /\ closed = FALSE /\ aborted = FALSE
  /\ deque = <<>> /\ batch = {} /\ exporter = "idle" /\ wire = "none"
  /\ sent = [r \in Records |-> 0]
  /\ acked = {}
  /\ pc = [l \in Lifecycles |-> "idle"]
  /\ holder = Nobody
  /\ shut = FALSE
  /\ prefix = [l \in Lifecycles |-> 0]

-----------------------------------------------------------------------------
(* Handing records over *)

\* A record the queue does not take is counted and reported.
Refused(r, counter, reason) ==
  /\ Add({counter, "offered"}, 1)
  /\ Lose(1, reason)
  /\ state' = [state EXCEPT ![r] = IF @ = "new" THEN "refused" ELSE @]
  /\ UNCHANGED <<sequence, deque>>

\* submit succeeded: the record has its place in the order.
Admitted(r) ==
  /\ Add({"admitted", "offered"}, 1)
  /\ state' = [state EXCEPT ![r] = "queued"]
  /\ sequence' = [sequence EXCEPT ![r] = count["admitted"] + 1]
  /\ deque' = Append(deque, r)
  /\ UNCHANGED lost

\* Only queued records are counted against the capacity.
HandoffUncounted(r) ==
  /\ count["offered"] < MaxOffers
  /\ state[r] \in {"new", "queued", "exporting"}
  /\ IF closed THEN Refused(r, "post_shutdown", "shutdown")
     ELSE IF Cardinality(Queued) >= Capacity THEN Refused(r, "overflow", "queue_overflow")
     ELSE IF r \in Pending THEN Refused(r, "handoff_failed", "handoff_failure")
     ELSE Admitted(r) \/ Refused(r, "handoff_failed", "handoff_failure")
  /\ UNCHANGED <<closed, aborted, batch, exporter, wire, sent, acked, lifecycle>>

\* A record is handed over, possibly one that is in the queue already.
Handoff(r) ==
  /\ count["offered"] < MaxOffers
  /\ state[r] \in {"new", "queued", "exporting"}
  /\ IF closed THEN Refused(r, "post_shutdown", "shutdown")
     ELSE IF Cardinality(Pending) >= Capacity THEN Refused(r, "overflow", "queue_overflow")
     ELSE IF r \in Pending THEN Refused(r, "handoff_failed", "handoff_failure")
     ELSE Admitted(r) \/ Refused(r, "handoff_failed", "handoff_failure")
  /\ UNCHANGED <<closed, aborted, batch, exporter, wire, sent, acked, lifecycle>>

\* A scope that ends after shutdown is counted without a record.
RejectLate ==
  /\ count["offered"] < MaxOffers
  /\ shut
  /\ Add({"post_shutdown", "offered"}, 1)
  /\ Lose(1, "shutdown")
  /\ UNCHANGED <<state, sequence, closed, aborted, export, lifecycle>>

-----------------------------------------------------------------------------
(* Exporting them *)

\* The SDK's thread takes the next batch off its deque.
TakeBatch ==
  /\ exporter = "idle"
  /\ deque # <<>>
  /\ LET n == IF Len(deque) < BatchSize THEN Len(deque) ELSE BatchSize IN
     /\ batch' = ToSet(SubSeq(deque, 1, n))
     /\ deque' = SubSeq(deque, n + 1, Len(deque))
  /\ exporter' = "taken"
  /\ UNCHANGED <<queue, wire, sent, acked, lifecycle>>

\* The batch is exported without asking whether it was retired.
BeginExportRetired ==
  /\ exporter = "taken"
  /\ state' = [r \in Records |-> IF r \in batch \cap Queued THEN "exporting" ELSE state[r]]
  /\ exporter' = "admitted"
  /\ UNCHANGED <<sequence, count, lost, closed, aborted, deque, batch, wire, sent, acked, lifecycle>>

\* begin_export: all of the batch, or nothing of it.
BeginExport ==
  /\ exporter = "taken"
  /\ IF ~aborted /\ batch \subseteq Queued
       THEN /\ state' = [r \in Records |-> IF r \in batch THEN "exporting" ELSE state[r]]
            /\ exporter' = "admitted"
            /\ UNCHANGED batch
       ELSE /\ exporter' = "idle"
            /\ batch' = {}
            /\ UNCHANGED state
  /\ UNCHANGED <<sequence, count, lost, closed, aborted, deque, wire, sent, acked, lifecycle>>

\* The export of the batch returned: complete(failed).
Complete(failed) ==
  /\ LET settled == batch \cap Pending IN
     /\ state' = [r \in Records |-> IF r \in settled THEN "complete" ELSE state[r]]
     /\ Add({"completed"}, Cardinality(settled))
     /\ IF failed THEN Lose(Cardinality(settled), "export_failure") ELSE UNCHANGED lost
  /\ batch' = {}
  /\ exporter' = "idle"
  /\ UNCHANGED <<sequence, closed, aborted, deque, lifecycle>>

\* Shutdown has closed the HTTP exporters.
HttpClosed == \E l \in Closers : pc[l] = "done"

\* HttpExporter.export starts its attempt, or fails at once: it was shut down, the
\* attempt it gave up before is still running, or the batch cannot be encoded.
Send ==
  /\ exporter = "admitted"
  /\ \/ /\ wire = "none" /\ ~HttpClosed
        /\ wire' = "active"
        /\ exporter' = "sending"
        /\ sent' = [r \in Records |-> sent[r] + IF r \in batch THEN 1 ELSE 0]
        /\ UNCHANGED <<queue, deque, batch, acked, lifecycle>>
     \/ /\ Complete(TRUE)
        /\ UNCHANGED <<wire, sent, acked>>

\* The attempt ends in time, acknowledged or failed.
AttemptEnds ==
  /\ exporter = "sending"
  /\ wire = "active"
  /\ wire' = "none"
  /\ \E ok \in BOOLEAN :
       /\ Complete(~ok)
       /\ acked' = IF ok THEN acked \cup batch ELSE acked
  /\ UNCHANGED sent

\* An attempt given up leaves its batch unsettled.
AttemptForgotten ==
  /\ exporter = "sending"
  /\ wire = "active"
  /\ wire' = "late"
  /\ batch' = {}
  /\ exporter' = "idle"
  /\ UNCHANGED <<queue, deque, sent, acked, lifecycle>>

\* The attempt does not end in three seconds, or is aborted: the export fails
\* and the attempt goes on until its socket gives in.
AttemptTimesOut ==
  /\ exporter = "sending"
  /\ wire = "active"
  /\ wire' = "late"
  /\ Complete(TRUE)
  /\ UNCHANGED <<sent, acked>>

LateAttemptEnds ==
  /\ wire = "late"
  /\ wire' = "none"
  /\ UNCHANGED <<queue, deque, batch, exporter, sent, acked, lifecycle>>

-----------------------------------------------------------------------------
(* Flush and shutdown *)

Begin(l) ==
  /\ pc[l] = "idle"
  /\ pc' = [pc EXCEPT ![l] = "waiting"]
  /\ UNCHANGED <<queue, export, holder, shut, prefix>>

\* The lifecycle lock is free; after a shutdown there is nothing left to do.
Enter(l) ==
  /\ pc[l] = "waiting"
  /\ holder = Nobody
  /\ IF shut
       THEN pc' = [pc EXCEPT ![l] = "done"] /\ UNCHANGED <<holder, shut>>
       ELSE /\ pc' = [pc EXCEPT ![l] = IF l \in Closers THEN "closing" ELSE "entered"]
            /\ holder' = l
            /\ shut' = (l \in Closers)
  /\ UNCHANGED <<queue, export, prefix>>

\* The lock was not free for six seconds.
GiveUp(l) ==
  /\ pc[l] = "waiting"
  /\ holder # Nobody
  /\ pc' = [pc EXCEPT ![l] = "gave_up"]
  /\ UNCHANGED <<queue, export, holder, shut, prefix>>

CloseQueue(l) ==
  /\ pc[l] = "closing"
  /\ closed' = TRUE
  /\ pc' = [pc EXCEPT ![l] = "entered"]
  /\ UNCHANGED <<state, sequence, count, lost, aborted, export, holder, shut, prefix>>

TakePrefix(l) ==
  /\ pc[l] = "entered"
  /\ prefix' = [prefix EXCEPT ![l] = count["admitted"]]
  /\ pc' = [pc EXCEPT ![l] = "settling"]
  /\ UNCHANGED <<queue, export, holder, shut>>

\* Something admitted up to the prefix of l is not settled.
Unsettled(l) == \E r \in Pending : sequence[r] <= prefix[l]

\* Records in an attempt are not waited for.
DrainedOfQueued(l) ==
  /\ pc[l] = "settling"
  /\ ~ \E r \in Queued : sequence[r] <= prefix[l]
  /\ pc' = [pc EXCEPT ![l] = "drained"]
  /\ UNCHANGED <<queue, export, holder, shut, prefix>>

\* wait_prefix returns true.
Drained(l) ==
  /\ pc[l] = "settling"
  /\ ~Unsettled(l)
  /\ pc' = [pc EXCEPT ![l] = "drained"]
  /\ UNCHANGED <<queue, export, holder, shut, prefix>>

\* wait_prefix has no timeout.
NeverTimesOut(l) == l \notin Lifecycles /\ UNCHANGED vars

\* wait_prefix times out.
TimesOut(l) ==
  /\ pc[l] = "settling"
  /\ Unsettled(l)
  /\ pc' = [pc EXCEPT ![l] = IF l \in Closers THEN "aborting" ELSE "late"]
  /\ UNCHANGED <<queue, export, holder, shut, prefix>>

\* Nothing is retired.
AbortForgotten == UNCHANGED <<state, count, lost, aborted>>

\* Records in an attempt are retired with the queued ones.
AbortPending ==
  IF aborted
    THEN UNCHANGED <<state, count, lost, aborted>>
    ELSE /\ aborted' = TRUE
         /\ state' = [r \in Records |-> IF r \in Pending THEN "retired" ELSE state[r]]
         /\ Add({"retired"}, Cardinality(Pending))
         /\ Lose(Cardinality(Pending), "shutdown")

\* abort_queued: whatever no export has taken is retired, once.
AbortQueued ==
  IF aborted
    THEN UNCHANGED <<state, count, lost, aborted>>
    ELSE /\ aborted' = TRUE
         /\ state' = [r \in Records |-> IF r \in Queued THEN "retired" ELSE state[r]]
         /\ Add({"retired"}, Cardinality(Queued))
         /\ Lose(Cardinality(Queued), "shutdown")

\* A shutdown that timed out retires what is queued and waits a little more.
Abort(l) ==
  /\ pc[l] = "aborting"
  /\ AbortQueued
  /\ pc' = [pc EXCEPT ![l] = "drained"]
  /\ UNCHANGED <<sequence, closed, export, holder, shut, prefix>>

\* Metrics are flushed; a shutdown retires what is left and closes the exporters.
Leave(l) ==
  /\ pc[l] \in {"drained", "late"}
  /\ IF l \in Closers THEN AbortQueued ELSE UNCHANGED <<state, count, lost, aborted>>
  /\ pc' = [pc EXCEPT ![l] = IF @ = "late" THEN "late_done" ELSE "done"]
  /\ holder' = Nobody
  /\ UNCHANGED <<sequence, closed, export, shut, prefix>>

-----------------------------------------------------------------------------
Export == TakeBatch \/ BeginExport \/ Send \/ AttemptEnds \/ AttemptTimesOut

Advance(l) ==
  \/ Enter(l) \/ GiveUp(l) \/ CloseQueue(l) \/ TakePrefix(l)
  \/ Drained(l) \/ TimesOut(l) \/ Abort(l) \/ Leave(l)

Next ==
  \/ \E r \in Records : Handoff(r)
  \/ RejectLate
  \/ Export \/ LateAttemptEnds
  \/ \E l \in Lifecycles : Begin(l) \/ Advance(l)

Spec == Init /\ [][Next]_vars

\* Flush and shutdown wait with timeouts, so each goes on whatever the export does.
FairSpec == Spec /\ \A l \in Lifecycles : WF_vars(Advance(l))

\* The SDK's thread goes on exporting, and an attempt ends one way or the other.
ExportGoesOn == WF_vars(Export)

-----------------------------------------------------------------------------
TypeOK ==
  /\ state \in [Records -> {"new", "refused", "queued", "exporting", "complete", "retired"}]
  /\ sequence \in [Records -> 0 .. Cardinality(Records)]
  /\ count \in [Counters -> 0 .. MaxOffers]
  /\ lost \in [Reasons -> 0 .. MaxOffers]
  /\ closed \in BOOLEAN /\ aborted \in BOOLEAN /\ shut \in BOOLEAN
  /\ ToSet(deque) \subseteq Records /\ IsInjective(deque)
  /\ batch \subseteq Records /\ Cardinality(batch) <= BatchSize
  /\ exporter \in {"idle", "taken", "admitted", "sending"}
  /\ wire \in {"none", "active", "late"}
  /\ sent \in [Records -> 0 .. 1]
  /\ acked \subseteq Records
  /\ pc \in [Lifecycles -> {"idle", "waiting", "gave_up", "closing", "entered", "settling",
                            "drained", "late", "late_done", "aborting", "done"}]
  /\ holder \in Lifecycles \cup {Nobody}
  /\ prefix \in [Lifecycles -> 0 .. Cardinality(Records)]

\* The state is well typed, every record offered is counted once, every record admitted is settled once or
\* outstanding, and queued and exporting records share one budget
\* (ExportQueue.snapshot, README "one 2,048-record budget, with visible overflow").
EveryRecordCounted ==
  /\ TypeOK
  /\ count["offered"] = count["admitted"] + count["overflow"] + count["post_shutdown"]
                        + count["handoff_failed"]
  /\ count["admitted"] = count["completed"] + count["retired"] + Cardinality(Pending)
  /\ Cardinality(Pending) <= Capacity

\* A loss is reported for exactly the records the receiver did not acknowledge:
\* none twice, none silently, also when an abort meets an export.
LossesReported ==
  /\ count["completed"] = Cardinality(acked) + lost["export_failure"]
  /\ lost["queue_overflow"] = count["overflow"]
  /\ lost["handoff_failure"] = count["handoff_failed"]
  /\ lost["shutdown"] = count["post_shutdown"] + count["retired"]

\* A record is sent at most once, and none that was retired is sent at all
\* (begin_export; the deque of the SDK still holds what abort_queued retired).
RetiredNeverSent ==
  \A r \in Records : sent[r] <= 1 /\ (state[r] \in {"queued", "retired", "refused"} => sent[r] = 0)

\* A flush or shutdown whose wait succeeded has every record admitted before it
\* settled, in an attempt or not; only an abort lets a shutdown leave an attempt behind
\* (wait_prefix).
FlushHonest ==
  \A l \in Lifecycles : pc[l] = "drained" \/ (pc[l] = "done" /\ l \in Flushers) =>
    \A r \in Records :
      sequence[r] \in 1 .. prefix[l] =>
        state[r] \in {"complete", "retired"} \/ (aborted /\ state[r] = "exporting")

\* After shutdown returned nothing is queued and nothing can be.
ShutdownSettles == (\E l \in Closers : pc[l] = "done") => closed /\ Queued = {}

\* Flush and shutdown end whatever the exporter and the receiver do: a lock, a wait
\* or an attempt that hangs costs them their timeout, never more (_lifecycle).
LifecyclesEnd ==
  \A l \in Lifecycles : (pc[l] # "idle") ~> (pc[l] \in {"done", "late_done", "gave_up"})

\* While the exporter goes on, a shutdown leaves no admitted record outstanding:
\* exported, failed or retired, each is settled (_settle_lifecycle).
ShutdownDrains == ExportGoesOn => (shut ~> Pending = {})
=============================================================================
