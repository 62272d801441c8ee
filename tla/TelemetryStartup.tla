-------------------------- MODULE TelemetryStartup --------------------------
(***************************************************************************)
(* default_telemetry: the pipeline of a telemetry configuration is built   *)
(* once per process, by a thread of its own that the caller waits for at   *)
(* most five seconds, with _lock held; the handshake decides whether the   *)
(* caller takes the pipeline or the thread shuts it down.  The calls are   *)
(* those for one enabled configuration; others only wait for _lock.        *)
(***************************************************************************)
EXTENDS Integers, FiniteSets

CONSTANTS
  Threads,   \* threads that make a UserContext
  Builds     \* bound: the builds started, in the order of their numbers

VARIABLES
  starter,   \* starter[t]: the call of default_telemetry in thread t
  build,     \* build[b]: build thread b and its candidate
  pipeline   \* the entry of _pipelines, if any


NotStarted == [pc |-> "unused", candidate |-> "none", result |-> FALSE,
               completed |-> FALSE, abandoned |-> FALSE]

StartupInit ==
  /\ starter = [t \in Threads |-> [pc |-> "idle", build |-> 0]]
  /\ build = [b \in Builds |-> NotStarted]
  /\ pipeline = {}

-----------------------------------------------------------------------------
\* _lock is held from the lookup to the end of the handshake.
LockHeld == \E t \in Threads : starter[t].pc # "idle"

\* No usable pipeline is registered: a build starts.
Start(t) ==
  /\ ~LockHeld
  /\ \A b \in pipeline : build[b].candidate = "closed"
  /\ \E b \in Builds :
       /\ build[b].pc = "unused"
       /\ \A c \in Builds : c < b => build[c].pc # "unused"
       /\ starter' = [starter EXCEPT ![t] = [pc |-> "waiting", build |-> b]]
       /\ build' = [build EXCEPT ![b].pc = "constructing"]
  /\ UNCHANGED pipeline

\* completed.wait(5) ends, also by its timeout.
StopWaiting(t) ==
  /\ starter[t].pc = "waiting"
  /\ starter' = [starter EXCEPT ![t].pc = "handshake"]
  /\ UNCHANGED <<build, pipeline>>

\* The caller's side of the handshake: it takes the result or abandons it.
Decide(t) ==
  /\ starter[t].pc = "handshake"
  /\ LET mine == starter[t].build
     IN  IF build[mine].result
           THEN pipeline' = {mine} /\ UNCHANGED build
           ELSE build' = [build EXCEPT ![mine].abandoned = TRUE] /\ UNCHANGED pipeline
  /\ starter' = [starter EXCEPT ![t] = [pc |-> "idle", build |-> 0]]

\* StandardTelemetry(config) returns, or raises.
Construct(b) ==
  /\ build[b].pc = "constructing"
  /\ \/ build' = [build EXCEPT ![b].pc = "constructed", ![b].candidate = "running"]
     \/ build' = [build EXCEPT ![b].pc = "ended", ![b].completed = TRUE]
  /\ UNCHANGED <<starter, pipeline>>

\* The candidate is handed over without a look at abandoned.
OfferUnchecked(b) ==
  /\ build[b].pc = "constructed"
  /\ build' = [build EXCEPT ![b].pc = "offered", ![b].result = TRUE]
  /\ UNCHANGED <<starter, pipeline>>

\* The builder's side of the handshake.
Offer(b) ==
  /\ build[b].pc = "constructed"
  /\ build' = [build EXCEPT ![b].pc = IF build[b].abandoned THEN "cleanup" ELSE "offered",
                            ![b].result = ~build[b].abandoned]
  /\ UNCHANGED <<starter, pipeline>>

\* An abandoned candidate is shut down, and completed is set.
Finish(b) ==
  /\ build[b].pc \in {"offered", "cleanup"}
  /\ build' = [build EXCEPT ![b].pc = "ended", ![b].completed = TRUE,
                            ![b].candidate = IF build[b].pc = "cleanup" THEN "closed" ELSE @]
  /\ UNCHANGED <<starter, pipeline>>

\* The application shuts the registered pipeline down.
Shutdown(b) ==
  /\ b \in pipeline
  /\ build[b].candidate = "running"
  /\ build' = [build EXCEPT ![b].candidate = "closed"]
  /\ UNCHANGED <<starter, pipeline>>

StartupNext ==
  \/ \E t \in Threads : Start(t) \/ StopWaiting(t) \/ Decide(t)
  \/ \E b \in Builds : Construct(b) \/ Offer(b) \/ Finish(b) \/ Shutdown(b)

-----------------------------------------------------------------------------
\* Whenever the wait times out, before, between or after the builder's steps, a
\* pipeline that runs is the registered one, or on its way to its caller, or
\* about to be shut down by its builder; a caller that was told there is none
\* leaves none behind, and no two pipelines of a configuration are in use
\* (default_telemetry, build).
NoStrayPipeline ==
  /\ \A b \in Builds :
       build[b].candidate = "running" =>
         \/ b \in pipeline
         \/ build[b].pc \in {"constructed", "cleanup"}
         \/ \E t \in Threads : starter[t].build = b
  /\ Cardinality({b \in Builds : build[b].candidate = "running" /\ build[b].result}) <= 1
  /\ \A b \in Builds : build[b].abandoned => b \notin pipeline /\ ~build[b].result
=============================================================================
