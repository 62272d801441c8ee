---------------------------- MODULE MCResources ----------------------------
(***************************************************************************)
(* Six components side by side: MutationPolicy, SqlTransaction, LocalLock, *)
(* TelemetryStartup, TypedStream and ObjectStorage.  They share no state,  *)
(* so one of them is in play in each behaviour and the others stay as they *)
(* start.                                                                  *)
(***************************************************************************)
EXTENDS MCMutationPolicy, TLC

CONSTANTS
  TxCalls, Owners, MaxItems,              \* SqlTransaction
  Contexts, Timeouts, Leases, MaxClock,   \* LocalLock
  Threads, Builds,                        \* TelemetryStartup
  Tasks, Totals, ChunkSize,               \* TypedStream
  Sizes, Reads, AllOf, MaxReads           \* ObjectStorage

ASSUME ItemsAssumption == MaxItems \in Nat
ASSUME TimesAssumption ==
  /\ Timeouts \cup Leases \subseteq Nat /\ Timeouts \cup Leases # {}
  /\ IsFiniteSet(Timeouts \cup Leases)
  /\ MaxClock \in Nat
ASSUME ChunksAssumption == Totals \subseteq Nat /\ ChunkSize \in Nat \ {0}
ASSUME BlocksAssumption == Sizes \cup Reads \subseteq Nat

VARIABLES
  inPlay,
  opened, db, completed, journal, txCall, changed, offered, sinkRaised,
  clock, lock, caller, granted, shortened,
  starter, build, pipeline,
  left, total, cursor, stream, polling,
  size, raw, content, receipt, reader, closer, got, reads

txVars == <<opened, db, completed, journal, txCall, changed, offered, sinkRaised>>
lockVars == <<clock, lock, caller, granted, shortened>>
startupVars == <<starter, build, pipeline>>
streamVars == <<left, total, cursor, stream, polling>>
storageVars == <<size, raw, content, receipt, reader, closer, got, reads>>
allVars == <<inPlay, vars, txVars, lockVars, startupVars, streamVars, storageVars>>

\* The calls and owners of SqlTransaction are taken from these sets too.
Interchangeable == Permutations(Contexts) \cup Permutations(Threads) \cup Permutations(Tasks)

Tx == INSTANCE SqlTransaction
Lock == INSTANCE LocalLock
Startup == INSTANCE TelemetryStartup
Stream == INSTANCE TypedStream
Storage == INSTANCE ObjectStorage

AnyInit ==
  /\ inPlay \in {"policy", "transaction", "lock", "startup", "stream", "storage"}
  /\ Init
  /\ Tx!TxInit /\ Lock!LockInit /\ Startup!StartupInit /\ Stream!StreamInit /\ Storage!StorageInit
  /\ inPlay # "policy" => registry = "absent"
  /\ inPlay # "transaction" => opened = "explicit"
  /\ inPlay # "stream" => left = 0
  /\ inPlay # "storage" => size = 0 /\ raw.left = 0

AnyNext ==
  /\ UNCHANGED inPlay
  /\ \/ /\ inPlay = "policy"
        /\ Next
        /\ UNCHANGED <<txVars, lockVars, startupVars, streamVars, storageVars>>
     \/ /\ inPlay = "transaction"
        /\ Tx!TxNext
        /\ UNCHANGED <<vars, lockVars, startupVars, streamVars, storageVars>>
     \/ /\ inPlay = "lock"
        /\ Lock!LockNext
        /\ UNCHANGED <<vars, txVars, startupVars, streamVars, storageVars>>
     \/ /\ inPlay = "startup"
        /\ Startup!StartupNext
        /\ UNCHANGED <<vars, txVars, lockVars, streamVars, storageVars>>
     \/ /\ inPlay = "stream"
        /\ Stream!StreamNext
        /\ UNCHANGED <<vars, txVars, lockVars, startupVars, storageVars>>
     \/ /\ inPlay = "storage"
        /\ Storage!StorageNext
        /\ UNCHANGED <<vars, txVars, lockVars, startupVars, streamVars>>

AnySpec == AnyInit /\ [][AnyNext]_allVars

-----------------------------------------------------------------------------
\* Whatever raises or is cancelled, and whoever else calls on the transaction: the
\* audits of a SQL transaction are those of its committed rows, each offered once
\* by a commit, and by one commit unless several overlapped
\* (SqlDataServiceTransaction, _mutate, _CommittedAuditJournal).
JournalTruthful == Tx!JournalTruthful

\* Contexts that take, renew, lose and give back a lock in any order never hold
\* running leases together, and none sleeps while the lock is to be had
\* (try_local_lock and unlock_local).
LeasesHonored == Lock!LeasesHonored

\* However the startup handshake and its timeout fall, no telemetry pipeline
\* runs that nobody uses and nobody will shut down (default_telemetry).
NoStrayPipeline == Startup!NoStrayPipeline

\* A stream polled and closed by several tasks, with fetches that fail and are
\* cancelled, skips no row, succeeds only when all were delivered, and leaves
\* nothing open (TypedStream, _query_stream).
StreamSettles == Stream!StreamSettles

\* The receipt of an object's stream reports one outcome, and "success" only
\* for the whole object (_Receipt, _ObservedStream).
ReceiptHonest == Storage!ReceiptHonest
=============================================================================
