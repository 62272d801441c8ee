----------------------------- MODULE LocalLock -----------------------------
(***************************************************************************)
(* try_local_lock and unlock_local of UserContext for one key: a lock with *)
(* a lease, owned by a context, re-entrant, and waited for on one          *)
(* condition of the process until a deadline.                              *)
(*                                                                         *)
(* A loop pass holds the condition, so it is one step; a caller that       *)
(* sleeps wakes when it is notified or when its own timeout is over, and   *)
(* possibly much later.  Time is a clock that ticks at any moment.         *)
(***************************************************************************)
EXTENDS Integers, FiniteSetsExt

CONSTANTS
  Contexts,    \* each used by one thread
  Timeouts,    \* how long callers wait, in ticks
  Leases,      \* how long they take the lock for; 0: for ever
  MaxClock     \* bound on time

VARIABLES
  clock,
  lock,        \* the entry of _local_locks: at most one [owner, expires]
  caller,      \* caller[c]: the call of try_local_lock in c
  granted,     \* history: granted[c]: when the lease c was last given ends
  shortened    \* history: the owner renewed to an earlier end while others slept


NotCalling == [pc |-> "idle", deadline |-> 0, lease |-> 0, wake |-> 0, notified |-> FALSE]

\* Past every deadline and lease.
Never == MaxClock + Max(Timeouts \cup Leases) + 1

LockInit ==
  /\ clock = 0
  /\ lock = {}
  /\ caller = [c \in Contexts |-> NotCalling]
  /\ granted = [c \in Contexts |-> 0]
  /\ shortened = FALSE

-----------------------------------------------------------------------------
Available(c) == \A l \in lock : clock >= l.expires \/ l.owner = c

Expiry(lease) == IF lease > 0 THEN clock + lease ELSE Never

\* One pass of the loop of try_local_lock: the lock is taken or renewed, the
\* call gives up, or it sleeps until its deadline or the end of the lease.
Pass(c, call) ==
  \/ /\ Available(c)
     /\ lock' = {[owner |-> c, expires |-> Expiry(call.lease)]}
     /\ granted' = [granted EXCEPT ![c] = Expiry(call.lease)]
     /\ shortened' = (shortened \/ \E l \in lock : l.owner = c /\ Expiry(call.lease) < l.expires)
     /\ caller' = [caller EXCEPT ![c] = NotCalling]
  \/ /\ ~Available(c)
     /\ call.deadline <= clock
     /\ caller' = [caller EXCEPT ![c] = NotCalling]
     /\ UNCHANGED <<lock, granted, shortened>>
  \/ /\ ~Available(c)
     /\ call.deadline > clock
     /\ caller' = [caller EXCEPT ![c] =
          [call EXCEPT !.pc = "asleep", !.notified = FALSE,
                       !.wake = Min({call.deadline} \cup {l.expires : l \in lock})]]
     /\ UNCHANGED <<lock, granted, shortened>>

TryLock(c) ==
  /\ caller[c].pc = "idle"
  /\ \E timeout \in Timeouts, lease \in Leases :
       Pass(c, [NotCalling EXCEPT !.deadline = clock + timeout, !.lease = lease])
  /\ UNCHANGED clock

Wake(c) ==
  /\ caller[c].pc = "asleep"
  /\ caller[c].notified \/ clock >= caller[c].wake
  /\ Pass(c, caller[c])
  /\ UNCHANGED clock

\* unlock_local that takes the entry away whoever owns it.
UnlockAnyones(c) ==
  /\ caller[c].pc = "idle"
  /\ granted' = [granted EXCEPT ![c] = 0]
  /\ lock' = {}
  /\ caller' = [d \in Contexts |-> [caller[d] EXCEPT !.notified = @ \/ caller[d].pc = "asleep"]]
  /\ UNCHANGED <<clock, shortened>>

\* unlock_local, also by a context whose lease is over or that never had one:
\* only the owner's entry goes, and everyone asleep is notified.
Unlock(c) ==
  /\ caller[c].pc = "idle"
  /\ granted' = [granted EXCEPT ![c] = 0]
  /\ IF \E l \in lock : l.owner = c
       THEN /\ lock' = {}
            /\ caller' = [d \in Contexts |->
                            [caller[d] EXCEPT !.notified = @ \/ caller[d].pc = "asleep"]]
       ELSE UNCHANGED <<lock, caller>>
  /\ UNCHANGED <<clock, shortened>>

Tick ==
  /\ clock < MaxClock
  /\ clock' = clock + 1
  /\ UNCHANGED <<lock, caller, granted, shortened>>

LockNext == Tick \/ \E c \in Contexts : TryLock(c) \/ Wake(c) \/ Unlock(c)

-----------------------------------------------------------------------------
Holds(c) == clock < granted[c]

\* However late a holder unlocks, renews or lets its lease end, and whoever
\* sleeps meanwhile, two contexts never hold leases that both still run, and a
\* caller that sleeps while the lock is to be had is due to wake: it was
\* notified or its timeout is over, unless the holder renewed to a shorter
\* lease than the one the caller sleeps for (try_local_lock, unlock_local).
LeasesHonored ==
  /\ \A c, d \in Contexts : Holds(c) /\ Holds(d) => c = d
  /\ \A c \in Contexts :
       caller[c].pc = "asleep" /\ (Available(c) \/ clock >= caller[c].deadline) /\ ~shortened
         => caller[c].notified \/ clock >= caller[c].wake
=============================================================================
