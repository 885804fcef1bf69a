-------------------------- MODULE ConversationLock --------------------------
(***************************************************************************)
(* The lock that keeps one user's turns apart, in its two forms:           *)
(* LocalConversationLockManager (a table of asyncio locks in the process)  *)
(* and RedisConversationLockManager (a lease).  One key, that is one user. *)
(*                                                                         *)
(* These are the operations; InboundEvents says when a call makes them.    *)
(* Between two awaits of the event loop nothing else runs, so each         *)
(* operation is everything up to the next point where it can be suspended. *)
(***************************************************************************)
EXTENDS Sequences

CONSTANTS
    Calls,      \* webhook calls that can be running at once
    Locks,      \* asyncio.Lock objects that can be alive at once
    Stray,      \* the owner of a lease whose call is gone
    None

ASSUME LockAssumption ==
  /\ None \notin Calls \cup Locks
  /\ Stray \notin Calls \cup {None}

VARIABLES
    table,      \* the object the table holds for the key
    holder,     \* the call inside each object
    queue,      \* the calls suspended in each object, first come first
    lease,      \* the owner Redis has for the key
    lapsed      \* calls whose lease expired while they were inside (history)

localVars == <<table, holder, queue>>
redisVars == <<lease, lapsed>>
lockVars == <<table, holder, queue, lease, lapsed>>

LockTypeOK ==
  /\ table \in Locks \cup {None}
  /\ holder \in [Locks -> Calls \cup {None}]
  /\ queue \in [Locks -> Seq(Calls)]
  /\ lease \in Calls \cup {Stray, None}
  /\ lapsed \subseteq Calls

LockInit ==
  /\ table = None
  /\ holder = [l \in Locks |-> None]
  /\ queue = [l \in Locks |-> <<>>]
  /\ lease = None
  /\ lapsed = {}

-----------------------------------------------------------------------------
(* The table of asyncio locks *)

Unused(l) == table # l /\ holder[l] = None /\ queue[l] = <<>>

\* setdefault(key, asyncio.Lock())
LockOfKey == IF table = None THEN CHOOSE l \in Locks : Unused(l) ELSE table

\* A released lock stays reserved for the waiter it woke.
Available(l) == holder[l] = None /\ queue[l] = <<>>

LocalAcquire(c) ==
  /\ \E l \in Locks : Unused(l) \/ table = l
  /\ Available(LockOfKey)
  /\ table' = LockOfKey
  /\ holder' = [holder EXCEPT ![LockOfKey] = c]
  /\ UNCHANGED <<queue, redisVars>>

LocalWait(c) ==
  /\ table # None
  /\ ~Available(table)
  /\ queue' = [queue EXCEPT ![table] = Append(@, c)]
  /\ UNCHANGED <<table, holder, redisVars>>

\* The woken waiter runs.
LocalWake(c) ==
  \E l \in Locks :
     /\ queue[l] # <<>>
     /\ Head(queue[l]) = c
     /\ holder[l] = None
     /\ holder' = [holder EXCEPT ![l] = c]
     /\ queue' = [queue EXCEPT ![l] = Tail(@)]
     /\ UNCHANGED <<table, redisVars>>

\* The release only schedules the waiter: the lock is not locked() when the
\* guard asks, so the entry goes although somebody waits for the object.
LocalRelease(c) ==
  \E l \in Locks :
     /\ holder[l] = c
     /\ holder' = [holder EXCEPT ![l] = None]
     /\ table' = IF table = l THEN None ELSE table
     /\ UNCHANGED <<queue, redisVars>>

\* The process is gone.
LoseTable ==
  /\ table' = None
  /\ holder' = [l \in Locks |-> None]
  /\ queue' = [l \in Locks |-> <<>>]

-----------------------------------------------------------------------------
(* The lease in Redis *)

LeaseClaim(c) ==
  /\ lease = None
  /\ lease' = c
  /\ UNCHANGED <<lapsed, localVars>>

\* A bug: the key is deleted without looking whose it is.
LeaseReleaseAny(c) ==
  /\ lease' = None
  /\ lapsed' = lapsed \ {c}
  /\ UNCHANGED localVars

LeaseRelease(c) ==
  /\ lease' = IF lease = c THEN None ELSE lease
  /\ lapsed' = lapsed \ {c}
  /\ UNCHANGED localVars

\* The owner is gone, or thinks that it has released.
LeaseAbandon(c) ==
  /\ lease' = IF lease = c THEN Stray ELSE lease
  /\ lapsed' = lapsed \ {c}
  /\ UNCHANGED localVars

\* The lease is not renewed: it ends after lease_seconds, whoever is inside.
LeaseExpires ==
  /\ lease # None
  /\ lease' = None
  /\ lapsed' = lapsed \cup ({lease} \ {Stray})
  /\ UNCHANGED localVars
=============================================================================
