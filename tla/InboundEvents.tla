---------------------------- MODULE InboundEvents ----------------------------
(***************************************************************************)
(* A user's text messages from Feishu to their answers: the webhook with   *)
(* its dedup record (interfaces/http/feishu_webhook.py), the handler that  *)
(* takes the conversation lock (application/inbound/message_handler.py)    *)
(* and the turn of the assistant with the rows it leaves in the            *)
(* conversation (application/assistant/service.py).                        *)
(*                                                                         *)
(* Feishu delivers a message again when an answer is late or not 2xx, so   *)
(* several calls may come for one message; each runs until it answers the  *)
(* webhook, fails, or dies with its process.  One user, one conversation:  *)
(* users share no lock and no rows.                                        *)
(***************************************************************************)
EXTENDS ConversationLock, Integers

CONSTANTS
    Messages,
    MaxFaults    \* bound on exceptions, lost answers, expired leases, crashes

ASSUME InboundAssumption == MaxFaults \in Nat /\ None \notin Messages

VARIABLES
    settings,    \* event_dedup_store_backend and conversation_lock_backend
    dedup,       \* the record of each event
    call,        \* the running webhook calls
    rows,        \* the rows of each message in the conversation
    turns,       \* how often each message was given to the assistant (history)
    told,        \* what the user was told about each message (history)
    faults

vars == <<settings, dedup, call, rows, turns, told, faults, lockVars>>

Backends == [dedup : {"memory", "redis"}, lock : {"local", "redis"}]

Replies == {"answer", "failed", "processing"}

\* locking: before the lock; waiting: suspended in it; opening: inside, the
\* message not yet stored; running: the assistant works; answering: its answer
\* not yet stored; replying: to Feishu; leaving: before the lock is released;
\* marking, failing: before the dedup record is written.
Stages == {"idle", "locking", "waiting", "opening", "running", "answering",
           "replying", "leaving", "marking", "failing"}

Call == [at : Stages, msg : Messages \cup {None}, reply : Replies \cup {None}]

Free == [at |-> "idle", msg |-> None, reply |-> None]

TypeOK ==
  /\ LockTypeOK
  /\ settings \in Backends
  /\ dedup \in [Messages -> {"absent", "started", "completed", "failed"}]
  /\ call \in [Calls -> Call]
  /\ rows \in [Messages -> SUBSET {"user", "agent"}]
  /\ turns \in [Messages -> Nat]
  /\ told \in [Messages -> SUBSET Replies]
  /\ faults \in Nat

Active(c) == call[c].at # "idle"

\* async with lock: from the acquisition to the release.
Inside(c) == call[c].at \in {"opening", "running", "answering", "replying", "leaving"}

Init ==
  /\ LockInit
  /\ settings \in Backends
  /\ dedup = [m \in Messages |-> "absent"]
  /\ call = [c \in Calls |-> Free]
  /\ rows = [m \in Messages |-> {}]
  /\ turns = [m \in Messages |-> 0]
  /\ told = [m \in Messages |-> {}]
  /\ faults = 0

Fault == faults < MaxFaults /\ faults' = faults + 1

MovesTo(c, stage) == call' = [call EXCEPT ![c].at = stage]

RepliesWith(c, reply) ==
  call' = [call EXCEPT ![c].at = "replying", ![c].reply = reply]

-----------------------------------------------------------------------------
(* The webhook and its dedup record *)

\* A bug: a delivery that meets a running one starts as well.
StartableUnlessCompleted(state) == state # "completed"

\* STARTED or RETRY_ALLOWED; otherwise the webhook answers "accepted" and
\* nothing changes.
Startable(state) == state \in {"absent", "failed"}

Deliver(c, m) ==
  /\ ~Active(c)
  /\ Startable(dedup[m])
  /\ dedup' = [dedup EXCEPT ![m] = "started"]
  /\ call' = [call EXCEPT ![c] = [at |-> "locking", msg |-> m, reply |-> None]]
  /\ UNCHANGED <<settings, rows, turns, told, faults, lockVars>>

\* try_start raises although Redis started the record: the webhook fails
\* before its try block, so nobody marks the event.
StartRaises(m) ==
  /\ Fault
  /\ settings.dedup = "redis"
  /\ Startable(dedup[m])
  /\ dedup' = [dedup EXCEPT ![m] = "started"]
  /\ UNCHANGED <<settings, call, rows, turns, told, lockVars>>

MarkCompleted(c) ==
  /\ call[c].at = "marking"
  /\ dedup' = [dedup EXCEPT ![call[c].msg] = "completed"]
  /\ call' = [call EXCEPT ![c] = Free]
  /\ UNCHANGED <<settings, rows, turns, told, faults, lockVars>>

MarkFailed(c) ==
  /\ call[c].at = "failing"
  /\ dedup' = [dedup EXCEPT ![call[c].msg] = "failed"]
  /\ call' = [call EXCEPT ![c] = Free]
  /\ UNCHANGED <<settings, rows, turns, told, faults, lockVars>>

\* The store raises, having written the record or not.
MarkRaises(c) ==
  /\ Fault
  /\ settings.dedup = "redis"
  /\ \/ /\ call[c].at = "marking"
        /\ MovesTo(c, "failing")
        /\ dedup' \in {dedup, [dedup EXCEPT ![call[c].msg] = "completed"]}
     \/ /\ call[c].at = "failing"
        /\ call' = [call EXCEPT ![c] = Free]
        /\ dedup' \in {dedup, [dedup EXCEPT ![call[c].msg] = "failed"]}
  /\ UNCHANGED <<settings, rows, turns, told, lockVars>>

\* A record outlives every call that works under it: a day against minutes.
Expire(m) ==
  /\ settings.dedup = "redis"
  /\ dedup[m] # "absent"
  /\ \A c \in Calls : call[c].msg # m
  /\ dedup' = [dedup EXCEPT ![m] = "absent"]
  /\ UNCHANGED <<settings, call, rows, turns, told, faults, lockVars>>

-----------------------------------------------------------------------------
(* The conversation lock *)

EnterLocal(c) ==
  /\ settings.lock = "local"
  /\ \/ call[c].at = "locking" /\ LocalAcquire(c) /\ MovesTo(c, "opening")
     \/ call[c].at = "locking" /\ LocalWait(c) /\ MovesTo(c, "waiting")
     \/ call[c].at = "waiting" /\ LocalWake(c) /\ MovesTo(c, "opening")
  /\ UNCHANGED <<settings, dedup, rows, turns, told, faults>>

EnterRedis(c) ==
  /\ settings.lock = "redis"
  /\ call[c].at = "locking"
  /\ LeaseClaim(c)
  /\ MovesTo(c, "opening")
  /\ UNCHANGED <<settings, dedup, rows, turns, told, faults>>

\* TimeoutError after acquire_timeout_seconds of polling.
GiveUpLease(c) ==
  /\ settings.lock = "redis"
  /\ call[c].at = "locking"
  /\ lease # None
  /\ MovesTo(c, "failing")
  /\ UNCHANGED <<settings, dedup, rows, turns, told, faults, lockVars>>

Unlock(c) == IF settings.lock = "local" THEN LocalRelease(c) ELSE LeaseRelease(c)

Leave(c) ==
  /\ call[c].at = "leaving"
  /\ Unlock(c)
  /\ MovesTo(c, "marking")
  /\ UNCHANGED <<settings, dedup, rows, turns, told, faults>>

LeaseEnds ==
  /\ Fault
  /\ settings.lock = "redis"
  /\ LeaseExpires
  /\ UNCHANGED <<settings, dedup, call, rows, turns, told>>

-----------------------------------------------------------------------------
(* The turn *)

\* A bug: the answer of the append is not looked at.
IsFreshAlways(m) == TRUE

\* add_message answers duplicate when the conversation has the message.
IsFresh(m) == "user" \notin rows[m]

PriorReply(m) == IF "agent" \in rows[m] THEN "answer" ELSE "processing"

\* From begin_streaming_reply to the append of the user's message, and the
\* replay of what a duplicate was answered before.
Open(c) ==
  LET m == call[c].msg IN
  /\ call[c].at = "opening"
  /\ IF IsFresh(m)
       THEN MovesTo(c, "running") /\ rows' = [rows EXCEPT ![m] = @ \cup {"user"}]
       ELSE RepliesWith(c, PriorReply(m)) /\ UNCHANGED rows
  /\ UNCHANGED <<settings, dedup, turns, told, faults, lockVars>>

\* The assistant answers, answers without a row in the conversation (a tool
\* that ends the turn, a query nobody may make), or raises AssistantError.
Run(c) ==
  /\ call[c].at = "running"
  /\ turns' = [turns EXCEPT ![call[c].msg] = @ + 1]
  /\ MovesTo(c, "answering") \/ RepliesWith(c, "answer") \/ RepliesWith(c, "failed")
  /\ UNCHANGED <<settings, dedup, rows, told, faults, lockVars>>

StoreAnswer(c) ==
  /\ call[c].at = "answering"
  /\ rows' = [rows EXCEPT ![call[c].msg] = @ \cup {"agent"}]
  /\ RepliesWith(c, "answer")
  /\ UNCHANGED <<settings, dedup, turns, told, faults, lockVars>>

\* A bug: an exception of the channel is swallowed.
ReplyUnlessRefused(c) ==
  /\ call[c].at = "replying"
  /\ told' \in {told, [told EXCEPT ![call[c].msg] = @ \cup {call[c].reply}]}
  /\ MovesTo(c, "leaving")
  /\ UNCHANGED <<settings, dedup, rows, turns, faults, lockVars>>

Reply(c) ==
  /\ call[c].at = "replying"
  /\ told' = [told EXCEPT ![call[c].msg] = @ \cup {call[c].reply}]
  /\ MovesTo(c, "leaving")
  /\ UNCHANGED <<settings, dedup, rows, turns, faults, lockVars>>

-----------------------------------------------------------------------------
(* Failures *)

\* A bug: the lock is released only when the turn succeeds.
UnwindLocked(c) ==
  /\ Inside(c)
  /\ UNCHANGED lockVars

\* The finally of the lock releases it on the way out.
Unwind(c) == Inside(c) /\ Unlock(c)

\* An exception of a backend call, of the channel or of Redis.  The call may
\* have had its effect all the same: the row is stored, the assistant has
\* worked, the user was told.
Raise(c) ==
  LET m == call[c].msg IN
  /\ Fault
  /\ call[c].at # "leaving"
  /\ Unwind(c)
  /\ MovesTo(c, "failing")
  /\ \/ UNCHANGED <<rows, turns, told>>
     \/ /\ call[c].at = "opening"
        /\ rows' = [rows EXCEPT ![m] = @ \cup {"user"}]
        /\ UNCHANGED <<turns, told>>
     \/ /\ call[c].at = "running"
        /\ turns' = [turns EXCEPT ![m] = @ + 1]
        /\ UNCHANGED <<rows, told>>
     \/ /\ call[c].at = "answering"
        /\ rows' = [rows EXCEPT ![m] = @ \cup {"agent"}]
        /\ UNCHANGED <<turns, told>>
     \/ /\ call[c].at = "replying"
        /\ told' = [told EXCEPT ![m] = @ \cup {call[c].reply}]
        /\ UNCHANGED <<rows, turns>>
  /\ UNCHANGED <<settings, dedup>>

\* Redis raises on the way in (the lease claimed all the same, or not) or on
\* the way out (released, or not): the call fails and a lease may be left.
LeaseRaises(c) ==
  /\ Fault
  /\ settings.lock = "redis"
  /\ \/ call[c].at = "locking" /\ (UNCHANGED lockVars \/ LeaseClaim(Stray))
     \/ call[c].at = "leaving" /\ (LeaseAbandon(c) \/ LeaseRelease(c))
  /\ MovesTo(c, "failing")
  /\ UNCHANGED <<settings, dedup, rows, turns, told>>

OneProcess == settings.dedup = "memory" \/ settings.lock = "local"

\* A process dies with its calls, its lock table and its memory store.
Crash(S) ==
  /\ Fault
  /\ \E c \in S : Active(c)
  /\ OneProcess => S = Calls
  /\ call' = [c \in Calls |-> IF c \in S THEN Free ELSE call[c]]
  /\ dedup' = IF settings.dedup = "memory"
                THEN [m \in Messages |-> "absent"] ELSE dedup
  /\ IF settings.lock = "local" THEN LoseTable ELSE UNCHANGED localVars
  /\ lease' = IF lease \in S THEN Stray ELSE lease
  /\ lapsed' = lapsed \ S
  /\ UNCHANGED <<settings, rows, turns, told>>

-----------------------------------------------------------------------------
(* Specification *)

Step(c) ==
  \/ EnterLocal(c) \/ EnterRedis(c) \/ GiveUpLease(c)
  \/ Open(c) \/ Run(c) \/ StoreAnswer(c) \/ Reply(c) \/ Leave(c)
  \/ MarkCompleted(c) \/ MarkFailed(c)

Next ==
  \/ \E c \in Calls : \E m \in Messages : Deliver(c, m)
  \/ \E c \in Calls : Step(c) \/ Raise(c) \/ LeaseRaises(c) \/ MarkRaises(c)
  \/ \E m \in Messages : Expire(m) \/ StartRaises(m)
  \/ LeaseEnds
  \/ \E S \in SUBSET Calls : Crash(S)

Spec == Init /\ [][Next]_vars

\* A call that was started goes on by itself.
FairSpec == Spec /\ \A c \in Calls : WF_vars(Step(c))

-----------------------------------------------------------------------------
(* Properties *)

\* However often a message is delivered, and whatever failed, expired or died
\* in between: the assistant works on it at most once, because its row in the
\* conversation outlives the dedup record (docs/handoff-task04.md:37).
AgentRunsAtMostOnce == \A m \in Messages : turns[m] <= 1

\* No two calls work on one event at a time, not even when Redis lost the
\* answer to a mark or forgot an old record.
OneCallPerEvent ==
  \A c, d \in Calls : Active(c) /\ Active(d) /\ c # d => call[c].msg # call[d].msg

\* An event is closed only after the user was told something about it: what is
\* not answered stays open to Feishu's retries.
CompletedWasTold == \A m \in Messages : dedup[m] = "completed" => told[m] # {}

\* With the lease two turns overlap only when one has outlived its lease: a
\* late release never takes away the lease of the turn that came after it.
LeaseKeepsTurnsApart ==
  settings.lock = "redis" =>
     \A c, d \in Calls : Inside(c) /\ Inside(d) /\ c # d => c \in lapsed \/ d \in lapsed

\* The table forgets a user nobody works for.
IdleLocksRemoved ==
  (\A c \in Calls : ~Inside(c) /\ call[c].at # "waiting") => table = None

\* Every call ends: no waiter is forgotten by the lock it waits for, however
\* the calls before it ended.
CallsEnd == \A c \in Calls : Active(c) ~> ~Active(c)

\* docs/agent-architecture.md:20 says of the local manager that messages are
\* "serialized": a user's turns do not overlap.
LocalTurnsAreSerial ==
  settings.lock = "local" => \A c, d \in Calls : Inside(c) /\ Inside(d) => c = d

\* service.py:93 answers a duplicate without a stored reply that "the message
\* is being processed": some other call has it.
ProcessingMeansProcessing ==
  \A c \in Calls :
     call[c].at = "replying" /\ call[c].reply = "processing" =>
        \E d \in Calls : d # c /\ Inside(d) /\ call[d].msg = call[c].msg
=============================================================================
