------------------------ MODULE NotificationDelivery ------------------------
(***************************************************************************)
(* From the outbox to Feishu: the backend's dispatch transactions          *)
(* (backend/app/services/notifications.py, repositories/notifications.py,  *)
(* workers/notifications.py), the HTTP call to the agent's notification    *)
(* gateway (integrations/notification_sender.py) and the gateway with its  *)
(* delivery record in Redis (application/notifications/gateway_service.py, *)
(* adapters/persistence/redis_stores.py).                                  *)
(*                                                                         *)
(* A dispatch transaction locks its rows, calls the gateway once per row,  *)
(* and commits all results together.  The caller may stop waiting while    *)
(* the gateway works on: a call outlives the transaction that made it.     *)
(***************************************************************************)
EXTENDS Integers, FiniteSets

CONSTANTS
    Notifications,   \* outbox rows, numbered in the order they were created
    Workers,         \* dispatch transactions that can be open at once
    Calls,           \* gateway calls that can be running at once
    BatchSize,       \* notification_worker_batch_size
    MaxRetries,      \* notification_max_retries
    MaxFaults,       \* bound on crashes, timeouts and lost answers
    MaxResends,      \* bound on administrators' resends
    None

ASSUME DeliveryAssumption ==
  /\ Notifications \subseteq Nat
  /\ BatchSize \in Nat \ {0}
  /\ MaxRetries \in Nat \ {0}
  /\ MaxFaults \in Nat
  /\ MaxResends \in Nat
  /\ None \notin Workers

\* A row of notification_outbox; retry tells where next_retry_at lies.
OutboxRow == [status : {"PENDING", "SENT", "FAILED"}, retries : Nat,
              retry : {"none", "future", "past"}]

\* A running deliver(): requested before the record is looked up, sending while
\* the channel is called, then taken or refused until the outcome is recorded.
Call == [n : Notifications, worker : Workers \cup {None},
         phase : {"requested", "sending", "taken", "refused"}]

RecordStates == {"absent", "started", "failed", "succeeded"}

ASSUME NoneAssumption == None \notin OutboxRow /\ None \notin Call

VARIABLES
    outbox,     \* the committed rows
    claimed,    \* the rows each dispatch transaction holds locked
    staged,     \* the results each has written and not committed
    call,       \* the running gateway calls
    record,     \* the state of each notification's delivery record
    accepted,   \* messages the channel has taken for each notification
    lost,       \* how often the gateway forgot that it may have sent one
    faults,
    resends

vars == <<outbox, claimed, staged, call, record, accepted, lost, faults, resends>>

Running == {c \in Calls : call[c] # None}

\* The calls between try_start and the mark of their outcome.
Delivering == {c \in Running : call[c].phase # "requested"}

Nothing == [n \in Notifications |-> None]

Init ==
  /\ outbox = [n \in Notifications |-> [status |-> "PENDING", retries |-> 0, retry |-> "none"]]
  /\ claimed = [w \in Workers |-> {}]
  /\ staged = [w \in Workers |-> Nothing]
  /\ call = [c \in Calls |-> None]
  /\ record = [n \in Notifications |-> "absent"]
  /\ accepted = [n \in Notifications |-> 0]
  /\ lost = [n \in Notifications |-> 0]
  /\ faults = 0
  /\ resends = 0

\* A crash, a timeout, a lost answer: as often as the budget allows.
Fault == faults < MaxFaults /\ faults' = faults + 1

-----------------------------------------------------------------------------
(* The dispatch transactions *)

\* A bug: the query looks at next_retry_at and forgets what was sent.
EligibleUnlessWaiting(row) ==
  /\ row.retries < MaxRetries
  /\ row.status = "FAILED" => row.retry = "past"

Eligible(row) ==
  /\ row.retries < MaxRetries
  /\ row.status = "PENDING" \/ (row.status = "FAILED" /\ row.retry = "past")

\* A bug: the rows are read without FOR UPDATE.
NeverLocked(n) == FALSE

Locked(n) == \E w \in Workers : n \in claimed[w]

FirstOf(S, k) == {n \in S : Cardinality({m \in S : m < n}) < k}

Due == {n \in Notifications : Eligible(outbox[n]) /\ ~Locked(n)}

\* claim_due: SELECT ... LIMIT batch_size FOR UPDATE SKIP LOCKED
Claim(w) ==
  /\ claimed[w] = {}
  /\ Due # {}
  /\ claimed' = [claimed EXCEPT ![w] = FirstOf(Due, BatchSize)]
  /\ UNCHANGED <<outbox, staged, call, record, accepted, lost, faults, resends>>

\* dispatch_one_as_admin waits for the lock and then looks at the status
DispatchOne(w, n) ==
  /\ claimed[w] = {}
  /\ ~Locked(n)
  /\ outbox[n].status = "PENDING"
  /\ claimed' = [claimed EXCEPT ![w] = {n}]
  /\ UNCHANGED <<outbox, staged, call, record, accepted, lost, faults, resends>>

Sent(row) == [status |-> "SENT", retries |-> row.retries, retry |-> "none"]

\* A bug: > for >= in the test that the retries are exhausted.
FailedOneTooMany(row) ==
  [status |-> "FAILED", retries |-> row.retries + 1,
   retry |-> IF row.retries + 1 > MaxRetries THEN "none" ELSE "future"]

Failed(row) ==
  [status |-> "FAILED", retries |-> row.retries + 1,
   retry |-> IF row.retries + 1 >= MaxRetries THEN "none" ELSE "future"]

Result(n, ok) == IF ok THEN Sent(outbox[n]) ELSE Failed(outbox[n])

Waiting(w) == \E c \in Running : call[c].worker = w

\* The rows of w's batch that have no result yet.
Todo(w) == {n \in claimed[w] : staged[w][n] = None}

\* HttpNotificationSender.send: the request reaches the gateway
Send(w, c) ==
  /\ ~Waiting(w)
  /\ call[c] = None
  /\ \E n \in FirstOf(Todo(w), 1) :
       call' = [call EXCEPT ![c] = [n |-> n, worker |-> w, phase |-> "requested"]]
  /\ UNCHANGED <<outbox, claimed, staged, record, accepted, lost, faults, resends>>

\* The gateway cannot be reached or answers an error of its own.
SendFails(w) ==
  /\ Fault
  /\ ~Waiting(w)
  /\ \E n \in FirstOf(Todo(w), 1) : staged' = [staged EXCEPT ![w][n] = Result(n, FALSE)]
  /\ UNCHANGED <<outbox, claimed, call, record, accepted, lost, resends>>

\* notification_request_timeout_seconds: the worker gives up, the call runs on.
Timeout(w) ==
  /\ Fault
  /\ \E c \in Running :
       /\ call[c].worker = w
       /\ staged' = [staged EXCEPT ![w][call[c].n] = Result(call[c].n, FALSE)]
       /\ call' = [call EXCEPT ![c].worker = None]
  /\ UNCHANGED <<outbox, claimed, record, accepted, lost, resends>>

\* The end of dispatch_due: every row of the batch has its result.
Commit(w) ==
  /\ claimed[w] # {}
  /\ Todo(w) = {}
  /\ outbox' = [n \in Notifications |-> IF n \in claimed[w] THEN staged[w][n] ELSE outbox[n]]
  /\ claimed' = [claimed EXCEPT ![w] = {}]
  /\ staged' = [staged EXCEPT ![w] = Nothing]
  /\ UNCHANGED <<call, record, accepted, lost, faults, resends>>

\* The worker dies in its batch: the transaction rolls back, its call runs on.
WorkerCrash(w) ==
  /\ Fault
  /\ claimed[w] # {}
  /\ claimed' = [claimed EXCEPT ![w] = {}]
  /\ staged' = [staged EXCEPT ![w] = Nothing]
  /\ call' = [c \in Calls |->
       IF c \in Running /\ call[c].worker = w THEN [call[c] EXCEPT !.worker = None] ELSE call[c]]
  /\ UNCHANGED <<outbox, record, accepted, lost, resends>>

RetryTimeArrives(n) ==
  /\ outbox[n].retry = "future"
  /\ outbox' = [outbox EXCEPT ![n].retry = "past"]
  /\ UNCHANGED <<claimed, staged, call, record, accepted, lost, faults, resends>>

\* resend, by an administrator, with a token of its own
Resend(n) ==
  /\ resends < MaxResends
  /\ resends' = resends + 1
  /\ ~Locked(n)
  /\ outbox[n].status = "FAILED"
  /\ outbox' = [outbox EXCEPT ![n] = [status |-> "PENDING", retries |-> 0, retry |-> "none"]]
  /\ UNCHANGED <<claimed, staged, call, record, accepted, lost, faults>>

-----------------------------------------------------------------------------
(* The gateway *)

\* A bug: any response counts as success (no raise_for_status).
AnswerTaken(c, ok) ==
  LET n == call[c].n
      w == call[c].worker
  IN
  /\ call' = [call EXCEPT ![c] = None]
  /\ staged' = IF w = None THEN staged ELSE [staged EXCEPT ![w][n] = Result(n, TRUE)]

\* The call ends: 2xx or an error status, for the worker that still waits.
Answer(c, ok) ==
  LET n == call[c].n
      w == call[c].worker
  IN
  /\ call' = [call EXCEPT ![c] = None]
  /\ staged' = IF w = None THEN staged ELSE [staged EXCEPT ![w][n] = Result(n, ok)]

\* Two bugs: a delivery in progress is retried, or one that succeeded.
MayStartInProgress(state) == state \in {"absent", "failed", "started"}

MayStartAgain(state) == state \in {"absent", "failed", "succeeded"}

\* STARTED and RETRY_ALLOWED
MayStart(state) == state \in {"absent", "failed"}

\* try_start, one script in Redis: STARTED or RETRY_ALLOWED, ALREADY_SUCCEEDED,
\* IN_PROGRESS.  CONFLICT cannot be: key, id and payload of a row never change.
TryStart(c) ==
  /\ c \in Running
  /\ call[c].phase = "requested"
  /\ \/ /\ MayStart(record[call[c].n])
        /\ record' = [record EXCEPT ![call[c].n] = "started"]
        /\ call' = [call EXCEPT ![c].phase = "sending"]
        /\ UNCHANGED staged
     \/ /\ record[call[c].n] = "succeeded"
        /\ Answer(c, TRUE)
        /\ UNCHANGED record
     \/ /\ record[call[c].n] = "started"
        /\ Answer(c, FALSE)
        /\ UNCHANGED record
  /\ UNCHANGED <<outbox, claimed, accepted, lost, faults, resends>>

\* The channel takes the message, or refuses it (or rendering fails before).
Channel(c) ==
  /\ c \in Running
  /\ call[c].phase = "sending"
  /\ \/ /\ call' = [call EXCEPT ![c].phase = "taken"]
        /\ accepted' = [accepted EXCEPT ![call[c].n] = @ + 1]
     \/ /\ call' = [call EXCEPT ![c].phase = "refused"]
        /\ UNCHANGED accepted
  /\ UNCHANGED <<outbox, claimed, staged, record, lost, faults, resends>>

\* The channel takes the message and its answer is lost: an exception here.
ChannelTimeout(c) ==
  /\ Fault
  /\ c \in Running
  /\ call[c].phase = "sending"
  /\ call' = [call EXCEPT ![c].phase = "refused"]
  /\ accepted' = [accepted EXCEPT ![call[c].n] = @ + 1]
  /\ lost' = [lost EXCEPT ![call[c].n] = @ + 1]
  /\ UNCHANGED <<outbox, claimed, staged, record, resends>>

\* mark_succeeded, mark_failed
Mark(c) ==
  /\ c \in Running
  /\ \/ /\ call[c].phase = "taken"
        /\ record' = [record EXCEPT ![call[c].n] = "succeeded"]
        /\ Answer(c, TRUE)
     \/ /\ call[c].phase = "refused"
        /\ record' = [record EXCEPT ![call[c].n] = "failed"]
        /\ Answer(c, FALSE)
  /\ UNCHANGED <<outbox, claimed, accepted, lost, faults, resends>>

\* The record once Redis has run the script of try_start or of a mark.
Recorded(c) ==
  LET state == record[call[c].n] IN
  CASE call[c].phase = "requested" -> IF MayStart(state) THEN "started" ELSE state
    [] call[c].phase = "taken"     -> "succeeded"
    [] call[c].phase = "refused"   -> "failed"

\* Redis does not answer try_start or a mark, having run its script or not: the
\* exception becomes an error status.
StoreFails(c) ==
  /\ Fault
  /\ c \in Running
  /\ call[c].phase # "sending"
  /\ record' \in {record, [record EXCEPT ![call[c].n] = Recorded(c)]}
  /\ Answer(c, FALSE)
  /\ UNCHANGED <<outbox, claimed, accepted, lost, resends>>

\* The gateway process dies: its calls end, those who wait see an error.
GatewayCrash ==
  /\ Fault
  /\ Running # {}
  /\ call' = [c \in Calls |-> None]
  /\ staged' = [w \in Workers |-> [n \in Notifications |->
       IF \E c \in Running : call[c].n = n /\ call[c].worker = w
       THEN Result(n, FALSE) ELSE staged[w][n]]]
  /\ UNCHANGED <<outbox, claimed, record, accepted, lost, resends>>

\* The record's time to live ends, days after its last change.
Expire(n) ==
  /\ Fault
  /\ record[n] # "absent"
  /\ \A c \in Delivering : call[c].n # n
  /\ record' = [record EXCEPT ![n] = "absent"]
  /\ lost' = [lost EXCEPT ![n] = @ + 1]
  /\ UNCHANGED <<outbox, claimed, staged, call, accepted, resends>>

-----------------------------------------------------------------------------
Dispatch(w) ==
  \/ Claim(w) \/ Commit(w)
  \/ \E n \in Notifications : DispatchOne(w, n)
  \/ \E c \in Calls : Send(w, c)
  \/ SendFails(w) \/ Timeout(w) \/ WorkerCrash(w)

Deliver(c) == TryStart(c) \/ Channel(c) \/ Mark(c)

Next ==
  \/ \E w \in Workers : Dispatch(w)
  \/ \E c \in Calls : Deliver(c) \/ ChannelTimeout(c) \/ StoreFails(c)
  \/ \E n \in Notifications : RetryTimeArrives(n) \/ Resend(n) \/ Expire(n)
  \/ GatewayCrash

\* The dispatcher is run again and again, a call in the gateway goes on by
\* itself, and time passes.  Nothing is assumed of faults or administrators.
Fairness ==
  /\ \A w \in Workers : WF_vars(Claim(w)) /\ WF_vars(Commit(w))
  /\ \A w \in Workers : WF_vars(\E c \in Calls : Send(w, c))
  /\ \A c \in Calls : WF_vars(Deliver(c))
  /\ \A n \in Notifications : WF_vars(RetryTimeArrives(n))

Spec == Init /\ [][Next]_vars

FairSpec == Spec /\ Fairness

-----------------------------------------------------------------------------
(* Properties *)

\* Every variable has its type.
TypeOK ==
  /\ outbox \in [Notifications -> OutboxRow]
  /\ claimed \in [Workers -> SUBSET Notifications]
  /\ staged \in [Workers -> [Notifications -> OutboxRow \cup {None}]]
  /\ call \in [Calls -> Call \cup {None}]
  /\ record \in [Notifications -> RecordStates]
  /\ accepted \in [Notifications -> Nat]
  /\ lost \in [Notifications -> Nat]
  /\ faults \in Nat
  /\ resends \in Nat

\* Two calls are never in the channel for the same notification, although
\* workers time out and repeat themselves while a call runs on (try_start).
OneDelivery ==
  \A c, d \in Delivering : call[c].n = call[d].n => c = d

\* What is booked as sent was taken by the channel: no answer of the gateway,
\* whoever's call it belongs to, makes a worker book a message nobody got.
SentMeansAccepted ==
  \A n \in Notifications :
    outbox[n].status = "SENT" => accepted[n] >= 1

\* A person is written to twice only when the gateway could not know: each
\* further message is paid for by an answer lost or a record expired.
DuplicatesExplained ==
  \A n \in Notifications : accepted[n] <= 1 + lost[n]

\* The retry budget: a row waits for a retry only while it has one left, and
\* only a row whose budget is spent is given up.
RetriesWithinBudget ==
  \A n \in Notifications :
    /\ outbox[n].retries <= MaxRetries
    /\ outbox[n].status = "FAILED" => (outbox[n].retry = "none" <=> outbox[n].retries = MaxRetries)
    /\ outbox[n].status # "FAILED" => outbox[n].retry = "none"

\* A row books the outcome of one attempt at a time: what was sent stays sent,
\* and a failed attempt costs exactly one retry (FOR UPDATE SKIP LOCKED).
OneAttemptAtATime ==
  [][\A n \in Notifications :
       /\ outbox[n].status = "SENT" => outbox'[n] = outbox[n]
       /\ outbox'[n].retries \in {0, outbox[n].retries, outbox[n].retries + 1}]_vars

GivenUp(row) == row.status = "FAILED" /\ row.retry = "none"

\* The promise made to the receivers, kept by the delivery.
Promise == INSTANCE NotificationPromise WITH
  outcome <- [n \in Notifications |->
                IF outbox[n].status = "SENT" THEN "sent"
                ELSE IF GivenUp(outbox[n]) THEN "given_up" ELSE "queued"],
  told <- [n \in Notifications |-> accepted[n] > 0]

KeepsPromise == Promise!PromiseSpec

\* No notification is left in the queue: each is sent, or given up for an
\* administrator to see, whatever crashed or timed out on the way.
EveryNotificationSettles ==
  \A n \in Notifications :
    []<>(outbox[n].status = "SENT" \/ GivenUp(outbox[n]))

\* What CODEX_PROJECT_SPEC.md asks of the gateway: repeated deliveries of one
\* dedup_key send one message.
SentOnce == \A n \in Notifications : accepted[n] <= 1

=============================================================================
