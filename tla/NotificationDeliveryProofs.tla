--------------------- MODULE NotificationDeliveryProofs ---------------------
(***************************************************************************)
(* What the delivery guarantees for any number of rows, workers and calls, *)
(* any batch size, retry budget and number of faults: first the gateway's  *)
(* side, then the row locks at work, by which a row has one holder who     *)
(* books one outcome of an eligible row, and the promise it keeps.         *)
(***************************************************************************)
EXTENDS NotificationDelivery, TLAPS

LEMMA RowTyped ==
  ASSUME NEW row \in OutboxRow
  PROVE  Sent(row) \in OutboxRow /\ Failed(row) \in OutboxRow
BY DEF OutboxRow, Sent, Failed

LEMMA ResultTyped ==
  ASSUME TypeOK, NEW n \in Notifications, NEW ok
  PROVE  Result(n, ok) \in OutboxRow
BY RowTyped DEF TypeOK, Result

LEMMA CallTyped ==
  ASSUME TypeOK, NEW c \in Running
  PROVE  /\ c \in Calls /\ call[c] \in Call
         /\ call[c].n \in Notifications /\ call[c].worker \in Workers \cup {None}
         /\ call[c].phase \in {"requested", "sending", "taken", "refused"}
BY DEF TypeOK, Running, Call

LEMMA StageTyped ==
  ASSUME TypeOK, NEW w \in Workers, NEW n \in Notifications, NEW row \in OutboxRow
  PROVE  [staged EXCEPT ![w][n] = row] \in [Workers -> [Notifications -> OutboxRow \cup {None}]]
<1>1. staged[w] \in [Notifications -> OutboxRow \cup {None}]
  BY DEF TypeOK
<1>2. [staged[w] EXCEPT ![n] = row] \in [Notifications -> OutboxRow \cup {None}]
  BY <1>1
<1>3. QED BY <1>2 DEF TypeOK

LEMMA NothingTyped == Nothing \in [Notifications -> OutboxRow \cup {None}]
BY DEF Nothing

LEMMA AnswerTyped ==
  ASSUME TypeOK, NEW c \in Running, NEW ok, Answer(c, ok)
  PROVE  /\ call' \in [Calls -> Call \cup {None}]
         /\ staged' \in [Workers -> [Notifications -> OutboxRow \cup {None}]]
<1>1. call' \in [Calls -> Call \cup {None}]
  BY CallTyped DEF Answer, TypeOK
<1>2. CASE call[c].worker = None
  BY <1>1, <1>2 DEF Answer, TypeOK
<1>3. CASE call[c].worker # None
  <2>1. call[c].worker \in Workers /\ call[c].n \in Notifications
    BY <1>3, CallTyped
  <2>2. Result(call[c].n, ok) \in OutboxRow
    BY <2>1, ResultTyped
  <2>3. QED BY <1>1, <1>3, <2>1, <2>2, StageTyped DEF Answer
<1>4. QED BY <1>2, <1>3

LEMMA PhaseTyped ==
  ASSUME TypeOK, NEW c \in Running, NEW p \in {"requested", "sending", "taken", "refused"}
  PROVE  [call EXCEPT ![c].phase = p] \in [Calls -> Call \cup {None}]
<1>1. [call[c] EXCEPT !.phase = p] \in Call
  BY CallTyped DEF Call
<1>2. QED BY <1>1, CallTyped DEF TypeOK

LEMMA DetachTyped ==
  ASSUME TypeOK, NEW c \in Running
  PROVE  [call[c] EXCEPT !.worker = None] \in Call
BY CallTyped DEF Call

LEMMA FaultTyped == TypeOK /\ Fault => faults' \in Nat
BY DEF TypeOK, Fault

LEMMA CountTyped ==
  ASSUME NEW f \in [Notifications -> Nat], NEW n \in Notifications
  PROVE  [f EXCEPT ![n] = @ + 1] \in [Notifications -> Nat]
OBVIOUS

LEMMA InitTyped == Init => TypeOK
BY NothingTyped DEF Init, TypeOK, OutboxRow, RecordStates, Nothing

-----------------------------------------------------------------------------
(* Type correctness *)

LEMMA DispatchTyped ==
  ASSUME TypeOK, NEW w \in Workers, Dispatch(w)
  PROVE  TypeOK'
<1>1. CASE Claim(w)
  BY <1>1 DEF Claim, TypeOK, FirstOf, Due
<1>2. CASE Commit(w)
  <2>1. \A n \in claimed[w] : staged[w][n] \in OutboxRow
    BY <1>2 DEF Commit, Todo, TypeOK
  <2>2. outbox' \in [Notifications -> OutboxRow]
    BY <1>2, <2>1 DEF Commit, TypeOK
  <2>3. staged' \in [Workers -> [Notifications -> OutboxRow \cup {None}]]
    BY <1>2, NothingTyped DEF Commit, TypeOK
  <2>4. QED BY <1>2, <2>2, <2>3 DEF Commit, TypeOK
<1>3. ASSUME NEW n \in Notifications, DispatchOne(w, n) PROVE TypeOK'
  BY <1>3 DEF DispatchOne, TypeOK
<1>4. ASSUME NEW c \in Calls, Send(w, c) PROVE TypeOK'
  <2>1. PICK n \in FirstOf(Todo(w), 1) :
          call' = [call EXCEPT ![c] = [n |-> n, worker |-> w, phase |-> "requested"]]
    BY <1>4 DEF Send
  <2>2. n \in Notifications
    BY DEF FirstOf, Todo, TypeOK
  <2>3. [n |-> n, worker |-> w, phase |-> "requested"] \in Call
    BY <2>2 DEF Call
  <2>4. QED BY <1>4, <2>1, <2>3 DEF Send, TypeOK
<1>5. CASE SendFails(w)
  <2>1. PICK n \in FirstOf(Todo(w), 1) : staged' = [staged EXCEPT ![w][n] = Result(n, FALSE)]
    BY <1>5 DEF SendFails
  <2>2. n \in Notifications
    BY DEF FirstOf, Todo, TypeOK
  <2>3. staged' \in [Workers -> [Notifications -> OutboxRow \cup {None}]]
    BY <2>1, <2>2, ResultTyped, StageTyped
  <2>4. QED BY <1>5, <2>3, FaultTyped DEF SendFails, TypeOK
<1>6. CASE Timeout(w)
  <2>1. PICK c \in Running :
          /\ call[c].worker = w
          /\ staged' = [staged EXCEPT ![w][call[c].n] = Result(call[c].n, FALSE)]
          /\ call' = [call EXCEPT ![c].worker = None]
    BY <1>6 DEF Timeout
  <2>2. staged' \in [Workers -> [Notifications -> OutboxRow \cup {None}]]
    BY <2>1, CallTyped, ResultTyped, StageTyped
  <2>3. call' \in [Calls -> Call \cup {None}]
    BY <2>1, CallTyped, DetachTyped DEF TypeOK
  <2>4. QED BY <1>6, <2>2, <2>3, FaultTyped DEF Timeout, TypeOK
<1>7. CASE WorkerCrash(w)
  <2>1. staged' \in [Workers -> [Notifications -> OutboxRow \cup {None}]]
    BY <1>7, NothingTyped DEF WorkerCrash, TypeOK
  <2>2. call' \in [Calls -> Call \cup {None}]
    BY <1>7, DetachTyped DEF WorkerCrash, TypeOK
  <2>3. QED BY <1>7, <2>1, <2>2, FaultTyped DEF WorkerCrash, TypeOK
<1>8. QED BY <1>1, <1>2, <1>3, <1>4, <1>5, <1>6, <1>7 DEF Dispatch

LEMMA GatewayTyped ==
  ASSUME TypeOK, NEW c \in Calls, Deliver(c) \/ ChannelTimeout(c) \/ StoreFails(c)
  PROVE  TypeOK'
<1>1. c \in Running
  BY DEF Deliver, TryStart, Channel, Mark, ChannelTimeout, StoreFails
<1>2. CASE TryStart(c)
  <2>1. record' \in [Notifications -> RecordStates]
    BY <1>2, <1>1, CallTyped DEF TryStart, TypeOK, RecordStates
  <2>2. call' \in [Calls -> Call \cup {None}]
        /\ staged' \in [Workers -> [Notifications -> OutboxRow \cup {None}]]
    <3>1. CASE call' = [call EXCEPT ![c].phase = "sending"] /\ staged' = staged
      BY <3>1, <1>1, PhaseTyped DEF TypeOK
    <3>2. CASE Answer(c, TRUE) \/ Answer(c, FALSE)
      BY <3>2, <1>1, AnswerTyped
    <3>3. QED BY <1>2, <3>1, <3>2 DEF TryStart
  <2>3. QED BY <1>2, <2>1, <2>2 DEF TryStart, TypeOK
<1>3. CASE Channel(c)
  <2>1. call' \in [Calls -> Call \cup {None}]
    BY <1>3, <1>1, PhaseTyped DEF Channel
  <2>2. accepted' \in [Notifications -> Nat]
    BY <1>3, <1>1, CallTyped, CountTyped DEF Channel, TypeOK
  <2>3. QED BY <1>3, <2>1, <2>2 DEF Channel, TypeOK
<1>4. CASE Mark(c)
  <2>1. record' \in [Notifications -> RecordStates]
    BY <1>4, <1>1, CallTyped DEF Mark, TypeOK, RecordStates
  <2>2. QED BY <1>4, <1>1, <2>1, AnswerTyped DEF Mark, TypeOK
<1>5. CASE ChannelTimeout(c)
  <2>1. call' \in [Calls -> Call \cup {None}]
    BY <1>5, <1>1, PhaseTyped DEF ChannelTimeout
  <2>2. accepted' \in [Notifications -> Nat] /\ lost' \in [Notifications -> Nat]
    BY <1>5, <1>1, CallTyped, CountTyped DEF ChannelTimeout, TypeOK
  <2>3. QED BY <1>5, <2>1, <2>2, FaultTyped DEF ChannelTimeout, TypeOK
<1>6. CASE StoreFails(c)
  <2>1. Recorded(c) \in RecordStates
    BY <1>6, <1>1, CallTyped DEF StoreFails, Recorded, TypeOK, RecordStates
  <2>2. record' \in [Notifications -> RecordStates]
    BY <1>6, <1>1, <2>1, CallTyped DEF StoreFails, TypeOK
  <2>3. call' \in [Calls -> Call \cup {None}]
        /\ staged' \in [Workers -> [Notifications -> OutboxRow \cup {None}]]
    BY <1>6, <1>1, AnswerTyped DEF StoreFails
  <2>4. QED BY <1>6, <2>2, <2>3, FaultTyped DEF StoreFails, TypeOK
<1>7. QED BY <1>2, <1>3, <1>4, <1>5, <1>6 DEF Deliver

LEMMA RowActionsTyped ==
  ASSUME TypeOK, NEW n \in Notifications, RetryTimeArrives(n) \/ Resend(n) \/ Expire(n)
  PROVE  TypeOK'
<1>1. CASE RetryTimeArrives(n)
  <2>1. [outbox[n] EXCEPT !.retry = "past"] \in OutboxRow
    BY DEF TypeOK, OutboxRow
  <2>2. QED BY <1>1, <2>1 DEF RetryTimeArrives, TypeOK
<1>2. CASE Resend(n)
  <2>1. [status |-> "PENDING", retries |-> 0, retry |-> "none"] \in OutboxRow
    BY DEF OutboxRow
  <2>2. QED BY <1>2, <2>1 DEF Resend, TypeOK
<1>3. CASE Expire(n)
  <2>1. lost' \in [Notifications -> Nat]
    BY <1>3, CountTyped DEF Expire, TypeOK
  <2>2. QED BY <1>3, <2>1, FaultTyped DEF Expire, TypeOK, RecordStates
<1>4. QED BY <1>1, <1>2, <1>3

LEMMA GatewayCrashTyped ==
  ASSUME TypeOK, GatewayCrash
  PROVE  TypeOK'
<1>1. \A n \in Notifications : Result(n, FALSE) \in OutboxRow
  BY ResultTyped
<1>2. staged' \in [Workers -> [Notifications -> OutboxRow \cup {None}]]
  BY <1>1 DEF GatewayCrash, TypeOK
<1>3. call' \in [Calls -> Call \cup {None}]
  BY DEF GatewayCrash
<1>4. QED BY <1>2, <1>3, FaultTyped DEF GatewayCrash, TypeOK

LEMMA NextTyped == TypeOK /\ [Next]_vars => TypeOK'
BY DispatchTyped, GatewayTyped, RowActionsTyped, GatewayCrashTyped
   DEF Next, vars, TypeOK

\* The variables keep their types through every dispatch, call, crash and resend.
THEOREM DeliveryTyped == Spec => []TypeOK
<1>1. QED BY InitTyped, NextTyped, PTL DEF Spec

-----------------------------------------------------------------------------
(* One delivery at a time, and duplicates only for what was forgotten *)

\* What the delivery record remembers: while a retry may start nobody was told
\* more often than an answer was lost, a success was taken by the channel, and
\* a call in the channel keeps every other one out.
Remembered ==
  /\ \A n \in Notifications :
       /\ record[n] \in {"absent", "failed"} => accepted[n] <= lost[n]
       /\ record[n] = "succeeded" => accepted[n] >= 1
  /\ \A c \in Delivering :
       /\ record[call[c].n] = "started"
       /\ call[c].phase = "taken" => accepted[call[c].n] >= 1
       /\ call[c].phase # "taken" => accepted[call[c].n] <= lost[call[c].n]

GatewayInv == TypeOK /\ OneDelivery /\ DuplicatesExplained /\ Remembered

LEMMA GatewayInit == Init => GatewayInv
<1> SUFFICES ASSUME Init PROVE GatewayInv
  OBVIOUS
<1>1. Running = {}
  BY DEF Init, Running
<1>2. QED BY <1>1, InitTyped DEF Init, GatewayInv, OneDelivery, DuplicatesExplained, Remembered, Delivering

\* The steps that start no delivery, end none and change no record.
LEMMA GatewayUndisturbed ==
  ASSUME GatewayInv, TypeOK', UNCHANGED <<record, accepted, lost>>,
         \A c \in Delivering' : c \in Delivering /\ call'[c].n = call[c].n /\ call'[c].phase = call[c].phase
  PROVE  GatewayInv'
BY DEF GatewayInv, OneDelivery, DuplicatesExplained, Remembered

LEMMA DispatchGateway ==
  ASSUME GatewayInv, NEW w \in Workers, Dispatch(w)
  PROVE  GatewayInv'
<1> USE DEF GatewayInv
<1>1. TypeOK'
  BY DispatchTyped
<1>2. UNCHANGED <<record, accepted, lost>>
  BY DEF Dispatch, Claim, Commit, DispatchOne, Send, SendFails, Timeout, WorkerCrash
<1>3. CASE call' = call
  BY <1>1, <1>2, <1>3, GatewayUndisturbed DEF Delivering, Running
<1>4. ASSUME NEW c \in Calls, Send(w, c) PROVE GatewayInv'
  <2>1. PICK n \in Notifications : call' = [call EXCEPT ![c] = [n |-> n, worker |-> w, phase |-> "requested"]]
    BY <1>4 DEF Send, FirstOf, Todo, TypeOK
  <2>2. \A d \in Delivering' : d \in Delivering /\ call'[d].n = call[d].n /\ call'[d].phase = call[d].phase
    BY <2>1 DEF Delivering, Running, TypeOK
  <2>3. QED BY <1>1, <1>2, <2>2, GatewayUndisturbed
<1>5. CASE Timeout(w)
  <2>1. PICK c \in Running : call' = [call EXCEPT ![c].worker = None]
    BY <1>5 DEF Timeout
  <2>2. c \in Calls /\ call[c] \in Call
    BY <2>1, CallTyped
  <2>3. \A d \in Calls \ {c} : call'[d] = call[d]
    BY <2>1 DEF TypeOK
  <2>4. call'[c] = [call[c] EXCEPT !.worker = None]
    BY <2>1, <2>2 DEF TypeOK
  <2>5. call'[c].n = call[c].n /\ call'[c].phase = call[c].phase
    BY <2>2, <2>4 DEF Call
  <2>6. \A d \in Delivering' : d \in Delivering /\ call'[d].n = call[d].n /\ call'[d].phase = call[d].phase
    BY <2>1, <2>3, <2>5 DEF Delivering, Running
  <2>7. QED BY <1>1, <1>2, <2>6, GatewayUndisturbed
<1>6. CASE WorkerCrash(w)
  <2>1. \A d \in Calls : call'[d] = IF d \in Running /\ call[d].worker = w
                                    THEN [call[d] EXCEPT !.worker = None] ELSE call[d]
    BY <1>6 DEF WorkerCrash
  <2>2. \A d \in Running : [call[d] EXCEPT !.worker = None].n = call[d].n
                           /\ [call[d] EXCEPT !.worker = None].phase = call[d].phase
    BY CallTyped DEF Call
  <2>3. \A d \in Delivering' : d \in Delivering /\ call'[d].n = call[d].n /\ call'[d].phase = call[d].phase
    BY <2>1, <2>2 DEF Delivering, Running
  <2>4. QED BY <1>1, <1>2, <2>3, GatewayUndisturbed
<1>7. QED BY <1>3, <1>4, <1>5, <1>6
          DEF Dispatch, Claim, Commit, DispatchOne, SendFails

\* A call that ends leaves the others as they are.
LEMMA AnswerEnds ==
  ASSUME TypeOK, NEW c \in Running, NEW ok, Answer(c, ok)
  PROVE  /\ call'[c] = None
         /\ \A d \in Calls \ {c} : call'[d] = call[d]
         /\ \A d \in Delivering' : d \in Delivering /\ d # c /\ call'[d] = call[d]
BY CallTyped DEF Answer, Delivering, Running, TypeOK

\* A call that moves to another phase keeps its notification.
LEMMA PhaseMoves ==
  ASSUME TypeOK, NEW c \in Running, NEW p, call' = [call EXCEPT ![c].phase = p]
  PROVE  /\ call'[c].n = call[c].n /\ call'[c].phase = p
         /\ \A d \in Calls \ {c} : call'[d] = call[d]
         /\ \A d \in Delivering' : d = c \/ (d \in Delivering /\ call'[d] = call[d])
<1>1. c \in Calls /\ call[c] \in Call
  BY CallTyped
<1>2. call'[c] = [call[c] EXCEPT !.phase = p]
  BY <1>1 DEF TypeOK
<1>3. call'[c].n = call[c].n /\ call'[c].phase = p
  BY <1>1, <1>2 DEF Call
<1>4. \A d \in Calls \ {c} : call'[d] = call[d]
  BY DEF TypeOK
<1>5. QED BY <1>3, <1>4 DEF Delivering, Running

LEMMA TryStartGateway ==
  ASSUME GatewayInv, NEW c \in Calls, TryStart(c)
  PROVE  GatewayInv'
<1> DEFINE n == call[c].n
<1> USE DEF GatewayInv
<1>1. c \in Running /\ c \notin Delivering /\ n \in Notifications
  BY CallTyped DEF TryStart, Delivering
<1>2. TypeOK'
  BY GatewayTyped DEF Deliver
<1>3. UNCHANGED <<accepted, lost>>
  BY DEF TryStart
<1>4. CASE MayStart(record[n])
  <2>1. /\ call' = [call EXCEPT ![c].phase = "sending"] /\ record' = [record EXCEPT ![n] = "started"]
    BY <1>1, <1>4 DEF TryStart, MayStart
  <2>2. \A d \in Delivering : call[d].n # n
    BY <1>1, <1>4 DEF Remembered, MayStart
  <2>3. accepted[n] <= lost[n]
    BY <1>1, <1>4 DEF Remembered, MayStart
  <2>4. /\ call'[c].n = n /\ call'[c].phase = "sending"
        /\ \A d \in Delivering' : d = c \/ (d \in Delivering /\ call'[d] = call[d])
    BY <1>1, <2>1, PhaseMoves
  <2>5. record'[n] = "started" /\ \A m \in Notifications \ {n} : record'[m] = record[m]
    BY <1>1, <2>1 DEF TypeOK
  <2>6. \A d \in Delivering : d \in Running
    BY DEF Delivering
  <2>7. OneDelivery'
    BY <2>2, <2>4 DEF OneDelivery
  <2>8. Remembered'
    BY <1>3, <2>2, <2>3, <2>4, <2>5, <2>6, CallTyped DEF Remembered
  <2>9. QED BY <1>2, <1>3, <2>7, <2>8 DEF DuplicatesExplained
<1>5. CASE record' = record /\ \E ok \in BOOLEAN : Answer(c, ok)
  BY <1>1, <1>2, <1>3, <1>5, AnswerEnds, GatewayUndisturbed
<1>6. QED BY <1>4, <1>5 DEF TryStart

LEMMA ChannelGateway ==
  ASSUME GatewayInv, NEW c \in Calls, Channel(c) \/ ChannelTimeout(c)
  PROVE  GatewayInv'
<1> DEFINE n == call[c].n
<1> USE DEF GatewayInv
<1>1. c \in Delivering /\ c \in Running /\ n \in Notifications /\ call[c].phase = "sending"
  BY CallTyped DEF Channel, ChannelTimeout, Delivering
<1>2. TypeOK'
  BY GatewayTyped DEF Deliver
<1>3. PICK p \in {"taken", "refused"} :
        /\ call' = [call EXCEPT ![c].phase = p]
        /\ p = "taken" => accepted' = [accepted EXCEPT ![n] = @ + 1] /\ lost' = lost
        /\ p = "refused" => \/ accepted' = accepted /\ lost' = lost
                            \/ /\ accepted' = [accepted EXCEPT ![n] = @ + 1]
                               /\ lost' = [lost EXCEPT ![n] = @ + 1]
  BY DEF Channel, ChannelTimeout
<1>4. record' = record
  BY DEF Channel, ChannelTimeout
<1>5. record[n] = "started" /\ accepted[n] <= lost[n]
  BY <1>1 DEF Remembered
<1>6. accepted[n] \in Nat /\ lost[n] \in Nat
  BY <1>1 DEF TypeOK
<1>7. /\ p = "taken" => accepted'[n] = accepted[n] + 1 /\ lost'[n] = lost[n]
      /\ p = "refused" => \/ accepted'[n] = accepted[n] /\ lost'[n] = lost[n]
                          \/ accepted'[n] = accepted[n] + 1 /\ lost'[n] = lost[n] + 1
  BY <1>1, <1>3 DEF TypeOK
<1>8. \A m \in Notifications \ {n} : accepted'[m] = accepted[m] /\ lost'[m] = lost[m]
  BY <1>1, <1>3 DEF TypeOK
<1>9. /\ accepted'[n] <= 1 + lost'[n]
      /\ p = "taken" => accepted'[n] >= 1
      /\ p = "refused" => accepted'[n] <= lost'[n]
  BY <1>5, <1>6, <1>7
<1>10. /\ call'[c].n = n /\ call'[c].phase = p
       /\ \A d \in Delivering' : d = c \/ (d \in Delivering /\ call'[d] = call[d])
  BY <1>1, <1>3, PhaseMoves
<1> HIDE DEF n
<1>11. OneDelivery'
  BY <1>1, <1>10 DEF OneDelivery, n
<1>12. DuplicatesExplained'
  BY <1>8, <1>9 DEF DuplicatesExplained
<1>13. \A d \in Delivering' \ {c} : d \in Delivering /\ call'[d] = call[d]
                                   /\ call[d].n \in Notifications \ {n}
  BY <1>1, <1>10, CallTyped DEF OneDelivery, Delivering, n
<1>14. \A m \in Notifications : record'[m] # "started" => m # n
  BY <1>4, <1>5
<1>15. Remembered'
  <2>1. \A m \in Notifications :
          /\ record'[m] \in {"absent", "failed"} => accepted'[m] <= lost'[m]
          /\ record'[m] = "succeeded" => accepted'[m] >= 1
    BY <1>4, <1>8, <1>14 DEF Remembered
  <2>2. ASSUME NEW d \in Delivering', d # c
        PROVE  /\ record'[call'[d].n] = "started"
               /\ call'[d].phase = "taken" => accepted'[call'[d].n] >= 1
               /\ call'[d].phase # "taken" => accepted'[call'[d].n] <= lost'[call'[d].n]
    BY <1>4, <1>8, <1>13, <2>2 DEF Remembered
  <2>3. /\ record'[call'[c].n] = "started"
        /\ call'[c].phase = "taken" => accepted'[call'[c].n] >= 1
        /\ call'[c].phase # "taken" => accepted'[call'[c].n] <= lost'[call'[c].n]
    BY <1>4, <1>5, <1>9, <1>10
  <2>4. QED BY <2>1, <2>2, <2>3 DEF Remembered
<1>16. QED BY <1>2, <1>11, <1>12, <1>15

\* A call that ends and leaves state r in the record of its notification.
LEMMA EndGateway ==
  ASSUME GatewayInv, TypeOK', NEW c \in Running, NEW ok, Answer(c, ok),
         UNCHANGED <<accepted, lost>>, NEW r, record' = [record EXCEPT ![call[c].n] = r],
         \A d \in Delivering : d # c /\ call[d].n = call[c].n => r = "started",
         r \in {"absent", "failed"} => accepted[call[c].n] <= lost[call[c].n],
         r = "succeeded" => accepted[call[c].n] >= 1
  PROVE  GatewayInv'
<1> DEFINE n == call[c].n
<1>1. n \in Notifications
  BY CallTyped DEF GatewayInv
<1>2. \A d \in Delivering' : d \in Delivering /\ d # c /\ call'[d] = call[d]
  BY AnswerEnds DEF GatewayInv
<1>3. record'[n] = r /\ \A m \in Notifications \ {n} : record'[m] = record[m]
  BY <1>1 DEF GatewayInv, TypeOK
<1>4. \A d \in Delivering : call[d].n \in Notifications
  BY CallTyped DEF Delivering, GatewayInv
<1>5. OneDelivery'
  BY <1>2 DEF GatewayInv, OneDelivery
<1>6. Remembered'
  BY <1>2, <1>3, <1>4 DEF GatewayInv, Remembered
<1>7. QED BY <1>5, <1>6 DEF GatewayInv, DuplicatesExplained

LEMMA MarkGateway ==
  ASSUME GatewayInv, NEW c \in Calls, Mark(c)
  PROVE  GatewayInv'
<1>1. TypeOK /\ TypeOK' /\ UNCHANGED <<accepted, lost>>
  BY GatewayTyped DEF Deliver, GatewayInv, Mark
<1>2. c \in Running /\ c \in Delivering
  BY DEF Mark, Delivering
<1>3. \A d \in Delivering : call[d].n = call[c].n => d = c
  BY <1>2 DEF GatewayInv, OneDelivery
<1>4. CASE call[c].phase = "taken"
  <2>1. accepted[call[c].n] >= 1
    BY <1>2, <1>4 DEF GatewayInv, Remembered
  <2>2. record' = [record EXCEPT ![call[c].n] = "succeeded"] /\ Answer(c, TRUE)
    BY <1>4 DEF Mark
  <2>3. QED BY <1>1, <1>2, <1>3, <2>1, <2>2, EndGateway
<1>5. CASE call[c].phase = "refused"
  <2>1. accepted[call[c].n] <= lost[call[c].n]
    BY <1>2, <1>5 DEF GatewayInv, Remembered
  <2>2. record' = [record EXCEPT ![call[c].n] = "failed"] /\ Answer(c, FALSE)
    BY <1>5 DEF Mark
  <2>3. QED BY <1>1, <1>2, <1>3, <2>1, <2>2, EndGateway
<1>6. QED BY <1>4, <1>5 DEF Mark

LEMMA StoreFailsGateway ==
  ASSUME GatewayInv, NEW c \in Calls, StoreFails(c)
  PROVE  GatewayInv'
<1>1. TypeOK /\ TypeOK' /\ UNCHANGED <<accepted, lost>> /\ Answer(c, FALSE)
  BY GatewayTyped DEF GatewayInv, StoreFails
<1>2. c \in Running /\ call[c].n \in Notifications
  BY <1>1, CallTyped DEF StoreFails
<1>3. CASE record' = record
  BY <1>1, <1>2, <1>3, AnswerEnds, GatewayUndisturbed
<1>4. CASE record' = [record EXCEPT ![call[c].n] = Recorded(c)]
  <2>1. CASE call[c].phase = "requested" /\ MayStart(record[call[c].n])
    <3>1. Recorded(c) = "started"
      BY <2>1 DEF Recorded
    <3>2. QED BY <1>1, <1>2, <1>4, <3>1, EndGateway
  <2>2. CASE call[c].phase = "requested" /\ ~MayStart(record[call[c].n])
    <3>1. record' = record
      BY <1>1, <1>2, <1>4, <2>2 DEF Recorded, TypeOK
    <3>2. QED BY <1>3, <3>1
  <2>3. CASE call[c].phase = "taken"
    <3>1. Recorded(c) = "succeeded" /\ c \in Delivering
      BY <1>2, <2>3 DEF Recorded, Delivering
    <3>2. accepted[call[c].n] >= 1 /\ \A d \in Delivering : call[d].n = call[c].n => d = c
      BY <3>1, <2>3 DEF GatewayInv, Remembered, OneDelivery
    <3>3. QED BY <1>1, <1>2, <1>4, <3>1, <3>2, EndGateway
  <2>4. CASE call[c].phase = "refused"
    <3>1. Recorded(c) = "failed" /\ c \in Delivering
      BY <1>2, <2>4 DEF Recorded, Delivering
    <3>2. accepted[call[c].n] <= lost[call[c].n] /\ \A d \in Delivering : call[d].n = call[c].n => d = c
      BY <3>1, <2>4 DEF GatewayInv, Remembered, OneDelivery
    <3>3. QED BY <1>1, <1>2, <1>4, <3>1, <3>2, EndGateway
  <2>5. QED BY <1>1, <1>2, <2>1, <2>2, <2>3, <2>4, CallTyped DEF StoreFails
<1>5. QED BY <1>3, <1>4 DEF StoreFails

LEMMA RowActionsGateway ==
  ASSUME GatewayInv, NEW n \in Notifications, RetryTimeArrives(n) \/ Resend(n) \/ Expire(n)
  PROVE  GatewayInv'
<1>1. TypeOK /\ TypeOK'
  BY RowActionsTyped DEF GatewayInv
<1>2. CASE RetryTimeArrives(n) \/ Resend(n)
  BY <1>1, <1>2, GatewayUndisturbed DEF RetryTimeArrives, Resend, Delivering, Running
<1>3. CASE Expire(n)
  <2>1. /\ record'[n] = "absent" /\ lost'[n] = lost[n] + 1
        /\ \A m \in Notifications \ {n} : record'[m] = record[m] /\ lost'[m] = lost[m]
        /\ accepted' = accepted /\ call' = call
        /\ \A c \in Delivering : call[c].n # n
    BY <1>1, <1>3 DEF Expire, TypeOK
  <2>2. accepted[n] <= 1 + lost[n] /\ accepted[n] \in Nat /\ lost[n] \in Nat
    BY <1>1 DEF GatewayInv, DuplicatesExplained, TypeOK
  <2>3. accepted'[n] <= lost'[n] /\ accepted'[n] <= 1 + lost'[n]
    BY <2>1, <2>2
  <2>4. Delivering' = Delivering /\ \A c \in Delivering : call[c].n \in Notifications
    BY <1>1, <2>1, CallTyped DEF Delivering, Running
  <2>5. OneDelivery'
    BY <2>1, <2>4 DEF GatewayInv, OneDelivery
  <2>6. DuplicatesExplained'
    BY <2>1, <2>3 DEF GatewayInv, DuplicatesExplained
  <2>7. Remembered'
    BY <2>1, <2>3, <2>4 DEF GatewayInv, Remembered
  <2>8. QED BY <1>1, <2>5, <2>6, <2>7 DEF GatewayInv
<1>4. QED BY <1>2, <1>3

LEMMA GatewayCrashGateway ==
  ASSUME GatewayInv, GatewayCrash
  PROVE  GatewayInv'
<1>1. TypeOK'
  BY GatewayCrashTyped DEF GatewayInv
<1>2. Delivering' = {} /\ UNCHANGED <<record, accepted, lost>>
  BY DEF GatewayCrash, Delivering, Running
<1>3. QED BY <1>1, <1>2, GatewayUndisturbed

LEMMA NextGateway == GatewayInv /\ [Next]_vars => GatewayInv'
<1> SUFFICES ASSUME GatewayInv, [Next]_vars PROVE GatewayInv'
  OBVIOUS
<1>1. CASE UNCHANGED vars
  BY <1>1, NextTyped, GatewayUndisturbed DEF vars, GatewayInv, Delivering, Running
<1>2. CASE Next
  BY <1>2, DispatchGateway, TryStartGateway, ChannelGateway, MarkGateway, StoreFailsGateway,
     RowActionsGateway, GatewayCrashGateway
     DEF Next, Deliver
<1>3. QED BY <1>1, <1>2

\* Whatever times out, crashes or expires, the channel is never called twice at
\* the same time for one notification.
THEOREM DeliveriesDoNotOverlap == Spec => []OneDelivery
<1>1. GatewayInv => OneDelivery
  BY DEF GatewayInv
<1>2. QED BY <1>1, GatewayInit, NextGateway, PTL DEF Spec

\* A receiver gets one message, and one more for each time the gateway lost an
\* answer or a record: retries alone never repeat a message.
THEOREM DuplicatesPaidFor == Spec => []DuplicatesExplained
<1>1. GatewayInv => DuplicatesExplained
  BY DEF GatewayInv
<1>2. QED BY <1>1, GatewayInit, NextGateway, PTL DEF Spec

-----------------------------------------------------------------------------
(* What is booked as sent was taken *)

\* Committed or staged, a row is SENT only for a message the channel took.
BookedWasTaken ==
  /\ SentMeansAccepted
  /\ \A w \in Workers, n \in Notifications :
       staged[w][n] # None /\ staged[w][n].status = "SENT" => accepted[n] >= 1

BookingInv == GatewayInv /\ BookedWasTaken

LEMMA ResultStatus ==
  ASSUME NEW n
  PROVE  Sent(outbox[n]).status = "SENT" /\ Failed(outbox[n]).status = "FAILED"
BY DEF Sent, Failed

\* Results that are staged beside the old ones: failures, or of taken messages.
LEMMA StagedIsBooked ==
  ASSUME BookingInv, TypeOK', outbox' = outbox,
         \A n \in Notifications : accepted'[n] >= accepted[n],
         \A w \in Workers, n \in Notifications :
           \/ staged'[w][n] \in {staged[w][n], None, Failed(outbox[n])}
           \/ accepted'[n] >= 1
  PROVE  BookedWasTaken'
<1>1. \A n \in Notifications : accepted[n] \in Nat /\ accepted'[n] \in Nat
  BY DEF BookingInv, GatewayInv, TypeOK
<1>2. SentMeansAccepted'
  BY <1>1 DEF BookingInv, BookedWasTaken, SentMeansAccepted
<1>3. ASSUME NEW w \in Workers, NEW n \in Notifications, staged'[w][n] # None, staged'[w][n].status = "SENT"
      PROVE  accepted'[n] >= 1
  BY <1>1, <1>3, ResultStatus DEF BookingInv, BookedWasTaken
<1>4. QED BY <1>2, <1>3 DEF BookedWasTaken

\* The answer of a call, when a success is one of a message taken.
LEMMA AnswerIsBooked ==
  ASSUME BookingInv, NEW c \in Running, NEW ok \in BOOLEAN, Answer(c, ok), TypeOK',
         outbox' = outbox, accepted' = accepted, ok => accepted[call[c].n] >= 1
  PROVE  BookedWasTaken'
<1>1. call[c].n \in Notifications
  BY CallTyped DEF BookingInv, GatewayInv
<1>2. CASE call[c].worker = None
  BY <1>2, StagedIsBooked DEF Answer, BookingInv, GatewayInv, TypeOK
<1>3. CASE call[c].worker # None
  <2>1. staged' = [staged EXCEPT ![call[c].worker][call[c].n] = Result(call[c].n, ok)]
    BY <1>3 DEF Answer
  <2>2. \A w \in Workers, n \in Notifications :
          staged'[w][n] = staged[w][n] \/ (n = call[c].n /\ staged'[w][n] = Result(n, ok))
    BY <2>1 DEF BookingInv, GatewayInv, TypeOK
  <2>3. ~ok => Result(call[c].n, ok) = Failed(outbox[call[c].n])
    BY DEF Result
  <2>4. \A n \in Notifications : accepted[n] \in Nat
    BY DEF BookingInv, GatewayInv, TypeOK
  <2>5. QED BY <2>2, <2>3, <2>4, StagedIsBooked
<1>4. QED BY <1>2, <1>3

LEMMA DispatchIsBooked ==
  ASSUME BookingInv, NEW w \in Workers, Dispatch(w)
  PROVE  BookedWasTaken'
<1>1. TypeOK /\ TypeOK'
  BY DispatchTyped DEF BookingInv, GatewayInv
<1>2. accepted' = accepted /\ \A n \in Notifications : accepted[n] \in Nat
  BY <1>1 DEF TypeOK, Dispatch, Claim, Commit, DispatchOne, Send, SendFails, Timeout, WorkerCrash
<1>3. CASE outbox' = outbox /\ staged' = staged
  BY <1>1, <1>2, <1>3, StagedIsBooked
<1>4. ASSUME NEW n \in Notifications, outbox' = outbox,
             staged' = [staged EXCEPT ![w][n] = Result(n, FALSE)]
      PROVE  BookedWasTaken'
  <2>1. \A v \in Workers, m \in Notifications :
          staged'[v][m] \in {staged[v][m], Failed(outbox[m])}
    BY <1>1, <1>4 DEF TypeOK, Result
  <2>2. \A m \in Notifications : accepted'[m] >= accepted[m]
    BY <1>2
  <2>3. QED BY <1>1, <1>4, <2>1, <2>2, StagedIsBooked
<1>5. CASE SendFails(w)
  BY <1>1, <1>4, <1>5 DEF SendFails, FirstOf, Todo, TypeOK
<1>6. CASE Timeout(w)
  BY <1>1, <1>4, <1>6, CallTyped DEF Timeout
<1>7. CASE WorkerCrash(w)
  <2>1. \A v \in Workers, m \in Notifications : staged'[v][m] \in {staged[v][m], None}
    BY <1>1, <1>7 DEF WorkerCrash, Nothing, TypeOK
  <2>2. QED BY <1>1, <1>2, <1>7, <2>1, StagedIsBooked DEF WorkerCrash
<1>8. CASE Commit(w)
  <2>1. \A n \in Notifications :
          outbox'[n] = outbox[n] \/ (outbox'[n] = staged[w][n] /\ staged[w][n] # None)
    BY <1>1, <1>8 DEF Commit, Todo, TypeOK
  <2>2. \A v \in Workers, m \in Notifications : staged'[v][m] \in {staged[v][m], None}
    BY <1>1, <1>8 DEF Commit, Nothing, TypeOK
  <2>3. QED BY <1>2, <2>1, <2>2 DEF BookingInv, BookedWasTaken, SentMeansAccepted
<1>9. QED BY <1>3, <1>5, <1>6, <1>7, <1>8 DEF Dispatch, Claim, DispatchOne, Send

LEMMA DeliverIsBooked ==
  ASSUME BookingInv, NEW c \in Calls, Deliver(c) \/ ChannelTimeout(c) \/ StoreFails(c)
  PROVE  BookedWasTaken'
<1>1. TypeOK /\ TypeOK' /\ c \in Running
  BY GatewayTyped DEF BookingInv, GatewayInv, Deliver, TryStart, Channel, Mark, ChannelTimeout, StoreFails
<1>2. call[c].n \in Notifications /\ \A n \in Notifications : accepted[n] \in Nat
  BY <1>1, CallTyped DEF TypeOK
<1>3. outbox' = outbox
  BY DEF Deliver, TryStart, Channel, Mark, ChannelTimeout, StoreFails
<1>4. CASE TryStart(c)
  <2>1. record[call[c].n] = "succeeded" => accepted[call[c].n] >= 1
    BY <1>2 DEF BookingInv, GatewayInv, Remembered
  <2>2. CASE staged' = staged
    BY <1>1, <1>2, <1>3, <1>4, <2>2, StagedIsBooked DEF TryStart
  <2>3. QED BY <1>1, <1>3, <1>4, <2>1, <2>2, AnswerIsBooked DEF TryStart
<1>5. CASE Channel(c) \/ ChannelTimeout(c)
  <2>1. staged' = staged /\ \A n \in Notifications : accepted'[n] >= accepted[n]
    BY <1>1, <1>2, <1>5 DEF Channel, ChannelTimeout, TypeOK
  <2>2. QED BY <1>1, <1>3, <2>1, StagedIsBooked
<1>6. CASE Mark(c)
  <2>1. call[c].phase = "taken" => accepted[call[c].n] >= 1
    BY <1>1 DEF BookingInv, GatewayInv, Remembered, Delivering
  <2>2. QED BY <1>1, <1>3, <1>6, <2>1, AnswerIsBooked DEF Mark
<1>7. CASE StoreFails(c)
  BY <1>1, <1>3, <1>7, AnswerIsBooked DEF StoreFails
<1>8. QED BY <1>4, <1>5, <1>6, <1>7 DEF Deliver

LEMMA RowActionsAreBooked ==
  ASSUME BookingInv, NEW n \in Notifications, RetryTimeArrives(n) \/ Resend(n) \/ Expire(n)
  PROVE  BookedWasTaken'
<1>1. TypeOK
  BY DEF BookingInv, GatewayInv
<1>2. staged' = staged /\ accepted' = accepted
  BY DEF RetryTimeArrives, Resend, Expire
<1>3. \A m \in Notifications : outbox'[m].status = "SENT" => outbox[m].status = "SENT"
  BY <1>1 DEF RetryTimeArrives, Resend, Expire, TypeOK, OutboxRow
<1>4. QED BY <1>2, <1>3 DEF BookingInv, BookedWasTaken, SentMeansAccepted

LEMMA GatewayCrashIsBooked ==
  ASSUME BookingInv, GatewayCrash
  PROVE  BookedWasTaken'
<1>1. TypeOK /\ TypeOK' /\ outbox' = outbox /\ accepted' = accepted
  BY GatewayCrashTyped DEF BookingInv, GatewayInv, GatewayCrash
<1>2. \A w \in Workers, n \in Notifications : staged'[w][n] \in {staged[w][n], Failed(outbox[n])}
  BY DEF GatewayCrash, Result
<1>3. \A n \in Notifications : accepted'[n] >= accepted[n]
  BY <1>1 DEF TypeOK
<1>4. QED BY <1>1, <1>2, <1>3, StagedIsBooked

LEMMA NextIsBooked == BookingInv /\ [Next]_vars => BookingInv'
<1> SUFFICES ASSUME BookingInv, [Next]_vars PROVE BookingInv'
  OBVIOUS
<1>1. GatewayInv'
  BY NextGateway DEF BookingInv
<1>2. CASE UNCHANGED vars
  BY <1>1, <1>2 DEF vars, BookingInv, BookedWasTaken, SentMeansAccepted
<1>3. CASE Next
  BY <1>1, <1>3, DispatchIsBooked, DeliverIsBooked, RowActionsAreBooked, GatewayCrashIsBooked
     DEF Next, BookingInv
<1>4. QED BY <1>2, <1>3

\* No crash, timeout or late answer makes the outbox book a message as sent that
\* the channel never took.
THEOREM NothingBookedUntaken == Spec => []SentMeansAccepted
<1>1. Init => BookingInv
  BY GatewayInit DEF BookingInv, BookedWasTaken, SentMeansAccepted, Init, Nothing
<1>2. BookingInv => SentMeansAccepted
  BY DEF BookingInv, BookedWasTaken
<1>3. QED BY <1>1, <1>2, NextIsBooked, PTL DEF Spec

-----------------------------------------------------------------------------
(* The row locks, the retry budget and the promise                          *)

\* What a row may look like.
Lawful(row) ==
  /\ row.retries <= MaxRetries
  /\ row.status = "FAILED" => (row.retry = "none" <=> row.retries = MaxRetries)
  /\ row.status # "FAILED" => row.retry = "none"
  /\ row.status = "PENDING" => row.retries = 0

\* A locked row has one holder and was eligible when it was locked.
Claims ==
  /\ \A v, w \in Workers : claimed[v] \cap claimed[w] # {} => v = w
  /\ \A w \in Workers : \A n \in claimed[w] : Eligible(outbox[n])

\* A result is one of the row its holder locked.
Results ==
  \A w \in Workers, n \in Notifications : staged[w][n] # None =>
    n \in claimed[w] /\ staged[w][n] \in {Sent(outbox[n]), Failed(outbox[n])}

\* A worker waits for one call, of a row of its batch without a result.
Waits ==
  /\ \A c \in Running : call[c].worker # None =>
       call[c].n \in claimed[call[c].worker] /\ staged[call[c].worker][call[c].n] = None
  /\ \A c, d \in Running : call[c].worker # None /\ call[c].worker = call[d].worker => c = d

LockInv == TypeOK /\ (\A n \in Notifications : Lawful(outbox[n])) /\ Claims /\ Results /\ Waits

LEMMA LawfulResults ==
  ASSUME NEW row \in OutboxRow, Lawful(row), Eligible(row)
  PROVE  /\ Lawful(Sent(row)) /\ Lawful(Failed(row))
         /\ row.status # "SENT"
         /\ Sent(row).retries = row.retries /\ Failed(row).retries = row.retries + 1
BY DeliveryAssumption DEF OutboxRow, Lawful, Eligible, Sent, Failed

LEMMA LawfulRows ==
  ASSUME NEW row \in OutboxRow, Lawful(row)
  PROVE  /\ row.status = "PENDING" => Eligible(row)
         /\ row.retry = "future" => ~Eligible(row) /\ Lawful([row EXCEPT !.retry = "past"])
         /\ Lawful([status |-> "PENDING", retries |-> 0, retry |-> "none"])
BY DeliveryAssumption DEF OutboxRow, Lawful, Eligible

LEMMA InitLocked == Init => LockInv
<1> SUFFICES ASSUME Init PROVE LockInv
  OBVIOUS
<1>1. TypeOK /\ Running = {}
  BY InitTyped DEF Init, Running
<1>2. \A n \in Notifications : Lawful(outbox[n])
  BY DeliveryAssumption DEF Init, Lawful
<1>3. QED BY <1>1, <1>2 DEF Init, LockInv, Claims, Results, Waits, Nothing

LEMMA ClaimLocked ==
  ASSUME LockInv, NEW w \in Workers, NEW S, S \subseteq Notifications, claimed[w] = {},
         \A n \in S : Eligible(outbox[n]) /\ ~Locked(n),
         claimed' = [claimed EXCEPT ![w] = S],
         UNCHANGED <<outbox, staged, call>>, TypeOK'
  PROVE  LockInv'
<1>1. claimed'[w] = S /\ \A v \in Workers \ {w} : claimed'[v] = claimed[v]
  BY DEF LockInv, TypeOK
<1>2. Claims'
  BY <1>1 DEF LockInv, Claims, Locked, Eligible
<1>3. Results'
  BY <1>1 DEF LockInv, Results, Sent, Failed
<1>4. Waits'
  <2>1. \A c \in Running : call[c].worker # None => call[c].worker \in Workers \ {w}
    BY CallTyped DEF LockInv, Waits
  <2>2. QED BY <1>1, <2>1 DEF LockInv, Waits, Running
<1>5. QED BY <1>2, <1>3, <1>4 DEF LockInv

\* A result is added to the batch it belongs to.
LEMMA ResultLocked ==
  ASSUME LockInv, NEW w \in Workers, NEW n \in claimed[w], NEW ok \in BOOLEAN,
         staged' = [staged EXCEPT ![w][n] = Result(n, ok)],
         UNCHANGED <<outbox, claimed>>, TypeOK',
         \A c \in Running' : c \in Running /\ (call'[c] = call[c] \/ call'[c].worker = None),
         \A c \in Running' : call'[c].worker # w
  PROVE  LockInv'
<1>1. n \in Notifications
  BY DEF LockInv, TypeOK
<1>2. \A v \in Workers, m \in Notifications :
        staged'[v][m] = IF v = w /\ m = n THEN Result(n, ok) ELSE staged[v][m]
  BY <1>1 DEF LockInv, TypeOK
<1>3. Result(n, ok) \in {Sent(outbox[n]), Failed(outbox[n])}
  BY DEF Result
<1>4. Results'
  BY <1>2, <1>3 DEF LockInv, Results, Sent, Failed
<1>5. Claims'
  BY DEF LockInv, Claims, Eligible
<1>6. Waits'
  <2>1. \A c \in Running' : call'[c].worker # None =>
          call'[c] = call[c] /\ c \in Running /\ call[c].worker \in Workers \ {w} /\ call[c].n \in Notifications
    BY CallTyped DEF LockInv
  <2>2. QED BY <1>2, <2>1 DEF LockInv, Waits
<1>7. QED BY <1>4, <1>5, <1>6 DEF LockInv

\* The steps that touch no row, no lock and no result, and start no call.
LEMMA LockUndisturbed ==
  ASSUME LockInv, UNCHANGED <<outbox, claimed, staged>>, TypeOK',
         \A c \in Running' : /\ c \in Running
                             /\ call'[c].n = call[c].n
                             /\ call'[c].worker \in {call[c].worker, None}
  PROVE  LockInv'
<1>1. Claims' /\ Results'
  BY DEF LockInv, Claims, Results, Eligible, Sent, Failed
<1>2. Waits'
  BY DEF LockInv, Waits
<1>3. QED BY <1>1, <1>2 DEF LockInv

LEMMA SendLocked ==
  ASSUME LockInv, NEW w \in Workers, NEW c \in Calls, Send(w, c), TypeOK'
  PROVE  LockInv'
<1>1. PICK n \in Todo(w) : call' = [call EXCEPT ![c] = [n |-> n, worker |-> w, phase |-> "requested"]]
  BY DEF Send, FirstOf
<1>2. n \in claimed[w] /\ staged[w][n] = None
  BY DEF Todo
<1>3. call'[c].n = n /\ call'[c].worker = w /\ \A d \in Calls \ {c} : call'[d] = call[d]
  BY <1>1 DEF LockInv, TypeOK
<1>4. \A d \in Running' : d = c \/ (d \in Running /\ call'[d] = call[d] /\ call[d].worker # w)
  BY <1>3 DEF Send, Waiting, Running
<1>5. Waits'
  BY <1>2, <1>3, <1>4 DEF LockInv, Waits, Send
<1>6. Claims' /\ Results'
  BY DEF Send, LockInv, Claims, Results, Eligible, Sent, Failed
<1>7. QED BY <1>5, <1>6 DEF LockInv, Send

\* What a commit does to a row, seen from the row.
LEMMA CommitRows ==
  ASSUME LockInv, NEW w \in Workers, Commit(w), NEW n \in Notifications
  PROVE  \/ n \notin claimed[w] /\ outbox'[n] = outbox[n]
         \/ /\ n \in claimed[w] /\ Eligible(outbox[n])
            /\ outbox'[n] = staged[w][n] /\ staged[w][n] # None
            /\ outbox'[n] \in {Sent(outbox[n]), Failed(outbox[n])}
BY DEF Commit, Todo, LockInv, Claims, Results

LEMMA CommitLocked ==
  ASSUME LockInv, NEW w \in Workers, Commit(w), TypeOK'
  PROVE  LockInv'
<1>1. /\ claimed'[w] = {} /\ \A v \in Workers \ {w} : claimed'[v] = claimed[v]
      /\ \A n \in Notifications : staged'[w][n] = None
      /\ \A v \in Workers \ {w} : staged'[v] = staged[v]
      /\ call' = call
  BY DEF Commit, Nothing, LockInv, TypeOK
<1>2. \A v \in Workers \ {w} : \A n \in claimed[v] : n \in Notifications /\ outbox'[n] = outbox[n]
  BY CommitRows DEF LockInv, Claims, TypeOK
<1>3. \A n \in Notifications : Lawful(outbox'[n])
  BY CommitRows, LawfulResults DEF LockInv, TypeOK
<1>4. \A c \in Running : call[c].worker # w
  BY CallTyped, DeliveryAssumption DEF LockInv, Waits, Commit, Todo
<1>5. Claims'
  BY <1>1, <1>2 DEF LockInv, Claims, Eligible
<1>6. Results'
  BY <1>1, <1>2 DEF LockInv, Results, Sent, Failed
<1>7. Waits'
  <2>1. Running' = Running /\ \A c \in Running : call[c].worker # None => call[c].worker \in Workers \ {w}
    BY <1>1, <1>4, CallTyped DEF LockInv, Running
  <2>2. QED BY <1>1, <2>1 DEF LockInv, Waits
<1>8. QED BY <1>3, <1>5, <1>6, <1>7 DEF LockInv, Lawful

LEMMA WorkerCrashLocked ==
  ASSUME LockInv, NEW w \in Workers, WorkerCrash(w), TypeOK'
  PROVE  LockInv'
<1>1. /\ claimed'[w] = {} /\ \A v \in Workers \ {w} : claimed'[v] = claimed[v]
      /\ \A n \in Notifications : staged'[w][n] = None
      /\ \A v \in Workers \ {w} : staged'[v] = staged[v]
      /\ outbox' = outbox
  BY DEF WorkerCrash, Nothing, LockInv, TypeOK
<1>2. \A c \in Calls : call'[c] = IF c \in Running /\ call[c].worker = w
                                  THEN [call[c] EXCEPT !.worker = None] ELSE call[c]
  BY DEF WorkerCrash
<1>3. \A c \in Running : [call[c] EXCEPT !.worker = None].worker = None
  BY CallTyped DEF LockInv, Call
<1>4. \A c \in Running' : c \in Running /\ (call'[c] = call[c] \/ call'[c].worker = None) /\ call'[c].worker # w
  BY <1>2, <1>3, NoneAssumption, DeliveryAssumption DEF Running
<1>5. Claims'
  BY <1>1 DEF LockInv, Claims, Eligible
<1>6. Results'
  BY <1>1 DEF LockInv, Results, Sent, Failed
<1>7. Waits'
  <2>1. \A c \in Running' : call'[c].worker # None =>
          c \in Running /\ call'[c] = call[c] /\ call[c].worker \in Workers \ {w}
    BY <1>4, CallTyped DEF LockInv
  <2>2. QED BY <1>1, <2>1 DEF LockInv, Waits
<1>8. QED BY <1>1, <1>5, <1>6, <1>7 DEF LockInv, Lawful

\* A row that no one holds is changed to a lawful one.
LEMMA FreeRowLocked ==
  ASSUME LockInv, NEW n \in Notifications, NEW row,
         \A w \in Workers : n \notin claimed[w], Lawful(row),
         outbox' = [outbox EXCEPT ![n] = row],
         UNCHANGED <<claimed, staged, call>>, TypeOK'
  PROVE  LockInv'
<1>1. outbox'[n] = row /\ \A m \in Notifications \ {n} : outbox'[m] = outbox[m]
  BY DEF LockInv, TypeOK
<1>2. \A w \in Workers : \A m \in claimed[w] : m \in Notifications \ {n}
  BY DEF LockInv, TypeOK
<1>3. Claims'
  BY <1>1, <1>2 DEF LockInv, Claims, Eligible
<1>4. Results'
  BY <1>1, <1>2 DEF LockInv, Results, Sent, Failed
<1>5. Waits'
  BY DEF LockInv, Waits, Running
<1>6. \A m \in Notifications : Lawful(outbox'[m])
  BY <1>1 DEF LockInv
<1>7. QED BY <1>3, <1>4, <1>5, <1>6 DEF LockInv, Lawful

LEMMA RowActionsLocked ==
  ASSUME LockInv, NEW n \in Notifications, RetryTimeArrives(n) \/ Resend(n) \/ Expire(n)
  PROVE  LockInv'
<1>1. TypeOK' /\ outbox[n] \in OutboxRow /\ Lawful(outbox[n])
  BY RowActionsTyped DEF LockInv, TypeOK
<1>2. CASE RetryTimeArrives(n)
  <2>1. \A w \in Workers : n \notin claimed[w]
    BY <1>1, <1>2, LawfulRows DEF RetryTimeArrives, LockInv, Claims
  <2>2. outbox' = [outbox EXCEPT ![n] = [outbox[n] EXCEPT !.retry = "past"]]
    BY <1>2 DEF RetryTimeArrives
  <2>3. QED BY <1>1, <1>2, <2>1, <2>2, LawfulRows, FreeRowLocked DEF RetryTimeArrives
<1>3. CASE Resend(n)
  BY <1>1, <1>3, LawfulRows, FreeRowLocked DEF Resend, Locked
<1>4. CASE Expire(n)
  BY <1>1, <1>4, CallTyped, LockUndisturbed DEF Expire, Running, LockInv
<1>5. QED BY <1>2, <1>3, <1>4

LEMMA AnswerLocked ==
  ASSUME LockInv, NEW c \in Running, NEW ok \in BOOLEAN, Answer(c, ok),
         UNCHANGED <<outbox, claimed>>, TypeOK'
  PROVE  LockInv'
<1>1. /\ call'[c] = None
      /\ \A d \in Running' : d \in Running \ {c} /\ call'[d] = call[d]
  BY CallTyped DEF Answer, LockInv, TypeOK, Running
<1>2. CASE call[c].worker = None
  <2>1. staged' = staged
    BY <1>2 DEF Answer
  <2>2. QED BY <1>1, <2>1, LockUndisturbed
<1>3. CASE call[c].worker # None
  <2>1. call[c].worker \in Workers /\ call[c].n \in claimed[call[c].worker]
    BY <1>3, CallTyped DEF LockInv, Waits
  <2>2. staged' = [staged EXCEPT ![call[c].worker][call[c].n] = Result(call[c].n, ok)]
    BY <1>3 DEF Answer
  <2>3. \A d \in Running' : call'[d].worker # call[c].worker
    BY <1>1, <1>3 DEF LockInv, Waits
  <2>4. QED BY <1>1, <2>1, <2>2, <2>3, ResultLocked
<1>4. QED BY <1>2, <1>3

LEMMA DispatchLocked ==
  ASSUME LockInv, NEW w \in Workers, Dispatch(w)
  PROVE  LockInv'
<1>1. TypeOK /\ TypeOK'
  BY DispatchTyped DEF LockInv
<1>2. CASE Claim(w)
  <2>1. FirstOf(Due, BatchSize) \subseteq Due
    BY DEF FirstOf
  <2>2. QED BY <1>1, <1>2, <2>1, ClaimLocked DEF Claim, Due
<1>3. ASSUME NEW n \in Notifications, DispatchOne(w, n) PROVE LockInv'
  <2>1. Eligible(outbox[n])
    BY <1>1, <1>3, LawfulRows DEF DispatchOne, LockInv, TypeOK
  <2>2. QED BY <1>1, <1>3, <2>1, ClaimLocked DEF DispatchOne
<1>4. ASSUME NEW c \in Calls, Send(w, c) PROVE LockInv'
  BY <1>1, <1>4, SendLocked
<1>5. CASE SendFails(w)
  <2>1. PICK n \in claimed[w] : staged' = [staged EXCEPT ![w][n] = Result(n, FALSE)]
    BY <1>5 DEF SendFails, FirstOf, Todo
  <2>2. \A c \in Running' : c \in Running /\ call'[c] = call[c] /\ call'[c].worker # w
    BY <1>5 DEF SendFails, Waiting, Running
  <2>3. QED BY <1>1, <1>5, <2>1, <2>2, ResultLocked DEF SendFails
<1>6. CASE Timeout(w)
  <2>1. PICK c \in Running : /\ call[c].worker = w
                            /\ staged' = [staged EXCEPT ![w][call[c].n] = Result(call[c].n, FALSE)]
                            /\ call' = [call EXCEPT ![c].worker = None]
    BY <1>6 DEF Timeout
  <2>2. w # None /\ call[c].n \in claimed[w]
    BY <2>1, DeliveryAssumption DEF LockInv, Waits
  <2>3. c \in Calls /\ call'[c].worker = None /\ \A d \in Calls \ {c} : call'[d] = call[d]
    BY <1>1, <2>1, CallTyped DEF TypeOK, Call
  <2>4. \A d \in Running' : d \in Running /\ (call'[d] = call[d] \/ call'[d].worker = None) /\ call'[d].worker # w
    BY <2>1, <2>2, <2>3 DEF Running, LockInv, Waits
  <2>5. QED BY <1>1, <1>6, <2>1, <2>2, <2>4, ResultLocked DEF Timeout
<1>7. QED BY <1>1, <1>2, <1>3, <1>4, <1>5, <1>6, CommitLocked, WorkerCrashLocked DEF Dispatch

LEMMA DeliverLocked ==
  ASSUME LockInv, NEW c \in Calls, Deliver(c) \/ ChannelTimeout(c) \/ StoreFails(c)
  PROVE  LockInv'
<1>1. TypeOK /\ TypeOK' /\ c \in Running /\ UNCHANGED <<outbox, claimed>>
  BY GatewayTyped DEF LockInv, Deliver, TryStart, Channel, Mark, ChannelTimeout, StoreFails
<1>2. ASSUME NEW p, call' = [call EXCEPT ![c].phase = p], staged' = staged PROVE LockInv'
  <2>1. call'[c].n = call[c].n /\ call'[c].worker = call[c].worker /\ \A d \in Calls \ {c} : call'[d] = call[d]
    BY <1>1, <1>2, CallTyped DEF TypeOK, Call
  <2>2. QED BY <1>1, <1>2, <2>1, LockUndisturbed DEF Running
<1>3. CASE Answer(c, TRUE) \/ Answer(c, FALSE)
  BY <1>1, <1>3, AnswerLocked
<1>4. QED BY <1>2, <1>3 DEF Deliver, TryStart, Channel, Mark, ChannelTimeout, StoreFails

LEMMA GatewayCrashLocked ==
  ASSUME LockInv, GatewayCrash
  PROVE  LockInv'
<1>1. TypeOK' /\ Running' = {} /\ UNCHANGED <<outbox, claimed>>
  BY GatewayCrashTyped DEF LockInv, GatewayCrash, Running
<1>2. \A w \in Workers, n \in Notifications :
        \/ staged'[w][n] = staged[w][n]
        \/ staged'[w][n] = Failed(outbox[n]) /\ n \in claimed[w]
  BY DeliveryAssumption DEF GatewayCrash, Result, LockInv, Waits
<1>3. Results'
  BY <1>1, <1>2 DEF LockInv, Results, Sent, Failed
<1>4. Claims' /\ Waits'
  BY <1>1 DEF LockInv, Claims, Eligible, Waits
<1>5. QED BY <1>1, <1>3, <1>4 DEF LockInv, Lawful

LEMMA NextLocked == LockInv /\ [Next]_vars => LockInv'
<1> SUFFICES ASSUME LockInv, [Next]_vars PROVE LockInv'
  OBVIOUS
<1>1. CASE UNCHANGED vars
  BY <1>1, NextTyped, LockUndisturbed DEF vars, LockInv, Running
<1>2. CASE Next
  BY <1>2, DispatchLocked, DeliverLocked, RowActionsLocked, GatewayCrashLocked DEF Next
<1>3. QED BY <1>1, <1>2

\* A row waits for a retry only while its budget lasts.
THEOREM BudgetKept == Spec => []RetriesWithinBudget
<1>1. LockInv => RetriesWithinBudget
  BY DEF LockInv, Lawful, RetriesWithinBudget
<1>2. QED BY <1>1, InitLocked, NextLocked, PTL DEF Spec

\* What a step books of a row: nothing, the outcome of an eligible row, the
\* arrival of its time, or an administrator's resend.
LEMMA BookingSteps ==
  ASSUME LockInv, [Next]_vars, NEW n \in Notifications
  PROVE  \/ outbox'[n] = outbox[n]
         \/ /\ Eligible(outbox[n])
            /\ outbox'[n] \in {Sent(outbox[n]), Failed(outbox[n])}
            /\ \E w \in Workers : staged[w][n] # None /\ outbox'[n] = staged[w][n]
         \/ outbox[n].retry = "future" /\ outbox'[n] = [outbox[n] EXCEPT !.retry = "past"]
         \/ /\ outbox[n].status = "FAILED"
            /\ outbox'[n] = [status |-> "PENDING", retries |-> 0, retry |-> "none"]
<1>1. CASE outbox' = outbox
  BY <1>1
<1>2. ASSUME NEW w \in Workers, Commit(w)
      PROVE  \/ outbox'[n] = outbox[n]
             \/ /\ Eligible(outbox[n])
                /\ outbox'[n] \in {Sent(outbox[n]), Failed(outbox[n])}
                /\ staged[w][n] # None /\ outbox'[n] = staged[w][n]
  BY <1>2, CommitRows
<1>3. ASSUME NEW m \in Notifications, RetryTimeArrives(m)
      PROVE  \/ outbox'[n] = outbox[n]
             \/ outbox[n].retry = "future" /\ outbox'[n] = [outbox[n] EXCEPT !.retry = "past"]
  BY <1>3 DEF RetryTimeArrives, LockInv, TypeOK
<1>4. ASSUME NEW m \in Notifications, Resend(m)
      PROVE  \/ outbox'[n] = outbox[n]
             \/ /\ outbox[n].status = "FAILED"
                /\ outbox'[n] = [status |-> "PENDING", retries |-> 0, retry |-> "none"]
  BY <1>4 DEF Resend, LockInv, TypeOK
<1>5. CASE UNCHANGED vars
  BY <1>1, <1>5 DEF vars
<1>6. CASE Next
  BY <1>1, <1>2, <1>3, <1>4, <1>6
     DEF Next, Dispatch, Claim, DispatchOne, Send, SendFails, Timeout, WorkerCrash,
         Deliver, TryStart, Channel, Mark, ChannelTimeout, StoreFails, Expire, GatewayCrash
<1>7. QED BY <1>5, <1>6

\* A row books one attempt at a time.
THEOREM AttemptsAreSerial == Spec => OneAttemptAtATime
<1>1. ASSUME LockInv, [Next]_vars, NEW n \in Notifications
      PROVE  /\ outbox[n].status = "SENT" => outbox'[n] = outbox[n]
             /\ outbox'[n].retries \in {0, outbox[n].retries, outbox[n].retries + 1}
  <2>1. outbox[n] \in OutboxRow /\ Lawful(outbox[n])
    BY <1>1 DEF LockInv, TypeOK
  <2>2. [outbox[n] EXCEPT !.retry = "past"].retries = outbox[n].retries
    BY <2>1 DEF OutboxRow
  <2>3. CASE outbox'[n] = outbox[n]
    BY <2>3
  <2>4. CASE Eligible(outbox[n]) /\ outbox'[n] \in {Sent(outbox[n]), Failed(outbox[n])}
    BY <2>1, <2>4, LawfulResults
  <2>5. CASE outbox[n].retry = "future" /\ outbox'[n] = [outbox[n] EXCEPT !.retry = "past"]
    BY <2>1, <2>2, <2>5 DEF Lawful
  <2>6. CASE /\ outbox[n].status = "FAILED"
             /\ outbox'[n] = [status |-> "PENDING", retries |-> 0, retry |-> "none"]
    BY <2>6
  <2>7. QED BY <1>1, <2>3, <2>4, <2>5, <2>6, BookingSteps
<1>2. LockInv /\ [Next]_vars =>
        [\A n \in Notifications :
           /\ outbox[n].status = "SENT" => outbox'[n] = outbox[n]
           /\ outbox'[n].retries \in {0, outbox[n].retries, outbox[n].retries + 1}]_vars
  BY <1>1
<1>3. QED BY <1>2, InitLocked, NextLocked, PTL DEF Spec, OneAttemptAtATime

-----------------------------------------------------------------------------
(* The promise, step by step *)

LEMMA PromiseInitially == Init => Promise!PromiseInit
<1> SUFFICES ASSUME Init PROVE Promise!PromiseInit
  OBVIOUS
<1>1. \A n \in Notifications : outbox[n].status = "PENDING" /\ accepted[n] = 0
  BY DEF Init
<1>2. [n \in Notifications |-> IF outbox[n].status = "SENT" THEN "sent"
                             ELSE IF GivenUp(outbox[n]) THEN "given_up" ELSE "queued"]
        = [n \in Notifications |-> "queued"]
  BY <1>1 DEF GivenUp
<1>3. [n \in Notifications |-> accepted[n] > 0] = [n \in Notifications |-> FALSE]
  <2>1. \A n \in Notifications : (accepted[n] > 0) = FALSE
    BY <1>1
  <2>2. QED BY <2>1
<1>4. QED BY <1>2, <1>3 DEF Promise!PromiseInit

\* What a row says to the outside.
OutcomeOf(row) ==
  IF row.status = "SENT" THEN "sent" ELSE IF GivenUp(row) THEN "given_up" ELSE "queued"

LEMMA OutcomeMoves ==
  ASSUME LockInv, BookingInv, [Next]_vars, NEW n \in Notifications
  PROVE  \/ OutcomeOf(outbox'[n]) = OutcomeOf(outbox[n])
         \/ OutcomeOf(outbox[n]) = "queued" /\ OutcomeOf(outbox'[n]) = "sent" /\ accepted[n] > 0
         \/ OutcomeOf(outbox[n]) = "queued" /\ OutcomeOf(outbox'[n]) = "given_up"
         \/ OutcomeOf(outbox[n]) = "given_up" /\ OutcomeOf(outbox'[n]) = "queued"
<1>1. outbox[n] \in OutboxRow /\ Lawful(outbox[n])
  BY DEF LockInv, TypeOK
<1>2. CASE outbox'[n] = outbox[n]
  BY <1>2
<1>3. CASE /\ Eligible(outbox[n])
           /\ outbox'[n] \in {Sent(outbox[n]), Failed(outbox[n])}
           /\ \E w \in Workers : staged[w][n] # None /\ outbox'[n] = staged[w][n]
  <2>1. OutcomeOf(outbox[n]) = "queued"
    BY <1>1, <1>3 DEF OutcomeOf, GivenUp, Eligible, Lawful
  <2>2. CASE outbox'[n].status = "SENT"
    <3>1. accepted[n] > 0
      BY <1>3, <2>2 DEF BookingInv, BookedWasTaken, GatewayInv, TypeOK
    <3>2. QED BY <2>1, <2>2, <3>1 DEF OutcomeOf
  <2>3. CASE outbox'[n].status # "SENT"
    BY <2>1, <2>3 DEF OutcomeOf
  <2>4. QED BY <2>2, <2>3
<1>4. CASE outbox[n].retry = "future" /\ outbox'[n] = [outbox[n] EXCEPT !.retry = "past"]
  <2>1. outbox'[n].status = outbox[n].status /\ outbox'[n].retry = "past"
    BY <1>1, <1>4 DEF OutboxRow
  <2>2. QED BY <1>4, <2>1 DEF OutcomeOf, GivenUp
<1>5. CASE /\ outbox[n].status = "FAILED"
           /\ outbox'[n] = [status |-> "PENDING", retries |-> 0, retry |-> "none"]
  BY <1>5 DEF OutcomeOf, GivenUp
<1>6. QED BY <1>2, <1>3, <1>4, <1>5, BookingSteps

LEMMA AcceptedGrows ==
  ASSUME TypeOK, [Next]_vars, NEW n \in Notifications
  PROVE  accepted[n] > 0 => accepted'[n] > 0
<1>1. accepted[n] \in Nat
  BY DEF TypeOK
<1>2. CASE accepted' = accepted
  BY <1>2
<1>3. ASSUME NEW c \in Calls, Channel(c) \/ ChannelTimeout(c) PROVE accepted[n] > 0 => accepted'[n] > 0
  BY <1>1, <1>3, CallTyped DEF Channel, ChannelTimeout, TypeOK
<1>4. CASE UNCHANGED vars
  BY <1>2, <1>4 DEF vars
<1>5. CASE Next
  BY <1>2, <1>3, <1>5
     DEF Next, Dispatch, Claim, Commit, DispatchOne, Send, SendFails, Timeout, WorkerCrash,
         Deliver, TryStart, Mark, StoreFails, RetryTimeArrives, Resend, Expire, GatewayCrash
<1>6. QED BY <1>4, <1>5

LEMMA PromiseNextKept ==
  ASSUME LockInv, BookingInv, [Next]_vars
  PROVE  Promise!PromiseNext
<1>1. ASSUME NEW n \in Notifications PROVE Promise!PromiseStep(n)
  BY <1>1, OutcomeMoves, AcceptedGrows DEF Promise!PromiseStep, OutcomeOf, LockInv
<1>2. QED BY <1>1 DEF Promise!PromiseNext

\* The delivery implements the promise made to the people it writes to.
THEOREM PromiseKept == Spec => KeepsPromise
<1>1. Init => BookingInv
  BY GatewayInit DEF BookingInv, BookedWasTaken, SentMeansAccepted, Init, Nothing
<1>2. LockInv /\ BookingInv /\ [Next]_vars => [Promise!PromiseNext]_(Promise!promiseVars)
  BY PromiseNextKept
<1>3. QED BY <1>1, <1>2, PromiseInitially, InitLocked, NextLocked, NextIsBooked, PTL
       DEF Spec, KeepsPromise, Promise!PromiseSpec
==============================================================================
