------------------------- MODULE InboundEventsProofs -------------------------
(***************************************************************************)
(* Proofs about InboundEvents for any number of messages, calls and        *)
(* faults: its types, one call per event, at most one turn per message,    *)
(* nothing closed untold, turns apart while leases last, and no idle lock  *)
(* kept.                                                                   *)
(***************************************************************************)
EXTENDS InboundEvents, TLAPS

\* What a call knows at its stage.
CallKnows ==
  \A c \in Calls :
     /\ Active(c) => call[c].msg \in Messages
     /\ call[c].at = "replying" => call[c].reply \in Replies

Typed == TypeOK /\ CallKnows

-----------------------------------------------------------------------------
(* The lock's operations keep its types *)

LEMMA LockOfKeyTyped ==
  ASSUME LockTypeOK, \E l \in Locks : Unused(l) \/ table = l
  PROVE  LockOfKey \in Locks
<1>1. CASE table = None
  <2>1. \A l \in Locks : table # l
    BY <1>1, LockAssumption
  <2>2. QED BY <1>1, <2>1 DEF LockOfKey
<1>2. QED BY <1>2, <1>1 DEF LockOfKey, LockTypeOK

LEMMA LocalTyped ==
  ASSUME LockTypeOK, NEW c \in Calls, LocalAcquire(c) \/ LocalWait(c) \/ LocalWake(c) \/ LocalRelease(c)
  PROVE  LockTypeOK'
<1> USE DEF LockTypeOK, redisVars
<1>1. CASE LocalAcquire(c)
  <2>1. LockOfKey \in Locks
    BY <1>1, LockOfKeyTyped DEF LocalAcquire
  <2>2. QED BY <1>1, <2>1 DEF LocalAcquire
<1>2. CASE LocalWait(c)
  <2>1. table \in Locks /\ Append(queue[table], c) \in Seq(Calls)
    BY <1>2 DEF LocalWait
  <2>2. QED BY <1>2, <2>1 DEF LocalWait
<1>3. CASE LocalWake(c)
  <2>1. PICK l \in Locks :
          /\ queue[l] # <<>>
          /\ holder' = [holder EXCEPT ![l] = c]
          /\ queue' = [queue EXCEPT ![l] = Tail(@)]
          /\ UNCHANGED <<table, redisVars>>
    BY <1>3 DEF LocalWake
  <2>2. Tail(queue[l]) \in Seq(Calls)
    BY <2>1
  <2>3. QED BY <2>1, <2>2
<1>4. CASE LocalRelease(c)
  BY <1>4 DEF LocalRelease
<1>5. QED BY <1>1, <1>2, <1>3, <1>4

LEMMA LeaseTyped ==
  ASSUME LockTypeOK, NEW c \in Calls \cup {Stray},
         \/ LeaseClaim(c) \/ LeaseRelease(c) \/ LeaseAbandon(c) \/ LeaseExpires
         \/ UNCHANGED lockVars
  PROVE  LockTypeOK'
BY LockAssumption
   DEF LockTypeOK, LeaseClaim, LeaseRelease, LeaseAbandon, LeaseExpires, localVars, lockVars

LEMMA UnlockTyped ==
  ASSUME LockTypeOK, NEW c \in Calls, Unlock(c)
  PROVE  LockTypeOK'
BY LocalTyped, LeaseTyped DEF Unlock

-----------------------------------------------------------------------------
(* Type correctness *)

LEMMA InitTyped == Init => Typed
BY DEF Init, LockInit, Typed, TypeOK, LockTypeOK, CallKnows, Call, Stages, Free, Active

LEMMA FreeTyped == Free \in Call
BY DEF Free, Call, Stages

LEMMA MoveTyped ==
  ASSUME Typed, NEW c \in Calls, NEW s \in Stages, s # "replying", Active(c), MovesTo(c, s)
  PROVE  call' \in [Calls -> Call] /\ CallKnows'
BY DEF Typed, TypeOK, CallKnows, Call, MovesTo, Active

LEMMA ReplyTyped ==
  ASSUME Typed, NEW c \in Calls, NEW r \in Replies, Active(c), RepliesWith(c, r)
  PROVE  call' \in [Calls -> Call] /\ CallKnows'
<1>1. call \in [Calls -> Call] /\ call[c] \in Call
  BY DEF Typed, TypeOK
<1>2. [call[c] EXCEPT !.at = "replying", !.reply = r] \in Call
  BY <1>1 DEF Call, Stages
<1>3. call' = [call EXCEPT ![c] = [call[c] EXCEPT !.at = "replying", !.reply = r]]
  BY <1>1 DEF RepliesWith
<1>4. call' \in [Calls -> Call]
  BY <1>1, <1>2, <1>3
<1>5. call'[c].msg = call[c].msg /\ call'[c].reply = r /\ call'[c].at = "replying"
      /\ \A d \in Calls : d # c => call'[d] = call[d]
  BY <1>1, <1>3 DEF Call
<1>6. CallKnows'
  BY <1>5 DEF Typed, CallKnows, Active
<1>7. QED BY <1>4, <1>6

LEMMA CountTyped ==
  ASSUME NEW f \in [Messages -> Nat], NEW m \in Messages
  PROVE  [f EXCEPT ![m] = @ + 1] \in [Messages -> Nat]
OBVIOUS

LEMMA FaultTyped == TypeOK /\ Fault => faults' \in Nat
BY DEF TypeOK, Fault

LEMMA WebhookTyped ==
  ASSUME Typed, NEW c \in Calls,
         \/ \E m \in Messages : Deliver(c, m)
         \/ MarkCompleted(c) \/ MarkFailed(c) \/ MarkRaises(c)
  PROVE  Typed'
<1>1. ASSUME NEW m \in Messages, Deliver(c, m) PROVE Typed'
  <2>1. [at |-> "locking", msg |-> m, reply |-> None] \in Call
    BY DEF Call, Stages
  <2>2. LockTypeOK'
    BY <1>1 DEF Deliver, Typed, TypeOK, LockTypeOK, lockVars
  <2>3. CallKnows'
    BY <1>1 DEF Deliver, Typed, TypeOK, CallKnows, Active
  <2>4. QED BY <1>1, <2>1, <2>2, <2>3 DEF Deliver, Typed, TypeOK
<1>2. CASE MarkCompleted(c)
  <2>1. LockTypeOK' /\ CallKnows'
    BY <1>2 DEF MarkCompleted, Typed, TypeOK, LockTypeOK, lockVars, CallKnows, Active, Free
  <2>2. QED BY <1>2, <2>1, FreeTyped DEF MarkCompleted, Typed, TypeOK
<1>3. CASE MarkFailed(c)
  <2>1. LockTypeOK' /\ CallKnows'
    BY <1>3 DEF MarkFailed, Typed, TypeOK, LockTypeOK, lockVars, CallKnows, Active, Free
  <2>2. QED BY <1>3, <2>1, FreeTyped DEF MarkFailed, Typed, TypeOK
<1>4. CASE MarkRaises(c)
  <2>1. CallKnows' /\ call' \in [Calls -> Call]
    <3>1. CASE call[c].at = "marking" /\ MovesTo(c, "failing")
      BY <3>1, MoveTyped DEF Active, Stages
    <3>2. CASE call' = [call EXCEPT ![c] = Free]
      BY <3>2, FreeTyped DEF Typed, TypeOK, CallKnows, Active, Free
    <3>3. QED BY <1>4, <3>1, <3>2 DEF MarkRaises
  <2>2. dedup' \in [Messages -> {"absent", "started", "completed", "failed"}]
    BY <1>4 DEF MarkRaises, Typed, TypeOK
  <2>3. LockTypeOK'
    BY <1>4, LeaseTyped DEF MarkRaises, Typed, TypeOK
  <2>4. QED BY <1>4, <2>1, <2>2, <2>3, FaultTyped DEF MarkRaises, Typed, TypeOK
<1>5. QED BY <1>1, <1>2, <1>3, <1>4

LEMMA EnterTyped ==
  ASSUME Typed, NEW c \in Calls,
         EnterLocal(c) \/ EnterRedis(c) \/ GiveUpLease(c) \/ Leave(c)
  PROVE  Typed'
<1>1. LockTypeOK'
  <2>1. CASE EnterLocal(c)
    BY <2>1, LocalTyped DEF EnterLocal, Typed, TypeOK
  <2>2. CASE EnterRedis(c)
    BY <2>2, LeaseTyped DEF EnterRedis, Typed, TypeOK
  <2>3. CASE GiveUpLease(c)
    BY <2>3, LeaseTyped DEF GiveUpLease, Typed, TypeOK
  <2>4. CASE Leave(c)
    BY <2>4, UnlockTyped DEF Leave, Typed, TypeOK
  <2>5. QED BY <2>1, <2>2, <2>3, <2>4
<1>2. call' \in [Calls -> Call] /\ CallKnows'
  <2>1. PICK s \in Stages : s # "replying" /\ MovesTo(c, s)
    BY DEF EnterLocal, EnterRedis, GiveUpLease, Leave, Stages
  <2>2. Active(c)
    BY DEF EnterLocal, EnterRedis, GiveUpLease, Leave, Active
  <2>3. QED BY <2>1, <2>2, MoveTyped
<1>3. UNCHANGED <<settings, dedup, rows, turns, told, faults>>
  BY DEF EnterLocal, EnterRedis, GiveUpLease, Leave
<1>4. QED BY <1>1, <1>2, <1>3 DEF Typed, TypeOK

LEMMA TurnTyped ==
  ASSUME Typed, NEW c \in Calls, Open(c) \/ Run(c) \/ StoreAnswer(c) \/ Reply(c)
  PROVE  Typed'
<1>1. LockTypeOK' /\ UNCHANGED <<settings, dedup, faults>>
  BY LeaseTyped DEF Open, Run, StoreAnswer, Reply, Typed, TypeOK
<1>2. Active(c)
  BY DEF Open, Run, StoreAnswer, Reply, Active
<1>3. call' \in [Calls -> Call] /\ CallKnows'
  <2>1. \/ \E s \in Stages : s # "replying" /\ MovesTo(c, s)
        \/ \E r \in Replies : RepliesWith(c, r)
    BY DEF Open, PriorReply, Run, StoreAnswer, Reply, Stages, Replies
  <2>2. QED BY <1>2, <2>1, MoveTyped, ReplyTyped
<1>4. /\ rows' \in [Messages -> SUBSET {"user", "agent"}]
      /\ turns' \in [Messages -> Nat]
      /\ told' \in [Messages -> SUBSET Replies]
  <2>1. CASE Open(c)
    BY <2>1 DEF Open, Typed, TypeOK
  <2>2. CASE Run(c)
    <3>1. call[c].msg \in Messages /\ turns \in [Messages -> Nat]
      BY <2>2 DEF Run, Active, Typed, TypeOK, CallKnows
    <3>2. turns' \in [Messages -> Nat]
      BY <2>2, <3>1, CountTyped DEF Run
    <3>3. QED BY <2>2, <3>2 DEF Run, Typed, TypeOK
  <2>3. CASE StoreAnswer(c)
    BY <2>3 DEF StoreAnswer, Typed, TypeOK
  <2>4. CASE Reply(c)
    BY <2>4 DEF Reply, Typed, TypeOK, CallKnows
  <2>5. QED BY <2>1, <2>2, <2>3, <2>4
<1>5. QED BY <1>1, <1>3, <1>4 DEF Typed, TypeOK

LEMMA RaiseTyped ==
  ASSUME Typed, NEW c \in Calls, Raise(c) \/ LeaseRaises(c)
  PROVE  Typed'
<1>1. LockTypeOK'
  <2>1. CASE Raise(c)
    BY <2>1, UnlockTyped DEF Raise, Unwind, Typed, TypeOK
  <2>2. CASE LeaseRaises(c)
    BY <2>2, LeaseTyped DEF LeaseRaises, Typed, TypeOK
  <2>3. QED BY <2>1, <2>2
<1>2. call' \in [Calls -> Call] /\ CallKnows'
  <2>1. MovesTo(c, "failing") /\ Active(c)
    BY DEF Raise, Unwind, Inside, LeaseRaises, Active
  <2>2. QED BY <2>1, MoveTyped DEF Stages
<1>3. /\ rows' \in [Messages -> SUBSET {"user", "agent"}]
      /\ turns' \in [Messages -> Nat]
      /\ told' \in [Messages -> SUBSET Replies]
  BY DEF Raise, LeaseRaises, Typed, TypeOK, CallKnows
<1>4. faults' \in Nat /\ UNCHANGED <<settings, dedup>>
  BY FaultTyped DEF Raise, LeaseRaises, Typed
<1>5. QED BY <1>1, <1>2, <1>3, <1>4 DEF Typed, TypeOK

LEMMA CrashTyped ==
  ASSUME Typed, NEW S \in SUBSET Calls, Crash(S)
  PROVE  Typed'
<1>1. call' \in [Calls -> Call] /\ CallKnows'
  BY FreeTyped DEF Crash, Typed, TypeOK, CallKnows, Active, Free
<1>2. dedup' \in [Messages -> {"absent", "started", "completed", "failed"}]
  BY DEF Crash, Typed, TypeOK
<1>3. LockTypeOK'
  <2>1. table' \in Locks \cup {None} /\ holder' \in [Locks -> Calls \cup {None}]
    BY DEF Crash, LoseTable, localVars, Typed, TypeOK, LockTypeOK
  <2>2. queue' \in [Locks -> Seq(Calls)]
    <3>1. [l \in Locks |-> <<>>] \in [Locks -> Seq(Calls)]
      OBVIOUS
    <3>2. queue' = [l \in Locks |-> <<>>] \/ queue' = queue
      BY DEF Crash, LoseTable, localVars
    <3>3. QED BY <3>1, <3>2 DEF Typed, TypeOK, LockTypeOK
  <2>3. lease' \in Calls \cup {Stray, None} /\ lapsed' \subseteq Calls
    BY DEF Crash, Typed, TypeOK, LockTypeOK
  <2>4. QED BY <2>1, <2>2, <2>3 DEF LockTypeOK
<1>4. QED BY <1>1, <1>2, <1>3, FaultTyped DEF Crash, Typed, TypeOK

LEMMA StepTyped == Typed /\ [Next]_vars => Typed'
<1> SUFFICES ASSUME Typed, [Next]_vars PROVE Typed'
  OBVIOUS
<1>1. ASSUME NEW m \in Messages, Expire(m) \/ StartRaises(m) PROVE Typed'
  <2>1. LockTypeOK'
    BY <1>1 DEF Expire, StartRaises, Typed, TypeOK, LockTypeOK, lockVars
  <2>2. faults' \in Nat
    BY <1>1, FaultTyped DEF Expire, StartRaises, Typed, TypeOK
  <2>3. QED BY <1>1, <2>1, <2>2 DEF Expire, StartRaises, Typed, TypeOK, CallKnows, Active
<1>2. CASE LeaseEnds
  <2>1. LockTypeOK'
    BY <1>2, LeaseTyped DEF LeaseEnds, Typed, TypeOK
  <2>2. QED BY <1>2, <2>1, FaultTyped DEF LeaseEnds, Typed, TypeOK, CallKnows, Active
<1>3. CASE UNCHANGED vars
  <2>1. LockTypeOK'
    BY <1>3 DEF vars, Typed, TypeOK, LockTypeOK, lockVars
  <2>2. QED BY <1>3, <2>1 DEF vars, Typed, TypeOK, CallKnows, Active
<1>4. QED
  BY <1>1, <1>2, <1>3, WebhookTyped, EnterTyped, TurnTyped, RaiseTyped, CrashTyped DEF Next, Step

\* Every variable keeps its type; a call in a stage has what the stage needs.
THEOREM InboundTyped == Spec => []TypeOK
<1>1. Init => Typed
  BY InitTyped
<1>2. Typed /\ [Next]_vars => Typed'
  BY StepTyped
<1>3. Typed => TypeOK
  BY DEF Typed
<1>4. QED BY <1>1, <1>2, <1>3, PTL DEF Spec
-----------------------------------------------------------------------------
(* The dedup record *)

Claimed == \A c \in Calls : Active(c) => dedup[call[c].msg] \in {"started", "completed"}

EventInv == Typed /\ Claimed /\ OneCallPerEvent

\* A call that goes on keeps its event.
LEMMA SameEvents ==
  ASSUME EventInv, Typed', UNCHANGED dedup,
         \A c \in Calls : Active(c)' => Active(c) /\ call'[c].msg = call[c].msg
  PROVE  EventInv'
BY DEF EventInv, Claimed, OneCallPerEvent

LEMMA EventStep == EventInv /\ [Next]_vars => EventInv'
<1> SUFFICES ASSUME EventInv, [Next]_vars PROVE EventInv'
  OBVIOUS
<1>0. Typed' /\ Typed
  BY StepTyped DEF EventInv
<1>1. ASSUME NEW c \in Calls, NEW m \in Messages, Deliver(c, m) PROVE EventInv'
  <2>1. \A d \in Calls : Active(d) => call[d].msg # m
    BY <1>1 DEF Deliver, Startable, EventInv, Claimed
  <2>2. dedup' = [dedup EXCEPT ![m] = "started"] /\ call'[c].msg = m
        /\ \A d \in Calls : d # c => call'[d] = call[d]
    BY <1>1, <1>0 DEF Deliver, Typed, TypeOK
  <2>3. Claimed' /\ OneCallPerEvent'
    BY <1>0, <2>1, <2>2 DEF EventInv, Claimed, OneCallPerEvent, Active, Typed, TypeOK, CallKnows
  <2>4. QED BY <1>0, <2>3 DEF EventInv
<1>2. ASSUME NEW c \in Calls, MarkCompleted(c) \/ MarkFailed(c) \/ MarkRaises(c) PROVE EventInv'
  <2>1. Active(c) /\ call[c].msg \in Messages
    BY <1>0, <1>2 DEF MarkCompleted, MarkFailed, MarkRaises, Active, Typed, CallKnows
  <2>2. \A d \in Calls : d # c => call'[d] = call[d]
    BY <1>2, <1>0 DEF MarkCompleted, MarkFailed, MarkRaises, MovesTo, Typed, TypeOK
  <2>3. \/ call'[c] = Free
        \/ call'[c].msg = call[c].msg /\ dedup'[call[c].msg] \in {dedup[call[c].msg], "completed"}
    BY <1>2, <1>0, <2>1 DEF MarkCompleted, MarkFailed, MarkRaises, MovesTo, Typed, TypeOK, Call
  <2>4. \A m \in Messages : m # call[c].msg => dedup'[m] = dedup[m]
    BY <1>2, <1>0 DEF MarkCompleted, MarkFailed, MarkRaises, Typed, TypeOK
  <2>5. OneCallPerEvent'
    BY <2>1, <2>2, <2>3 DEF EventInv, OneCallPerEvent, Active, Free
  <2>6. ASSUME NEW d \in Calls, Active(d)' PROVE dedup'[call'[d].msg] \in {"started", "completed"}
    <3>1. CASE d = c
      BY <2>1, <2>3, <2>6, <3>1 DEF EventInv, Claimed, Active, Free
    <3>2. CASE d # c
      <4>1. call'[d] = call[d] /\ Active(d)
        BY <2>2, <2>6, <3>2 DEF Active
      <4>2. call[d].msg \in Messages /\ call[d].msg # call[c].msg
        BY <1>0, <2>1, <3>2, <4>1 DEF EventInv, OneCallPerEvent, Typed, CallKnows
      <4>3. QED BY <2>4, <4>1, <4>2 DEF EventInv, Claimed
    <3>3. QED BY <3>1, <3>2
  <2>7. QED BY <1>0, <2>5, <2>6 DEF EventInv, Claimed
<1>3. ASSUME NEW m \in Messages, Expire(m) \/ StartRaises(m) PROVE EventInv'
  BY <1>0, <1>3 DEF Expire, StartRaises, Startable, EventInv, Claimed, OneCallPerEvent, Active, Typed, TypeOK, CallKnows
<1>4. ASSUME NEW S \in SUBSET Calls, Crash(S) PROVE EventInv'
  <2>1. \A c \in Calls : call'[c] = Free \/ call'[c] = call[c]
    BY <1>4 DEF Crash
  <2>2. CASE dedup' = dedup
    BY <1>0, <2>1, <2>2, SameEvents DEF Active, Free
  <2>3. CASE S = Calls
    <3>1. \A c \in Calls : ~Active(c)'
      BY <1>4, <2>3 DEF Crash, Active, Free
    <3>2. QED BY <1>0, <3>1 DEF EventInv, Claimed, OneCallPerEvent
  <2>4. QED BY <1>4, <2>2, <2>3 DEF Crash, OneProcess
<1>5. ASSUME NEW c \in Calls,
             \/ EnterLocal(c) \/ EnterRedis(c) \/ GiveUpLease(c) \/ Open(c) \/ Run(c)
             \/ StoreAnswer(c) \/ Reply(c) \/ Leave(c) \/ Raise(c) \/ LeaseRaises(c)
      PROVE  EventInv'
  <2>1. UNCHANGED dedup /\ Active(c)
    BY <1>5 DEF EnterLocal, EnterRedis, GiveUpLease, Open, Run, StoreAnswer, Reply, Leave,
                Raise, Unwind, Inside, LeaseRaises, Active
  <2>2. (\E s \in Stages : MovesTo(c, s)) \/ (\E r \in Replies : RepliesWith(c, r))
    BY <1>5 DEF EnterLocal, EnterRedis, GiveUpLease, Open, PriorReply, Run, StoreAnswer, Reply,
                Leave, Raise, LeaseRaises, Stages, Replies
  <2>3. \A d \in Calls : Active(d)' => Active(d) /\ call'[d].msg = call[d].msg
    BY <1>0, <2>1, <2>2 DEF MovesTo, RepliesWith, Active, Typed, TypeOK, Call
  <2>4. QED BY <1>0, <2>1, <2>3, SameEvents
<1>6. CASE LeaseEnds \/ UNCHANGED vars
  BY <1>0, <1>6, SameEvents DEF LeaseEnds, vars, Active
<1>7. QED BY <1>1, <1>2, <1>3, <1>4, <1>5, <1>6 DEF Next, Step

\* No two calls ever work on one event, whatever Redis loses or forgets.
THEOREM EventsAreExclusive == Spec => []OneCallPerEvent
<1>1. Init => EventInv
  BY InitTyped DEF EventInv, Init, Claimed, OneCallPerEvent, Active, Free
<1>2. EventInv => OneCallPerEvent
  BY DEF EventInv
<1>3. QED BY <1>1, <1>2, EventStep, PTL DEF Spec

-----------------------------------------------------------------------------
(* One turn per message *)

\* The row of a message is there before the assistant sees it.
RowFirst ==
  /\ \A m \in Messages : turns[m] = 0 \/ (turns[m] = 1 /\ "user" \in rows[m])
  /\ \A c \in Calls : call[c].at = "running" =>
        "user" \in rows[call[c].msg] /\ turns[call[c].msg] = 0

TurnInv == EventInv /\ RowFirst

\* Nothing else starts a turn, and no row is ever taken away.
LEMMA NoTurn ==
  ASSUME TurnInv, EventInv', UNCHANGED turns,
         \A m \in Messages : rows[m] \subseteq rows'[m],
         \A c \in Calls : call'[c].at = "running" => call[c].at = "running" /\ call'[c].msg = call[c].msg
  PROVE  TurnInv'
<1>1. \A c \in Calls : call[c].at = "running" => call[c].msg \in Messages
  BY DEF TurnInv, EventInv, Typed, CallKnows, Active
<1>2. RowFirst'
  BY <1>1 DEF TurnInv, RowFirst
<1>3. QED BY <1>2 DEF TurnInv

\* The turn of c ends, counted.
LEMMA TurnCounted ==
  ASSUME TurnInv, EventInv', NEW c \in Calls, call[c].at = "running",
         turns' = [turns EXCEPT ![call[c].msg] = @ + 1], UNCHANGED rows,
         call'[c].at # "running", \A d \in Calls : d # c => call'[d] = call[d]
  PROVE  TurnInv'
<1>1. /\ call[c].msg \in Messages /\ turns[call[c].msg] = 0 /\ "user" \in rows[call[c].msg]
      /\ turns \in [Messages -> Nat]
  BY DEF TurnInv, RowFirst, EventInv, Typed, TypeOK, CallKnows, Active
<1>2. turns'[call[c].msg] = 1 /\ \A m \in Messages : m # call[c].msg => turns'[m] = turns[m]
  BY <1>1
<1>3. \A d \in Calls : call'[d].at = "running" =>
        call'[d] = call[d] /\ call[d].msg \in Messages /\ call[d].msg # call[c].msg
  BY DEF TurnInv, EventInv, OneCallPerEvent, Typed, CallKnows, Active
<1>4. RowFirst'
  BY <1>1, <1>2, <1>3 DEF TurnInv, RowFirst
<1>5. QED BY <1>4 DEF TurnInv

LEMMA TurnStep == TurnInv /\ [Next]_vars => TurnInv'
<1> SUFFICES ASSUME TurnInv, [Next]_vars PROVE TurnInv'
  OBVIOUS
<1>0. EventInv' /\ EventInv /\ Typed
  BY EventStep DEF TurnInv, EventInv
<1>1. ASSUME NEW c \in Calls, Open(c) PROVE TurnInv'
  <2>1. CASE ~IsFresh(call[c].msg)
    BY <1>0, <1>1, <2>1, NoTurn DEF Open, RepliesWith, Typed, TypeOK, Call
  <2>2. CASE IsFresh(call[c].msg)
    <3>1. /\ call[c].msg \in Messages /\ "user" \notin rows[call[c].msg]
          /\ rows' = [rows EXCEPT ![call[c].msg] = @ \cup {"user"}]
          /\ UNCHANGED turns
          /\ call' = [call EXCEPT ![c].at = "running"]
      BY <1>0, <1>1, <2>2 DEF Open, IsFresh, MovesTo, Typed, CallKnows, Active
    <3>2. turns[call[c].msg] = 0
      BY <3>1 DEF TurnInv, RowFirst
    <3>3. \A m \in Messages : rows[m] \subseteq rows'[m]
      BY <1>0, <3>1 DEF Typed, TypeOK
    <3>4. "user" \in rows'[call[c].msg] /\ call'[c].msg = call[c].msg
          /\ \A d \in Calls : d # c => call'[d] = call[d]
      BY <1>0, <3>1 DEF Typed, TypeOK, Call
    <3>5. \A d \in Calls : call[d].at = "running" => call[d].msg \in Messages
      BY <1>0 DEF Typed, CallKnows, Active
    <3>6. RowFirst'
      BY <3>1, <3>2, <3>3, <3>4, <3>5 DEF TurnInv, RowFirst
    <3>7. QED BY <1>0, <3>6 DEF TurnInv
  <2>3. QED BY <2>1, <2>2
<1>2. ASSUME NEW c \in Calls, Run(c) PROVE TurnInv'
  <2>1. call'[c].at # "running" /\ \A d \in Calls : d # c => call'[d] = call[d]
    BY <1>0, <1>2 DEF Run, MovesTo, RepliesWith, Typed, TypeOK, Call
  <2>2. QED BY <1>0, <1>2, <2>1, TurnCounted DEF Run
<1>3. ASSUME NEW c \in Calls, Raise(c) PROVE TurnInv'
  <2>1. call'[c].at = "failing" /\ \A d \in Calls : d # c => call'[d] = call[d]
    BY <1>0, <1>3 DEF Raise, MovesTo, Typed, TypeOK, Call
  <2>2. CASE UNCHANGED turns
    <3>1. \A m \in Messages : rows[m] \subseteq rows'[m]
      BY <1>0, <1>3 DEF Raise, Typed, TypeOK
    <3>2. QED BY <1>0, <2>1, <2>2, <3>1, NoTurn
  <2>3. CASE /\ call[c].at = "running" /\ UNCHANGED rows
             /\ turns' = [turns EXCEPT ![call[c].msg] = @ + 1]
    BY <1>0, <2>1, <2>3, TurnCounted
  <2>4. QED BY <1>3, <2>2, <2>3 DEF Raise
<1>4. ASSUME NEW c \in Calls,
             \/ EnterLocal(c) \/ EnterRedis(c) \/ GiveUpLease(c) \/ StoreAnswer(c) \/ Reply(c)
             \/ Leave(c) \/ MarkCompleted(c) \/ MarkFailed(c) \/ MarkRaises(c) \/ LeaseRaises(c)
             \/ \E m \in Messages : Deliver(c, m)
      PROVE  TurnInv'
  <2>1. UNCHANGED turns /\ \A m \in Messages : rows[m] \subseteq rows'[m]
    BY <1>0, <1>4 DEF EnterLocal, EnterRedis, GiveUpLease, StoreAnswer, Reply, Leave, MarkCompleted,
         MarkFailed, MarkRaises, LeaseRaises, Deliver, Typed, TypeOK
  <2>2. call'[c].at # "running" /\ \A d \in Calls : d # c => call'[d] = call[d]
    BY <1>0, <1>4 DEF EnterLocal, EnterRedis, GiveUpLease, StoreAnswer, Reply, Leave, MarkCompleted,
         MarkFailed, MarkRaises, LeaseRaises, Deliver, MovesTo, RepliesWith, Free, Typed, TypeOK, Call
  <2>3. QED BY <1>0, <2>1, <2>2, NoTurn
<1>5. ASSUME NEW S \in SUBSET Calls, Crash(S) PROVE TurnInv'
  BY <1>0, <1>5, NoTurn DEF Crash, Free
<1>6. CASE LeaseEnds \/ (\E m \in Messages : Expire(m) \/ StartRaises(m)) \/ UNCHANGED vars
  BY <1>0, <1>6, NoTurn DEF LeaseEnds, Expire, StartRaises, vars
<1>7. QED BY <1>1, <1>2, <1>3, <1>4, <1>5, <1>6 DEF Next, Step

\* A duplicate, a retry or a late delivery never has the assistant work again.
THEOREM MessagesRunOnce == Spec => []AgentRunsAtMostOnce
<1>1. Init => TurnInv
  BY InitTyped DEF TurnInv, RowFirst, EventInv, Init, Claimed, OneCallPerEvent, Active, Free
<1>2. TurnInv => AgentRunsAtMostOnce
  BY DEF TurnInv, RowFirst, AgentRunsAtMostOnce
<1>3. QED BY <1>1, <1>2, TurnStep, PTL DEF Spec

-----------------------------------------------------------------------------
(* Nothing is closed untold *)

\* A call that is past its reply has told.
ToldFirst ==
  \A c \in Calls : call[c].at \in {"leaving", "marking"} => told[call[c].msg] # {}

ToldInv == Typed /\ ToldFirst /\ CompletedWasTold

\* What was told stays told.
LEMMA NothingUntold ==
  ASSUME ToldInv, Typed', \A m \in Messages : told[m] \subseteq told'[m],
         \A m \in Messages : dedup'[m] = "completed" => dedup[m] = "completed" \/ told'[m] # {},
         \A c \in Calls : call'[c].at \in {"leaving", "marking"} =>
            \/ call'[c].msg = call[c].msg /\ call[c].at \in {"leaving", "marking"}
            \/ told'[call'[c].msg] # {}
  PROVE  ToldInv'
<1>1. \A c \in Calls : call[c].at \in {"leaving", "marking"} => call[c].msg \in Messages
  BY DEF ToldInv, Typed, CallKnows, Active
<1>2. ToldFirst'
  BY <1>1 DEF ToldInv, ToldFirst
<1>3. CompletedWasTold'
  BY DEF ToldInv, CompletedWasTold
<1>4. QED BY <1>2, <1>3 DEF ToldInv

LEMMA ToldStep == ToldInv /\ [Next]_vars => ToldInv'
<1> SUFFICES ASSUME ToldInv, [Next]_vars PROVE ToldInv'
  OBVIOUS
<1>0. Typed /\ Typed'
  BY StepTyped DEF ToldInv
<1>1. ASSUME NEW c \in Calls, Reply(c) PROVE ToldInv'
  <2>1. call[c].msg \in Messages
    BY <1>0, <1>1 DEF Reply, Typed, CallKnows, Active
  <2>2. told'[call[c].msg] # {} /\ (\A m \in Messages : told[m] \subseteq told'[m])
    BY <1>0, <1>1, <2>1 DEF Reply, Typed, TypeOK
  <2>3. call'[c].msg = call[c].msg /\ (\A d \in Calls : d # c => call'[d] = call[d])
    BY <1>0, <1>1 DEF Reply, MovesTo, Typed, TypeOK, Call
  <2>4. QED BY <1>0, <1>1, <2>2, <2>3, NothingUntold DEF Reply
<1>2. ASSUME NEW c \in Calls, MarkCompleted(c) \/ MarkFailed(c) \/ MarkRaises(c) PROVE ToldInv'
  <2>1. UNCHANGED told
    BY <1>2 DEF MarkCompleted, MarkFailed, MarkRaises
  <2>2. \A m \in Messages : dedup'[m] = "completed" => dedup[m] = "completed" \/ told[m] # {}
    BY <1>0, <1>2 DEF MarkCompleted, MarkFailed, MarkRaises, Typed, TypeOK, ToldInv, ToldFirst
  <2>3. call'[c].at \notin {"leaving", "marking"} /\ \A d \in Calls : d # c => call'[d] = call[d]
    BY <1>0, <1>2 DEF MarkCompleted, MarkFailed, MarkRaises, MovesTo, Free, Typed, TypeOK, Call
  <2>4. QED BY <1>0, <2>1, <2>2, <2>3, NothingUntold
<1>3. ASSUME NEW c \in Calls,
             \/ EnterLocal(c) \/ EnterRedis(c) \/ GiveUpLease(c) \/ Open(c) \/ Run(c)
             \/ StoreAnswer(c) \/ Raise(c) \/ LeaseRaises(c) \/ \E m \in Messages : Deliver(c, m)
      PROVE  ToldInv'
  <2>1. \A m \in Messages : told[m] \subseteq told'[m]
    BY <1>0, <1>3 DEF EnterLocal, EnterRedis, GiveUpLease, Open, Run, StoreAnswer, Raise, LeaseRaises,
         Deliver, Typed, TypeOK
  <2>2. \A m \in Messages : dedup'[m] = "completed" => dedup[m] = "completed"
    BY <1>0, <1>3 DEF EnterLocal, EnterRedis, GiveUpLease, Open, Run, StoreAnswer, Raise, LeaseRaises,
         Deliver, Typed, TypeOK
  <2>3. call'[c].at \notin {"leaving", "marking"} /\ \A d \in Calls : d # c => call'[d] = call[d]
    BY <1>0, <1>3 DEF EnterLocal, EnterRedis, GiveUpLease, Open, Run, StoreAnswer, Raise, LeaseRaises,
         Deliver, MovesTo, RepliesWith, Typed, TypeOK, Call
  <2>4. QED BY <1>0, <2>1, <2>2, <2>3, NothingUntold
<1>4. ASSUME NEW c \in Calls, Leave(c) PROVE ToldInv'
  <2>1. call'[c].msg = call[c].msg /\ call[c].at = "leaving"
        /\ \A d \in Calls : d # c => call'[d] = call[d]
    BY <1>0, <1>4 DEF Leave, MovesTo, Typed, TypeOK, Call
  <2>2. UNCHANGED <<dedup, told>>
    BY <1>4 DEF Leave
  <2>3. QED BY <1>0, <2>1, <2>2, NothingUntold
<1>5. ASSUME NEW S \in SUBSET Calls, Crash(S) PROVE ToldInv'
  <2>1. UNCHANGED told /\ \A m \in Messages : dedup'[m] = "completed" => dedup[m] = "completed"
    BY <1>5 DEF Crash
  <2>2. \A c \in Calls : call'[c] = Free \/ call'[c] = call[c]
    BY <1>5 DEF Crash
  <2>3. QED BY <1>0, <2>1, <2>2, NothingUntold DEF Free
<1>6. CASE LeaseEnds \/ (\E m \in Messages : Expire(m) \/ StartRaises(m)) \/ UNCHANGED vars
  <2>1. UNCHANGED <<call, told>>
    BY <1>6 DEF LeaseEnds, Expire, StartRaises, vars
  <2>2. \A m \in Messages : dedup'[m] = "completed" => dedup[m] = "completed"
    BY <1>0, <1>6 DEF LeaseEnds, Expire, StartRaises, vars, Typed, TypeOK
  <2>3. QED BY <1>0, <2>1, <2>2, NothingUntold
<1>7. QED BY <1>1, <1>2, <1>3, <1>4, <1>5, <1>6 DEF Next, Step

\* An event is marked completed only when the user was told about it.
THEOREM NothingClosedUntold == Spec => []CompletedWasTold
<1>1. Init => ToldInv
  BY InitTyped DEF ToldInv, ToldFirst, CompletedWasTold, Init, Free
<1>2. ToldInv => CompletedWasTold
  BY DEF ToldInv
<1>3. QED BY <1>1, <1>2, ToldStep, PTL DEF Spec

-----------------------------------------------------------------------------
(* Turns apart while leases last *)

\* Who is inside and has not outlived its lease owns it.
OwnsLease ==
  settings.lock = "redis" => \A c \in Calls : Inside(c) /\ c \notin lapsed => lease = c

LeaseInv == Typed /\ OwnsLease

\* The lease stays with whoever is inside.
LEMMA LeaseStays ==
  ASSUME LeaseInv, Typed', UNCHANGED <<settings, lease, lapsed>>,
         \A c \in Calls : Inside(c)' => Inside(c)
  PROVE  LeaseInv'
BY DEF LeaseInv, OwnsLease

\* A call that goes takes at most its own lease with it.
LEMMA LeaseLeft ==
  ASSUME LeaseInv, Typed', UNCHANGED settings, NEW S \in SUBSET Calls,
         lease' = lease \/ lease \in S, lapsed' = lapsed \ S,
         \A c \in Calls : Inside(c)' => Inside(c) /\ c \notin S
  PROVE  LeaseInv'
BY DEF LeaseInv, OwnsLease

LEMMA LeaseStep == LeaseInv /\ [Next]_vars => LeaseInv'
<1> SUFFICES ASSUME LeaseInv, [Next]_vars PROVE LeaseInv'
  OBVIOUS
<1>0. Typed /\ Typed'
  BY StepTyped DEF LeaseInv
<1>1. ASSUME NEW c \in Calls, EnterLocal(c) PROVE LeaseInv'
  BY <1>0, <1>1 DEF EnterLocal, LeaseInv, OwnsLease
<1>2. ASSUME NEW c \in Calls, EnterRedis(c) PROVE LeaseInv'
  <2>1. lease = None /\ lease' = c /\ UNCHANGED <<settings, lapsed>>
    BY <1>2 DEF EnterRedis, LeaseClaim
  <2>2. \A d \in Calls : d # c => call'[d] = call[d]
    BY <1>0, <1>2 DEF EnterRedis, MovesTo, Typed, TypeOK
  <2>3. \A d \in Calls : Inside(d) => d \in lapsed
    BY <1>2, <2>1, LockAssumption DEF EnterRedis, LeaseInv, OwnsLease
  <2>4. OwnsLease'
    BY <2>1, <2>2, <2>3 DEF OwnsLease, Inside
  <2>5. QED BY <1>0, <2>4 DEF LeaseInv
<1>3. ASSUME NEW c \in Calls, Leave(c) \/ Raise(c) PROVE LeaseInv'
  <2>1. Unlock(c) /\ UNCHANGED settings
    BY <1>3 DEF Leave, Raise, Unwind
  <2>2. call'[c].at \in {"marking", "failing"} /\ \A d \in Calls : d # c => call'[d] = call[d]
    BY <1>0, <1>3 DEF Leave, Raise, MovesTo, Typed, TypeOK, Call
  <2>3. CASE settings.lock = "local"
    BY <1>0, <2>1, <2>3 DEF LeaseInv, OwnsLease
  <2>4. CASE settings.lock # "local"
    <3>1. LeaseRelease(c)
      BY <2>1, <2>4 DEF Unlock
    <3>2. (lease' = lease \/ lease \in {c}) /\ lapsed' = lapsed \ {c}
      BY <3>1 DEF LeaseRelease
    <3>3. \A d \in Calls : Inside(d)' => Inside(d) /\ d \notin {c}
      BY <2>2 DEF Inside
    <3>4. QED BY <1>0, <2>1, <3>2, <3>3, LeaseLeft
  <2>5. QED BY <2>3, <2>4
<1>4. ASSUME NEW c \in Calls, LeaseRaises(c) PROVE LeaseInv'
  <2>1. UNCHANGED settings /\ call'[c].at = "failing" /\ \A d \in Calls : d # c => call'[d] = call[d]
    BY <1>0, <1>4 DEF LeaseRaises, MovesTo, Typed, TypeOK, Call
  <2>2. CASE call[c].at = "locking" /\ UNCHANGED lockVars
    BY <1>0, <2>1, <2>2, LeaseStays DEF lockVars, Inside
  <2>3. CASE call[c].at = "locking" /\ LeaseClaim(Stray)
    <3>1. lease = None /\ UNCHANGED lapsed
      BY <2>3 DEF LeaseClaim
    <3>2. settings.lock = "redis" => \A d \in Calls : Inside(d) => d \in lapsed
      BY <3>1, LockAssumption DEF LeaseInv, OwnsLease
    <3>3. OwnsLease'
      BY <2>1, <3>1, <3>2 DEF OwnsLease, Inside
    <3>4. QED BY <1>0, <3>3 DEF LeaseInv
  <2>4. CASE call[c].at = "leaving" /\ (LeaseAbandon(c) \/ LeaseRelease(c))
    <3>1. (lease' = lease \/ lease \in {c}) /\ lapsed' = lapsed \ {c}
      BY <2>4 DEF LeaseAbandon, LeaseRelease
    <3>2. \A d \in Calls : Inside(d)' => Inside(d) /\ d \notin {c}
      BY <2>1 DEF Inside
    <3>3. QED BY <1>0, <2>1, <3>1, <3>2, LeaseLeft
  <2>5. QED BY <1>4, <2>2, <2>3, <2>4 DEF LeaseRaises
<1>5. CASE LeaseEnds
  <2>1. UNCHANGED <<settings, call>> /\ lapsed' = lapsed \cup ({lease} \ {Stray})
    BY <1>5 DEF LeaseEnds, LeaseExpires
  <2>2. OwnsLease'
    BY <2>1, LockAssumption DEF LeaseInv, OwnsLease, Inside
  <2>3. QED BY <1>0, <2>2 DEF LeaseInv
<1>6. ASSUME NEW S \in SUBSET Calls, Crash(S) PROVE LeaseInv'
  <2>1. \A c \in Calls : call'[c] = IF c \in S THEN Free ELSE call[c]
    BY <1>6 DEF Crash
  <2>2. \A c \in Calls : Inside(c)' => Inside(c) /\ c \notin S
    BY <2>1 DEF Inside, Free
  <2>3. QED BY <1>0, <1>6, <2>2, LeaseLeft DEF Crash
<1>7. ASSUME NEW c \in Calls,
             \/ GiveUpLease(c) \/ Open(c) \/ Run(c) \/ StoreAnswer(c) \/ Reply(c)
             \/ MarkCompleted(c) \/ MarkFailed(c) \/ MarkRaises(c) \/ \E m \in Messages : Deliver(c, m)
      PROVE  LeaseInv'
  <2>1. UNCHANGED <<settings, lease, lapsed>>
    BY <1>7 DEF GiveUpLease, Open, Run, StoreAnswer, Reply, MarkCompleted, MarkFailed, MarkRaises,
         Deliver, lockVars
  <2>2. \A d \in Calls : Inside(d)' => Inside(d)
    BY <1>0, <1>7 DEF GiveUpLease, Open, Run, StoreAnswer, Reply, MarkCompleted, MarkFailed, MarkRaises,
         Deliver, MovesTo, RepliesWith, Free, Inside, Typed, TypeOK, Call
  <2>3. QED BY <1>0, <2>1, <2>2, LeaseStays
<1>8. CASE (\E m \in Messages : Expire(m) \/ StartRaises(m)) \/ UNCHANGED vars
  BY <1>0, <1>8, LeaseStays DEF Expire, StartRaises, vars, lockVars, Inside
<1>9. QED BY <1>1, <1>2, <1>3, <1>4, <1>5, <1>6, <1>7, <1>8 DEF Next, Step

\* Mutual exclusion of the turns of a user, as far as the lease carries it.
THEOREM LeaseExcludes == Spec => []LeaseKeepsTurnsApart
<1>1. Init => LeaseInv
  BY InitTyped DEF LeaseInv, OwnsLease, Init, Inside, Free
<1>2. LeaseInv => LeaseKeepsTurnsApart
  BY DEF LeaseInv, OwnsLease, LeaseKeepsTurnsApart
<1>3. QED BY <1>1, <1>2, LeaseStep, PTL DEF Spec
-----------------------------------------------------------------------------
(* The table of locks *)

\* An object that somebody is inside of is held by that call, which holds no
\* other, and the table holds none but such an object.
TableHeld ==
  /\ table # None => holder[table] # None
  /\ \A l \in Locks : holder[l] # None =>
       /\ settings.lock = "local" /\ Inside(holder[l])
       /\ \A k \in Locks : holder[k] = holder[l] => k = l

TableInv == Typed /\ TableHeld

\* Nobody who is inside comes out, and the table and its objects stay.
LEMMA TableStays ==
  ASSUME TableInv, Typed', UNCHANGED <<settings, table, holder>>,
         \A c \in Calls : Inside(c) => Inside(c)'
  PROVE  TableInv'
<1>1. \A l \in Locks : holder[l] \in Calls \cup {None}
  BY DEF TableInv, Typed, TypeOK, LockTypeOK
<1>2. QED BY <1>1 DEF TableInv, TableHeld

LEMMA TableEntered ==
  ASSUME TableInv, NEW c \in Calls, EnterLocal(c), Typed'
  PROVE  TableInv'
<1>1. /\ settings.lock = "local" /\ UNCHANGED settings
      /\ \A l \in Locks : holder[l] \in Calls \cup {None}
      /\ ~Inside(c)
  BY DEF TableInv, Typed, TypeOK, LockTypeOK, EnterLocal, Inside
<1>2. \A d \in Calls : Inside(d) => Inside(d)'
  BY <1>1 DEF TableInv, Typed, TypeOK, Call, EnterLocal, MovesTo, Inside
<1>3. \A l \in Locks : holder[l] # c
  BY <1>1, LockAssumption DEF TableInv, TableHeld
<1>4. CASE LocalWait(c)
  BY <1>1, <1>2, <1>4, TableStays DEF LocalWait
<1>5. ASSUME NEW l \in Locks, holder[l] = None, holder' = [holder EXCEPT ![l] = c], Inside(c)',
             table' = table \/ table' = l
      PROVE  TableInv'
  <2>1. /\ holder'[l] = c /\ \A k \in Locks : k # l => holder'[k] = holder[k]
        /\ c # None
    BY <1>5, LockAssumption DEF TableInv, Typed, TypeOK, LockTypeOK
  <2>2. table' \in Locks \cup {None}
    BY DEF Typed, TypeOK, LockTypeOK
  <2>3. table' # None => holder'[table'] # None
    BY <1>5, <2>1, <2>2 DEF TableInv, TableHeld
  <2>4. ASSUME NEW k \in Locks, NEW d, d = holder'[k], d # None
        PROVE  /\ settings'.lock = "local" /\ Inside(d)'
               /\ \A j \in Locks : holder'[j] = d => j = k
    <3>1. CASE k = l
      BY <1>1, <1>3, <1>5, <2>1, <2>4, <3>1
    <3>2. CASE k # l
      <4>1. d = holder[k] /\ d \in Calls /\ d # c
        BY <1>1, <1>3, <2>1, <2>4, <3>2
      <4>2. Inside(d) /\ \A j \in Locks : holder[j] = d => j = k
        BY <2>4, <4>1 DEF TableInv, TableHeld
      <4>3. Inside(d)'
        BY <1>2, <4>1, <4>2
      <4>4. QED BY <1>1, <2>1, <4>1, <4>2, <4>3
    <3>3. QED BY <3>1, <3>2
  <2>5. TableHeld'
    BY <2>3, <2>4 DEF TableHeld, Inside
  <2>6. QED BY <2>5 DEF TableInv
<1>6. CASE LocalAcquire(c) /\ MovesTo(c, "opening")
  <2>1. LockOfKey \in Locks
    BY <1>6, LockOfKeyTyped DEF LocalAcquire, TableInv, Typed, TypeOK
  <2>2. Inside(c)'
    BY <1>6 DEF TableInv, Typed, TypeOK, Call, MovesTo, Inside
  <2>3. QED BY <1>5, <1>6, <2>1, <2>2 DEF LocalAcquire, Available
<1>7. CASE LocalWake(c) /\ MovesTo(c, "opening")
  <2>1. Inside(c)'
    BY <1>7 DEF TableInv, Typed, TypeOK, Call, MovesTo, Inside
  <2>2. QED BY <1>5, <1>7, <2>1 DEF LocalWake
<1>8. QED BY <1>4, <1>6, <1>7 DEF EnterLocal

LEMMA TableLeft ==
  ASSUME TableInv, NEW c \in Calls, LocalRelease(c), Typed', UNCHANGED settings,
         \A d \in Calls : d # c => call'[d] = call[d]
  PROVE  TableInv'
<1>1. PICK l \in Locks :
        /\ holder[l] = c
        /\ holder' = [holder EXCEPT ![l] = None]
        /\ table' = IF table = l THEN None ELSE table
  BY DEF LocalRelease
<1>2. /\ holder'[l] = None /\ \A k \in Locks : k # l => holder'[k] = holder[k]
      /\ \A k \in Locks : holder[k] \in Calls \cup {None}
      /\ table \in Locks \cup {None}
  BY <1>1 DEF TableInv, Typed, TypeOK, LockTypeOK
<1>3. table' # None => holder'[table'] # None
  BY <1>1, <1>2 DEF TableInv, TableHeld
<1>4. \A k \in Locks : k # l => holder[k] # c
  BY <1>1, LockAssumption DEF TableInv, TableHeld
<1>5. ASSUME NEW k \in Locks, NEW d, d = holder'[k], d # None
      PROVE  /\ settings'.lock = "local" /\ Inside(d)'
             /\ \A j \in Locks : holder'[j] = d => j = k
  <2>1. k # l /\ d = holder[k] /\ d \in Calls /\ d # c
    BY <1>2, <1>4, <1>5
  <2>2. /\ settings.lock = "local" /\ Inside(d)
        /\ \A j \in Locks : holder[j] = d => j = k
    BY <1>5, <2>1 DEF TableInv, TableHeld
  <2>3. Inside(d)'
    BY <2>1, <2>2 DEF Inside
  <2>4. QED BY <1>2, <1>5, <2>1, <2>2, <2>3
<1>6. TableHeld'
  BY <1>3, <1>5 DEF TableHeld, Inside
<1>7. QED BY <1>6 DEF TableInv

LEMMA TableStep == TableInv /\ [Next]_vars => TableInv'
<1> SUFFICES ASSUME TableInv, [Next]_vars PROVE TableInv'
  OBVIOUS
<1>0. Typed /\ Typed'
  BY StepTyped DEF TableInv
<1>1. ASSUME NEW c \in Calls, EnterLocal(c) PROVE TableInv'
  BY <1>0, <1>1, TableEntered
<1>2. ASSUME NEW c \in Calls, Leave(c) \/ Raise(c) PROVE TableInv'
  <2>1. Unlock(c) /\ UNCHANGED settings /\ Inside(c)
    BY <1>2 DEF Leave, Raise, Unwind, Inside
  <2>2. \A d \in Calls : d # c => call'[d] = call[d]
    BY <1>0, <1>2 DEF Leave, Raise, MovesTo, Typed, TypeOK, Call
  <2>3. CASE settings.lock = "local"
    BY <1>0, <2>1, <2>2, <2>3, TableLeft DEF Unlock
  <2>4. CASE settings.lock # "local"
    <3>1. UNCHANGED <<table, holder>> /\ \A l \in Locks : holder[l] = None
      BY <2>1, <2>4 DEF Unlock, LeaseRelease, localVars, TableInv, TableHeld
    <3>2. QED BY <1>0, <2>1, <3>1 DEF TableInv, TableHeld
  <2>5. QED BY <2>3, <2>4
<1>3. ASSUME NEW c \in Calls, LeaseRaises(c) PROVE TableInv'
  <2>1. /\ UNCHANGED <<settings, table, holder>> /\ settings.lock = "redis"
    BY <1>3 DEF LeaseRaises, LeaseClaim, LeaseAbandon, LeaseRelease, lockVars, localVars
  <2>2. \A l \in Locks : holder[l] = None
    BY <2>1 DEF TableInv, TableHeld
  <2>3. QED BY <1>0, <2>1, <2>2 DEF TableInv, TableHeld
<1>4. ASSUME NEW S \in SUBSET Calls, Crash(S) PROVE TableInv'
  <2>1. CASE settings.lock = "local"
    BY <1>0, <1>4, <2>1 DEF Crash, LoseTable, TableInv, TableHeld
  <2>2. CASE settings.lock # "local"
    BY <1>0, <1>4, <2>2 DEF Crash, localVars, TableInv, TableHeld
  <2>3. QED BY <2>1, <2>2
<1>5. ASSUME NEW c \in Calls,
             \/ EnterRedis(c) \/ GiveUpLease(c) \/ Open(c) \/ Run(c) \/ StoreAnswer(c) \/ Reply(c)
             \/ MarkCompleted(c) \/ MarkFailed(c) \/ MarkRaises(c) \/ \E m \in Messages : Deliver(c, m)
      PROVE  TableInv'
  <2>1. UNCHANGED <<settings, table, holder>>
    BY <1>5 DEF EnterRedis, LeaseClaim, GiveUpLease, Open, Run, StoreAnswer, Reply, MarkCompleted,
         MarkFailed, MarkRaises, Deliver, lockVars, localVars
  <2>2. \A d \in Calls : Inside(d) => Inside(d)'
    BY <1>0, <1>5 DEF EnterRedis, GiveUpLease, Open, Run, StoreAnswer, Reply, MarkCompleted, MarkFailed,
         MarkRaises, Deliver, MovesTo, RepliesWith, Inside, Active, Typed, TypeOK, Call
  <2>3. QED BY <1>0, <2>1, <2>2, TableStays
<1>6. CASE LeaseEnds \/ (\E m \in Messages : Expire(m) \/ StartRaises(m)) \/ UNCHANGED vars
  BY <1>0, <1>6, TableStays DEF LeaseEnds, LeaseExpires, Expire, StartRaises, vars, lockVars, localVars, Inside
<1>7. QED BY <1>1, <1>2, <1>3, <1>4, <1>5, <1>6 DEF Next, Step

\* LocalConversationLockManager forgets a user nobody works for, however calls
\* came, waited, failed and went: its table does not grow with the users seen.
THEOREM TableForgetsIdle == Spec => []IdleLocksRemoved
<1>1. Init => TableInv
  BY InitTyped DEF TableInv, TableHeld, Init, LockInit
<1>2. TableInv => IdleLocksRemoved
  BY DEF TableInv, TableHeld, Typed, TypeOK, LockTypeOK, IdleLocksRemoved
<1>3. QED BY <1>1, <1>2, TableStep, PTL DEF Spec
=============================================================================
