------------------------- MODULE AgentSessionsProofs -------------------------
(***************************************************************************)
(* Proofs about AgentSessions, for every value of its constants: the rows, *)
(* the state in Redis and the running calls keep their types, a committed  *)
(* conversation can always be restored, and a completed one is closed.     *)
(***************************************************************************)
EXTENDS AgentSessions, TLAPS

-----------------------------------------------------------------------------
(* The invariant.  The rows alone are not inductive: what a call does at its *)
(* commit is decided by what it saw before, so the invariant says what a     *)
(* running call may rely on.  A call that holds the lock of a conversation   *)
(* is alone with it and the conversation is active; a call that has          *)
(* inserted one has its id for itself.                                       *)

CallRecord ==
  [op : Ops, user : Users, id : Ids \cup {None}, state : State, x : ExternalIds \cup {None},
   view : Rows, stage : {"open", "locked", "inserted", "read", "written", "deleted"}]

\* r holds the row lock of its conversation.
Holding(r) == r.op \in Locking /\ r.stage # "open"

\* r has inserted its conversation and not committed it.
Inserting(r) == r.op = "active" /\ r.stage = "inserted"

CallFine(r) ==
  /\ r.op # "active" => r.id \in Ids
  /\ r.op = "message" => r.x \in ExternalIds
  /\ r.stage = "read" => r.id \in Ids
  /\ Inserting(r) => r.id \in 1..lastId /\ rows.conversation[r.id] = None
  /\ Holding(r) => rows.conversation[r.id] # None /\ rows.conversation[r.id].status = "ACTIVE"

\* No two calls hold, or have inserted, the same conversation.
Apart(r, s) == r.id = s.id => ~(Holding(r) /\ Holding(s)) /\ ~(Inserting(r) /\ Inserting(s))

Types ==
  /\ rows \in Rows
  /\ redis \in [Ids -> State \cup {None}]
  /\ lastId \in 0..MaxConversations
  /\ call \in [Calls -> CallRecord \cup {None}]

SessionInv ==
  /\ Types
  /\ \A c \in Calls : call[c] # None => CallFine(call[c])
  /\ \A c, d \in Calls : call[c] # None /\ call[d] # None /\ c # d => Apart(call[c], call[d])
  /\ \A i \in Ids : rows.conversation[i] # None => i <= lastId
  /\ CanBeRestored

LEMMA RowsFields ==
  ASSUME NEW r \in Rows, NEW i \in Ids
  PROVE  /\ r.conversation \in [Ids -> Conversation \cup {None}]
         /\ r.snapshot \in [Ids -> Snapshot \cup {None}]
         /\ r.messages \in SUBSET (Ids \X ExternalIds)
         /\ r.conversation[i] # None => r.conversation[i] \in Conversation
         /\ r.snapshot[i] # None => r.snapshot[i] \in Snapshot
  BY DEF Rows

LEMMA RecordFields ==
  ASSUME NEW r \in CallRecord
  PROVE  /\ r.op \in Ops /\ r.user \in Users /\ r.id \in Ids \cup {None} /\ r.state \in State
         /\ r.x \in ExternalIds \cup {None} /\ r.view \in Rows
  BY DEF CallRecord

LEMMA InitSessionInv == SessionInit => SessionInv
<1> SUFFICES ASSUME SessionInit PROVE SessionInv
  OBVIOUS
<1>1. rows \in Rows
  BY DEF SessionInit, Rows
<1>2. /\ redis \in [Ids -> State \cup {None}] /\ lastId \in 0..MaxConversations
      /\ call \in [Calls -> CallRecord \cup {None}]
  BY SessionAssumption DEF SessionInit
<1>3. \A i \in Ids : rows.conversation[i] = None /\ rows.snapshot[i] = None
  BY DEF SessionInit
<1>4. rows.messages = {}
  BY DEF SessionInit
<1>5. QED BY <1>1, <1>2, <1>3, <1>4 DEF SessionInv, Types, CanBeRestored, SessionInit

-----------------------------------------------------------------------------
(* The three ways a step can change the rows and the calls.                  *)

\* Call c goes on or ends, and the rows stay: what it becomes is fine, and
\* what it holds it held before or nobody does.
LEMMA CallMoves ==
  ASSUME SessionInv, NEW c \in Calls, NEW r \in CallRecord \cup {None},
         call' = [call EXCEPT ![c] = r], UNCHANGED <<rows, lastId>>,
         redis' \in [Ids -> State \cup {None}],
         r # None => CallFine(r),
         r # None => \A d \in Calls \ {c} : call[d] # None => Apart(r, call[d]) /\ Apart(call[d], r)
  PROVE  SessionInv'
<1>1. /\ call' \in [Calls -> CallRecord \cup {None}] /\ call'[c] = r
      /\ \A d \in Calls \ {c} : call'[d] = call[d]
  BY DEF SessionInv, Types
<1>2. Types'
  BY <1>1 DEF SessionInv, Types
<1>3. ASSUME NEW d \in Calls, call'[d] # None PROVE CallFine(call[d])' 
  BY <1>1, <1>3 DEF SessionInv, CallFine
<1>4. ASSUME NEW d \in Calls, NEW e \in Calls, call'[d] # None, call'[e] # None, d # e
      PROVE  Apart(call'[d], call'[e])
  BY <1>1, <1>4 DEF SessionInv
<1>5. CanBeRestored'
  BY DEF SessionInv, CanBeRestored
<1>6. QED BY <1>2, <1>3, <1>4, <1>5 DEF SessionInv

\* Call c ends with a commit that writes conversation id, for which it is alone,
\* or only messages of it.
LEMMA CallCommits ==
  ASSUME SessionInv, NEW c \in Calls, NEW id \in Ids,
         call' = [call EXCEPT ![c] = None], UNCHANGED <<redis, lastId>>,
         rows' \in Rows, id <= lastId,
         rows'.conversation[id] # None, rows'.snapshot[id] # None,
         \A i \in Ids \ {id} : /\ rows'.conversation[i] = rows.conversation[i]
                               /\ rows'.snapshot[i] = rows.snapshot[i],
         \A i \in Ids \ {id} : \A x \in ExternalIds :
           <<i, x>> \in rows'.messages => <<i, x>> \in rows.messages,
         \/ rows'.conversation = rows.conversation
         \/ \A d \in Calls \ {c} :
              call[d] # None /\ call[d].id = id => ~Holding(call[d]) /\ ~Inserting(call[d])
  PROVE  SessionInv'
<1>1. /\ call' \in [Calls -> CallRecord \cup {None}] /\ call'[c] = None
      /\ \A d \in Calls \ {c} : call'[d] = call[d]
  BY DEF SessionInv, Types
<1>2. Types'
  BY <1>1 DEF SessionInv, Types
<1>3. ASSUME NEW d \in Calls, call'[d] # None PROVE CallFine(call[d])'
  <2>1. d # c /\ call'[d] = call[d] /\ CallFine(call[d]) /\ call[d] \in CallRecord
    BY <1>1, <1>3 DEF SessionInv, Types
  <2>2. (Holding(call[d]) \/ Inserting(call[d])) => call[d].id \in Ids
    BY <2>1, SessionAssumption DEF CallFine, Holding, Locking, Inserting, Ids, SessionInv, Types
  <2>3. (Holding(call[d]) \/ Inserting(call[d])) =>
          rows'.conversation[call[d].id] = rows.conversation[call[d].id]
    BY <1>3, <2>1, <2>2
  <2>4. QED BY <2>1, <2>3 DEF CallFine
<1>4. ASSUME NEW d \in Calls, NEW e \in Calls, call'[d] # None, call'[e] # None, d # e
      PROVE  Apart(call'[d], call'[e])
  BY <1>1, <1>4 DEF SessionInv
<1>5. \A i \in Ids : rows'.conversation[i] # None => i <= lastId'
  BY DEF SessionInv
<1>6. CanBeRestored'
  BY DEF SessionInv, CanBeRestored
<1>7. QED BY <1>2, <1>3, <1>4, <1>5, <1>6 DEF SessionInv

\* A step of the environment: Redis loses a key.
LEMMA ExpireKeeps ==
  ASSUME SessionInv, NEW id \in Ids, Expire(id)
  PROVE  SessionInv'
<1>1. redis' \in [Ids -> State \cup {None}]
  BY DEF Expire, SessionInv, Types
<1>2. UNCHANGED <<rows, lastId, call>>
  BY DEF Expire
<1>3. Types' /\ CanBeRestored'
  BY <1>1, <1>2 DEF SessionInv, Types, CanBeRestored
<1>4. QED BY <1>2, <1>3 DEF SessionInv, CallFine

-----------------------------------------------------------------------------
(* One lemma for each kind of call *)

LEMMA BeginKeeps ==
  ASSUME SessionInv, NEW c \in Calls, NEW op \in Ops, NEW u \in Users, NEW id \in Ids \cup {None},
         NEW state \in State, NEW x \in ExternalIds \cup {None}, Begin(c, op, u, id, state, x),
         op # "active" => id \in Ids, op = "message" => x \in ExternalIds
  PROVE  SessionInv'
<1> DEFINE r == [op |-> op, user |-> u, id |-> id, state |-> state, x |-> x,
                 view |-> ReadView(op, id, x), stage |-> "open"]
<1>1. ReadView(op, id, x) \in Rows
  <2>1. [i \in Ids |-> IF op = "active" \/ (op = "get" /\ i = id) THEN rows.conversation[i] ELSE None]
          \in [Ids -> Conversation \cup {None}]
    BY RowsFields DEF SessionInv, Types
  <2>2. [i \in Ids |-> IF op = "active" \/ (op \in {"get", "snapshot", "complete"} /\ i = id)
                      THEN rows.snapshot[i] ELSE None]
          \in [Ids -> Snapshot \cup {None}]
    BY RowsFields DEF SessionInv, Types
  <2>3. rows.messages \cap {<<id, x>>} \in SUBSET (Ids \X ExternalIds)
    BY DEF SessionInv, Types, Rows
  <2>4. QED BY <2>1, <2>2, <2>3 DEF ReadView, Rows
<1>2. r \in CallRecord
  BY <1>1 DEF CallRecord
<1>3. /\ r.op = op /\ r.id = id /\ r.x = x /\ r.stage = "open"
      /\ call' = [call EXCEPT ![c] = r] /\ UNCHANGED <<rows, redis, lastId>>
  BY DEF Begin
<1> HIDE DEF r
<1>4. ~Holding(r) /\ ~Inserting(r) /\ CallFine(r)
  BY <1>3 DEF Holding, Inserting, CallFine
<1>5. QED BY <1>2, <1>3, <1>4, CallMoves DEF Apart, SessionInv, Types

LEMMA BeginCallKeeps ==
  ASSUME SessionInv, NEW c \in Calls, BeginCall(c)
  PROVE  SessionInv'
<1>1. NoState \in State /\ NoState.action \in Actions
  BY SessionAssumption DEF NoState, State
<1>2. /\ \A action \in Actions : [NoState EXCEPT !.action = action] \in State
      /\ \A r \in Requests \cup {None} : [NoState EXCEPT !.request = r] \in State
  BY <1>1 DEF State
<1>3. 1..lastId \subseteq Ids
  BY SessionAssumption DEF SessionInv, Types, Ids
<1>4. {"active", "message", "get", "save", "snapshot", "complete"} = Ops
  BY DEF Ops
<1>5. QED BY <1>1, <1>2, <1>3, <1>4, BeginKeeps DEF BeginCall

LEMMA FailKeeps ==
  ASSUME SessionInv, NEW c \in Calls, Fail(c)
  PROVE  SessionInv'
  BY CallMoves DEF Fail, Ended, SessionInv, Types

\* The steps of get_or_create_active that leave the rows alone.
LEMMA ActiveKeeps ==
  ASSUME SessionInv, NEW c \in Calls, LockEmployee(c) \/ ReadFound(c) \/ WriteFound(c)
  PROVE  SessionInv'
<1>1. call[c] \in CallRecord /\ call[c].op = "active"
  BY DEF LockEmployee, ReadFound, WriteFound, At, SessionInv, Types
<1>2. CASE LockEmployee(c)
  <2> DEFINE r == [call[c] EXCEPT !.stage = "locked"]
  <2>1. r \in CallRecord /\ r.stage = "locked" /\ r.op = "active"
    BY <1>1 DEF CallRecord
  <2>2. call' = [call EXCEPT ![c] = r] /\ UNCHANGED <<rows, redis, lastId>>
    BY <1>2 DEF LockEmployee, GoOn
  <2> HIDE DEF r
  <2>3. ~Holding(r) /\ ~Inserting(r) /\ CallFine(r)
    BY <2>1 DEF Holding, Locking, Inserting, CallFine
  <2>4. QED BY <2>1, <2>2, <2>3, CallMoves DEF Apart, SessionInv, Types
<1>3. CASE ReadFound(c)
  <2>1. PICK id \in Found(c) :
          LET d == [call[c] EXCEPT !.id = id]
              s == call[c].view.snapshot[id]
              request == call[c].view.conversation[id].request
          IN  call' = [call EXCEPT ![c] = [d EXCEPT !.stage = "read",
                !.state = IF redis[id] # None THEN redis[id]
                          ELSE [action |-> s.action, data |-> s.data, request |-> request]]]
    BY <1>3 DEF ReadFound
  <2> DEFINE s == call[c].view.snapshot[id]
             state == IF redis[id] # None THEN redis[id]
                      ELSE [action |-> s.action, data |-> s.data,
                            request |-> call[c].view.conversation[id].request]
             r == [[call[c] EXCEPT !.id = id] EXCEPT !.stage = "read", !.state = state]
  <2>2. /\ id \in Ids /\ call[c].view \in Rows
        /\ call[c].view.conversation[id] # None /\ call[c].view.snapshot[id] # None
    BY <1>1, <2>1, RecordFields DEF Found
  <2>3. call[c].view.conversation[id] \in Conversation /\ s \in Snapshot
    BY <2>2, RowsFields
  <2>4. state \in State
    BY <2>2, <2>3 DEF State, Conversation, Snapshot, SessionInv, Types
  <2>5. call' = [call EXCEPT ![c] = r] /\ UNCHANGED <<rows, redis, lastId>>
    BY <1>3, <2>1 DEF ReadFound
  <2> HIDE DEF state
  <2>6. r \in CallRecord /\ r.stage = "read" /\ r.op = "active" /\ r.id = id
    BY <1>1, <2>2, <2>4 DEF CallRecord
  <2> HIDE DEF r
  <2>7. ~Holding(r) /\ ~Inserting(r) /\ CallFine(r)
    BY <2>2, <2>6 DEF Holding, Locking, Inserting, CallFine
  <2>8. QED BY <2>5, <2>6, <2>7, CallMoves DEF Apart, SessionInv, Types
<1>4. CASE WriteFound(c)
  <2>1. call[c].state \in State
    BY <1>1, RecordFields
  <2>2. redis' \in [Ids -> State \cup {None}]
    BY <1>4, <2>1 DEF WriteFound, SessionInv, Types
  <2>3. QED BY <1>4, <2>2, CallMoves DEF WriteFound, Ended
<1>5. QED BY <1>2, <1>3, <1>4

LEMMA InsertKeeps ==
  ASSUME SessionInv, NEW c \in Calls, Insert(c)
  PROVE  SessionInv'
<1>0. PICK id, r : id = lastId + 1 /\ r = [call[c] EXCEPT !.stage = "inserted", !.id = id]
  OBVIOUS
<1>1. /\ call[c] \in CallRecord /\ call[c].op = "active" /\ call[c] # None
      /\ id \in Ids /\ lastId \in Nat /\ MaxConversations \in Nat
  BY <1>0, SessionAssumption DEF Insert, At, SessionInv, Types, Ids
<1>2. /\ r \in CallRecord /\ r.op = "active" /\ r.stage = "inserted" /\ r.id = id
  BY <1>0, <1>1 DEF CallRecord
<1>3. call' = [call EXCEPT ![c] = r] /\ rows' = rows /\ lastId' = id
  BY <1>0 DEF Insert
<1>4. redis' \in [Ids -> State \cup {None}]
  <2>1. [action |-> call[c].state.action, data |-> EmptyData, request |-> None] \in State
    BY <1>1, RecordFields, SessionAssumption DEF State
  <2>2. QED BY <2>1 DEF Insert, SessionInv, Types
<1>5. lastId' \in 0..MaxConversations
  BY <1>1, <1>3 DEF Ids
<1>6. /\ call' \in [Calls -> CallRecord \cup {None}] /\ call'[c] = r
      /\ \A d \in Calls \ {c} : call'[d] = call[d]
  BY <1>2, <1>3 DEF SessionInv, Types
<1>7. Types'
  BY <1>3, <1>4, <1>5, <1>6 DEF SessionInv, Types
<1>8. rows.conversation[id] = None
  BY <1>0, <1>1 DEF SessionInv
<1>9. CallFine(r)'
  BY <1>0, <1>1, <1>2, <1>3, <1>8 DEF CallFine, Inserting, Holding, Locking
<1>10. ASSUME NEW d \in Calls \ {c}, call[d] # None
       PROVE  CallFine(call[d])' /\ Apart(r, call[d]) /\ Apart(call[d], r)
  <2>1. CallFine(call[d])
    BY <1>10 DEF SessionInv
  <2>2. Inserting(call[d]) => call[d].id \in 1..lastId
    BY <2>1 DEF CallFine
  <2>3. CallFine(call[d])'
    BY <1>0, <1>1, <1>3, <1>6, <2>1 DEF CallFine
  <2>4. ~Holding(r)
    BY <1>2 DEF Holding, Locking
  <2>5. Inserting(call[d]) => call[d].id # r.id
    BY <1>0, <1>1, <1>2, <2>2
  <2>6. QED BY <2>3, <2>4, <2>5 DEF Apart
<1>11. \A i \in Ids : rows'.conversation[i] # None => i <= lastId'
  BY <1>0, <1>1, <1>3 DEF SessionInv, Ids
<1>12. CanBeRestored'
  BY <1>3 DEF SessionInv, CanBeRestored
<1>13. ASSUME NEW d \in Calls, call'[d] # None PROVE CallFine(call[d])'
  BY <1>6, <1>9, <1>10, <1>13
<1>14. ASSUME NEW d \in Calls, NEW e \in Calls, call'[d] # None, call'[e] # None, d # e
       PROVE  Apart(call'[d], call'[e])
  BY <1>6, <1>10, <1>14 DEF SessionInv
<1>15. QED BY <1>7, <1>11, <1>12, <1>13, <1>14 DEF SessionInv

LEMMA CommitInsertKeeps ==
  ASSUME SessionInv, NEW c \in Calls, CommitInsert(c)
  PROVE  SessionInv'
<1>1. PICK r \in CallRecord : r = call[c] /\ r # None /\ Inserting(r) /\ CallFine(r)
  BY DEF CommitInsert, At, Inserting, SessionInv, Types
<1>2. /\ r.user \in Users /\ r.state.action \in Actions
      /\ r.id \in Ids /\ r.id \in 1..lastId /\ rows.conversation[r.id] = None
  BY <1>1, RecordFields, SessionAssumption DEF CallFine, State, Ids, SessionInv, Types
<1> DEFINE row == [owner |-> r.user, status |-> "ACTIVE", request |-> None]
           snapshot == [action |-> r.state.action, data |-> EmptyData, reason |-> "SESSION_CREATED"]
<1>3. row \in Conversation /\ snapshot \in Snapshot
  BY <1>2, SessionAssumption DEF Conversation, Snapshot
<1>4. rows' = [rows EXCEPT !.conversation[r.id] = row, !.snapshot[r.id] = snapshot]
  BY <1>1 DEF CommitInsert, Inserted
<1> HIDE DEF row, snapshot
<1>5. /\ rows' \in Rows /\ rows'.messages = rows.messages
      /\ rows'.conversation[r.id] = row /\ rows'.snapshot[r.id] = snapshot
      /\ \A i \in Ids \ {r.id} : /\ rows'.conversation[i] = rows.conversation[i]
                                /\ rows'.snapshot[i] = rows.snapshot[i]
  BY <1>2, <1>3, <1>4 DEF SessionInv, Types, Rows
<1>6. rows'.conversation[r.id] # None /\ rows'.snapshot[r.id] # None
  BY <1>3, <1>5, RowAssumption
<1>7. ASSUME NEW d \in Calls \ {c}, call[d] # None, call[d].id = r.id
      PROVE  ~Holding(call[d]) /\ ~Inserting(call[d])
  BY <1>1, <1>2, <1>7 DEF SessionInv, CallFine, Apart
<1>8. r.id <= lastId
  BY <1>2
<1>9. QED BY <1>2, <1>5, <1>6, <1>7, <1>8, CallCommits DEF CommitInsert, Ended

\* What the checks under the row lock establish.
LEMMA OwnedFacts ==
  ASSUME SessionInv, NEW c \in Calls, call[c] # None, call[c].op \in Locking, OwnedActive(c)
  PROVE  /\ call[c] \in CallRecord /\ call[c].id \in Ids
         /\ rows.conversation[call[c].id] \in Conversation
         /\ rows.conversation[call[c].id] # None
         /\ rows.conversation[call[c].id].status = "ACTIVE"
         /\ \A d \in Calls : call[d] # None /\ call[d].id = call[c].id =>
              ~Holding(call[d]) /\ ~Inserting(call[d])
<1>1. call[c] \in CallRecord /\ call[c].id \in Ids
  BY DEF SessionInv, Types, CallFine, Locking
<1>2. /\ rows.conversation[call[c].id] # None
      /\ rows.conversation[call[c].id].status = "ACTIVE"
      /\ ~ConversationLocked(call[c].id)
  BY DEF OwnedActive
<1>3. rows.conversation[call[c].id] \in Conversation
  BY <1>1, <1>2, RowsFields DEF SessionInv, Types
<1>4. \A d \in Calls : call[d] # None /\ call[d].id = call[c].id =>
        ~Holding(call[d]) /\ ~Inserting(call[d])
  BY <1>2 DEF ConversationLocked, Holding, SessionInv, CallFine
<1>5. QED BY <1>1, <1>2, <1>3, <1>4

LEMMA AddMessageKeeps ==
  ASSUME SessionInv, NEW c \in Calls, AddMessage(c)
  PROVE  SessionInv'
<1>1. PICK r \in CallRecord : r = call[c] /\ r # None /\ r.op = "message" /\ CallFine(r)
  BY DEF AddMessage, At, SessionInv, Types
<1>2. r.id \in Ids /\ r.x \in ExternalIds /\ rows.conversation[r.id] # None
  BY <1>1, OwnedFacts DEF CallFine, AddMessage, Locking
<1>3. rows' = [rows EXCEPT !.messages = @ \cup {<<r.id, r.x>>}]
  BY <1>1 DEF AddMessage
<1>4. /\ rows' \in Rows /\ rows'.messages = rows.messages \cup {<<r.id, r.x>>}
      /\ rows'.conversation = rows.conversation /\ rows'.snapshot = rows.snapshot
  BY <1>2, <1>3 DEF SessionInv, Types, Rows
<1>5. /\ r.id <= lastId /\ rows.snapshot[r.id] # None
  BY <1>2 DEF SessionInv, CanBeRestored
<1>6. ASSUME NEW i \in Ids \ {r.id}, NEW x \in ExternalIds, <<i, x>> \in rows'.messages
      PROVE  <<i, x>> \in rows.messages
  BY <1>4, <1>6
<1>7. QED BY <1>2, <1>4, <1>5, <1>6, CallCommits DEF AddMessage, Ended

\* get_state
LEMMA GetKeeps ==
  ASSUME SessionInv, NEW c \in Calls, GetState(c) \/ WriteRestored(c)
  PROVE  SessionInv'
<1>1. /\ call[c] \in CallRecord /\ call[c] # None /\ call[c].op = "get" /\ CallFine(call[c])
  BY DEF GetState, WriteRestored, At, SessionInv, Types
<1>2. call[c].id \in Ids /\ call[c].view \in Rows /\ call[c].state \in State
  BY <1>1, RecordFields DEF CallFine
<1>3. CASE WriteRestored(c)
  <2>1. redis' \in [Ids -> State \cup {None}]
    BY <1>2, <1>3 DEF WriteRestored, SessionInv, Types
  <2>2. QED BY <1>3, <2>1, CallMoves DEF WriteRestored, Ended
<1>4. CASE GetState(c) /\ redis[call[c].id] # None
  BY <1>4, CallMoves DEF GetState, Ended, SessionInv, Types
<1>5. CASE GetState(c) /\ redis[call[c].id] = None
  <2> DEFINE id == call[c].id
             row == call[c].view.conversation[id]
             s == call[c].view.snapshot[id]
             state == [action |-> s.action, data |-> s.data, request |-> row.request]
             r == [call[c] EXCEPT !.stage = "read", !.state = state]
  <2>1. row # None /\ s # None
    BY <1>5 DEF GetState, Restorable
  <2>2. state \in State
    BY <1>2, <2>1, RowsFields DEF Conversation, Snapshot, State
  <2>3. call' = [call EXCEPT ![c] = r] /\ UNCHANGED <<rows, redis, lastId>>
    BY <1>5 DEF GetState, Cached
  <2> HIDE DEF state
  <2>4. r \in CallRecord /\ r.op = "get" /\ r.id = id /\ r.stage = "read"
    BY <1>1, <2>2 DEF CallRecord
  <2> HIDE DEF r
  <2>5. ~Holding(r) /\ ~Inserting(r) /\ CallFine(r)
    BY <1>2, <2>4 DEF Holding, Locking, Inserting, CallFine
  <2>6. QED BY <2>3, <2>4, <2>5, CallMoves DEF Apart, SessionInv, Types
<1>6. QED BY <1>3, <1>4, <1>5

\* A call takes the lock of its conversation.
LEMMA LockMoves ==
  ASSUME SessionInv, NEW c \in Calls, call[c] # None, call[c].op \in Locking, OwnedActive(c),
         NEW r \in CallRecord, r.op = call[c].op, r.id = call[c].id, r.x = call[c].x,
         call' = [call EXCEPT ![c] = r], UNCHANGED <<rows, lastId>>,
         redis' \in [Ids -> State \cup {None}]
  PROVE  SessionInv'
<1>1. /\ r.id \in Ids /\ rows.conversation[r.id] # None
      /\ rows.conversation[r.id].status = "ACTIVE"
      /\ \A d \in Calls \ {c} : call[d] # None /\ call[d].id = r.id =>
           ~Holding(call[d]) /\ ~Inserting(call[d])
  BY OwnedFacts
<1>2. CallFine(call[c]) /\ ~Inserting(r)
  BY DEF SessionInv, Inserting, Locking
<1>3. CallFine(r)
  BY <1>1, <1>2 DEF CallFine
<1>4. QED BY <1>1, <1>3, CallMoves DEF Apart

LEMMA SaveStateKeeps ==
  ASSUME SessionInv, NEW c \in Calls, SaveState(c)
  PROVE  SessionInv'
<1>1. /\ call[c] \in CallRecord /\ call[c] # None /\ call[c].op = "save"
      /\ call[c].op \in Locking /\ OwnedActive(c)
  BY DEF SaveState, At, Locking, SessionInv, Types
<1> DEFINE r == [call[c] EXCEPT !.stage = "written"]
<1>2. r \in CallRecord /\ r.op = call[c].op /\ r.id = call[c].id /\ r.x = call[c].x
  BY <1>1 DEF CallRecord
<1>3. redis' \in [Ids -> State \cup {None}]
  BY <1>1, RecordFields DEF SaveState, SessionInv, Types
<1>4. call' = [call EXCEPT ![c] = r] /\ UNCHANGED <<rows, lastId>>
  BY DEF SaveState, GoOn
<1> HIDE DEF r
<1>5. QED BY <1>1, <1>2, <1>3, <1>4, LockMoves

LEMMA ReadForSnapshotKeeps ==
  ASSUME SessionInv, NEW c \in Calls, ReadForSnapshot(c)
  PROVE  SessionInv'
<1>1. /\ call[c] \in CallRecord /\ call[c] # None /\ call[c].op \in {"snapshot", "complete"}
      /\ call[c].op \in Locking /\ OwnedActive(c)
  BY DEF ReadForSnapshot, At, Locking, SessionInv, Types
<1> DEFINE id == call[c].id
           row == rows.conversation[id]
           s == call[c].view.snapshot[id]
           state == Cached(c, row.request)
           final == IF call[c].op = "complete" /\ call[c].state.request # None
                    THEN [state EXCEPT !.request = call[c].state.request] ELSE state
           r == [call[c] EXCEPT !.stage = "read", !.state = final]
<1>2. /\ id \in Ids /\ row \in Conversation /\ call[c].view \in Rows /\ call[c].state \in State
      /\ redis[id] # None \/ s # None
  BY <1>1, OwnedFacts, RecordFields DEF ReadForSnapshot, Restorable
<1>3. state \in State
  <2>1. CASE redis[id] # None
    BY <1>2, <2>1 DEF Cached, SessionInv, Types
  <2>2. CASE redis[id] = None
    <3>1. s \in Snapshot
      BY <1>2, <2>2, RowsFields
    <3>2. [action |-> s.action, data |-> s.data, request |-> row.request] \in State
      BY <1>2, <3>1 DEF Conversation, Snapshot, State
    <3>3. QED BY <2>2, <3>2 DEF Cached
  <2>3. QED BY <2>1, <2>2
<1>4. redis' = [redis EXCEPT ![id] = state] /\ call' = [call EXCEPT ![c] = r]
      /\ UNCHANGED <<rows, lastId>>
  BY DEF ReadForSnapshot
<1> HIDE DEF state
<1>5. final \in State
  BY <1>2, <1>3 DEF State
<1> HIDE DEF final
<1>6. r \in CallRecord /\ r.op = call[c].op /\ r.id = call[c].id /\ r.x = call[c].x
  BY <1>1, <1>5 DEF CallRecord
<1>7. redis' \in [Ids -> State \cup {None}]
  BY <1>2, <1>3, <1>4 DEF SessionInv, Types
<1> HIDE DEF r
<1>8. QED BY <1>1, <1>4, <1>6, <1>7, LockMoves

\* What a call that holds the lock may rely on until it commits.
LEMMA HeldFacts ==
  ASSUME SessionInv, NEW c \in Calls, call[c] # None, Holding(call[c])
  PROVE  /\ call[c] \in CallRecord /\ CallFine(call[c]) /\ ~Inserting(call[c])
         /\ call[c].id \in Ids /\ call[c].id <= lastId
         /\ rows.conversation[call[c].id] \in Conversation
         /\ rows.conversation[call[c].id].status = "ACTIVE"
         /\ rows.snapshot[call[c].id] \in Snapshot
         /\ \A d \in Calls \ {c} : call[d] # None /\ call[d].id = call[c].id =>
              ~Holding(call[d]) /\ ~Inserting(call[d])
<1>1. /\ call[c] \in CallRecord /\ CallFine(call[c]) /\ ~Inserting(call[c])
      /\ call[c].id \in Ids
  BY DEF SessionInv, Types, CallFine, Holding, Locking, Inserting
<1>2. rows.conversation[call[c].id] # None /\ rows.conversation[call[c].id].status = "ACTIVE"
  BY <1>1 DEF CallFine
<1>3. rows.snapshot[call[c].id] # None /\ call[c].id <= lastId
  BY <1>1, <1>2 DEF SessionInv, CanBeRestored
<1>4. rows.conversation[call[c].id] \in Conversation /\ rows.snapshot[call[c].id] \in Snapshot
  BY <1>1, <1>2, <1>3, RowsFields DEF SessionInv, Types
<1>5. ASSUME NEW d \in Calls \ {c}, call[d] # None, call[d].id = call[c].id
      PROVE  ~Holding(call[d]) /\ ~Inserting(call[d])
  BY <1>1, <1>2, <1>5 DEF SessionInv, CallFine, Apart
<1>6. QED BY <1>1, <1>2, <1>3, <1>4, <1>5

LEMMA CommitSaveKeeps ==
  ASSUME SessionInv, NEW c \in Calls, CommitSave(c)
  PROVE  SessionInv'
<1>1. call[c] # None /\ Holding(call[c])
  BY DEF CommitSave, At, Holding, Locking
<1>2. PICK id, row, request :
        /\ id = call[c].id /\ row = rows.conversation[id] /\ request = call[c].state.request
        /\ id \in Ids /\ row \in Conversation /\ request \in Requests \cup {None}
  BY <1>1, HeldFacts, RecordFields DEF State
<1>3. rows' = [rows EXCEPT !.conversation[id].request = request]
  BY <1>2 DEF CommitSave
<1>4. [row EXCEPT !.request = request] \in Conversation
  BY <1>2 DEF Conversation
<1>5. /\ rows' \in Rows /\ rows'.messages = rows.messages /\ rows'.snapshot = rows.snapshot
      /\ rows'.conversation[id] = [row EXCEPT !.request = request]
      /\ \A i \in Ids \ {id} : rows'.conversation[i] = rows.conversation[i]
  BY <1>2, <1>3, <1>4 DEF SessionInv, Types, Rows
<1>6. rows'.conversation[id] # None /\ rows'.snapshot[id] # None
  BY <1>1, <1>2, <1>4, <1>5, HeldFacts, RowAssumption
<1>7. QED BY <1>1, <1>2, <1>5, <1>6, HeldFacts, CallCommits DEF CommitSave, Ended

LEMMA DeleteStateKeeps ==
  ASSUME SessionInv, NEW c \in Calls, DeleteState(c)
  PROVE  SessionInv'
<1>1. call[c] # None /\ Holding(call[c]) /\ call[c].op = "complete"
  BY DEF DeleteState, At, Holding, Locking
<1>2. PICK r : r = [call[c] EXCEPT !.stage = "deleted"]
  OBVIOUS
<1>3. /\ r \in CallRecord /\ r.op = "complete" /\ r.id = call[c].id /\ r.x = call[c].x
      /\ r.stage = "deleted"
  BY <1>1, <1>2, HeldFacts DEF CallRecord
<1>4. call' = [call EXCEPT ![c] = r] /\ UNCHANGED <<rows, lastId>>
  BY <1>2 DEF DeleteState, GoOn
<1>5. redis' \in [Ids -> State \cup {None}]
  BY DEF DeleteState, SessionInv, Types
<1>6. CallFine(r) /\ ~Inserting(r)
  BY <1>1, <1>3, HeldFacts DEF CallFine, Holding, Inserting
<1>7. QED BY <1>1, <1>3, <1>4, <1>5, <1>6, HeldFacts, CallMoves DEF Apart

\* _persist_snapshot writes one conversation that exists, and its snapshot.
LEMMA PersistedFacts ==
  ASSUME SessionInv, NEW c \in Calls, call[c] # None, Holding(call[c]),
         NEW reason \in {"SAVED", "SESSION_COMPLETED"}
  PROVE  LET r == Persisted(rows, c, reason) IN
         /\ r \in Rows /\ r.messages = rows.messages
         /\ r.conversation[call[c].id] =
              [rows.conversation[call[c].id] EXCEPT !.request = call[c].state.request]
         /\ r.conversation[call[c].id] \in Conversation
         /\ r.snapshot[call[c].id] \in Snapshot
         /\ \A i \in Ids \ {call[c].id} : /\ r.conversation[i] = rows.conversation[i]
                                         /\ r.snapshot[i] = rows.snapshot[i]
<1>1. PICK id, row, state, old, now :
        /\ id = call[c].id /\ row = rows.conversation[id] /\ state = call[c].state
        /\ old = call[c].view.snapshot[id] /\ now = rows.snapshot[id]
        /\ id \in Ids /\ row \in Conversation /\ state \in State
        /\ now \in Snapshot /\ old \in Snapshot \cup {None}
  BY HeldFacts, RecordFields, RowsFields
<1>2. PICK snapshot :
        snapshot = IF old = None
                   THEN [action |-> state.action, data |-> state.data, reason |-> reason]
                   ELSE [action |-> Column(old.action, now.action, state.action),
                         data   |-> IF [d |-> state.data, r |-> reason] = [d |-> old.data, r |-> old.reason]
                                    THEN now.data ELSE state.data,
                         reason |-> IF [d |-> state.data, r |-> reason] = [d |-> old.data, r |-> old.reason]
                                    THEN now.reason ELSE reason]
  OBVIOUS
<1>3. snapshot \in Snapshot
  BY <1>1, <1>2 DEF Snapshot, State, Column
<1>4. PICK request : request = state.request /\ request \in Requests \cup {None}
  BY <1>1 DEF State
<1>5. PICK r : /\ r = Persisted(rows, c, reason)
               /\ r = [rows EXCEPT !.conversation[id].request = request, !.snapshot[id] = snapshot]
  BY <1>1, <1>2, <1>4 DEF Persisted
<1>6. [row EXCEPT !.request = request] \in Conversation
  BY <1>1, <1>4 DEF Conversation
<1>7. /\ r.conversation = [rows.conversation EXCEPT ![id] = [row EXCEPT !.request = request]]
      /\ r.snapshot = [rows.snapshot EXCEPT ![id] = snapshot]
      /\ r.messages = rows.messages
      /\ r = [conversation |-> r.conversation, snapshot |-> r.snapshot, messages |-> r.messages]
  BY <1>1, <1>5 DEF SessionInv, Types, Rows
<1>8. /\ r \in Rows /\ r.messages = rows.messages
      /\ r.conversation[id] = [row EXCEPT !.request = request] /\ r.snapshot[id] = snapshot
      /\ \A i \in Ids \ {id} : /\ r.conversation[i] = rows.conversation[i]
                               /\ r.snapshot[i] = rows.snapshot[i]
  BY <1>1, <1>3, <1>6, <1>7 DEF SessionInv, Types, Rows
<1>9. QED BY <1>1, <1>3, <1>4, <1>5, <1>6, <1>8

LEMMA CommitSnapshotKeeps ==
  ASSUME SessionInv, NEW c \in Calls, CommitSnapshot(c)
  PROVE  SessionInv'
<1>1. /\ call[c] # None /\ Holding(call[c]) /\ rows' = Persisted(rows, c, "SAVED")
      /\ call' = [call EXCEPT ![c] = None] /\ UNCHANGED <<redis, lastId>>
  BY DEF CommitSnapshot, At, Holding, Locking, Ended
<1>2. PICK id : id = call[c].id
  OBVIOUS
<1>3. /\ rows' \in Rows /\ rows'.messages = rows.messages
      /\ rows'.conversation[id] # None /\ rows'.snapshot[id] # None
      /\ \A i \in Ids \ {id} : /\ rows'.conversation[i] = rows.conversation[i]
                               /\ rows'.snapshot[i] = rows.snapshot[i]
  BY <1>1, <1>2, PersistedFacts, RowAssumption
<1>4. QED BY <1>1, <1>2, <1>3, HeldFacts, CallCommits

LEMMA CommitCompleteKeeps ==
  ASSUME SessionInv, NEW c \in Calls, CommitComplete(c)
  PROVE  SessionInv'
<1>1. PICK r : /\ call[c] # None /\ Holding(call[c]) /\ r = Persisted(rows, c, "SESSION_COMPLETED")
               /\ call' = [call EXCEPT ![c] = None] /\ UNCHANGED <<redis, lastId>>
               /\ rows' = [r EXCEPT !.conversation[call[c].id].status = "COMPLETED"]
  BY DEF CommitComplete, At, Holding, Locking, Ended
<1>2. PICK id : id = call[c].id /\ id \in Ids
  BY <1>1, HeldFacts
<1>3. /\ r \in Rows /\ r.messages = rows.messages
      /\ r.conversation[id] \in Conversation /\ r.snapshot[id] \in Snapshot
      /\ \A i \in Ids \ {id} : /\ r.conversation[i] = rows.conversation[i]
                               /\ r.snapshot[i] = rows.snapshot[i]
  BY <1>1, <1>2, PersistedFacts
<1>4. [r.conversation[id] EXCEPT !.status = "COMPLETED"] \in Conversation
  BY <1>3 DEF Conversation
<1>5. /\ rows' \in Rows /\ rows'.messages = r.messages /\ rows'.snapshot = r.snapshot
      /\ rows'.conversation[id] = [r.conversation[id] EXCEPT !.status = "COMPLETED"]
      /\ \A i \in Ids \ {id} : rows'.conversation[i] = r.conversation[i]
  BY <1>1, <1>2, <1>3, <1>4 DEF Rows
<1>6. rows'.conversation[id] # None /\ rows'.snapshot[id] # None
  BY <1>3, <1>4, <1>5, RowAssumption
<1>7. /\ rows'.messages = rows.messages
      /\ \A i \in Ids \ {id} : /\ rows'.conversation[i] = rows.conversation[i]
                               /\ rows'.snapshot[i] = rows.snapshot[i]
  BY <1>3, <1>5
<1>8. /\ id <= lastId
      /\ \A d \in Calls \ {c} : call[d] # None /\ call[d].id = id =>
           ~Holding(call[d]) /\ ~Inserting(call[d])
  BY <1>1, <1>2, HeldFacts
<1>9. QED BY <1>1, <1>2, <1>5, <1>6, <1>7, <1>8, CallCommits

-----------------------------------------------------------------------------
(* The invariant is inductive.                                               *)

LEMMA SessionInductive == SessionInv /\ [SessionNext]_sessionVars => SessionInv'
<1> SUFFICES ASSUME SessionInv, [SessionNext]_sessionVars PROVE SessionInv'
  OBVIOUS
<1>1. ASSUME NEW c \in Calls,
             \/ BeginCall(c) \/ Fail(c)
             \/ LockEmployee(c) \/ Insert(c) \/ CommitInsert(c) \/ ReadFound(c) \/ WriteFound(c)
             \/ AddMessage(c)
             \/ GetState(c) \/ WriteRestored(c)
      PROVE  SessionInv'
  BY <1>1, BeginCallKeeps, FailKeeps, ActiveKeeps, InsertKeeps, CommitInsertKeeps,
     AddMessageKeeps, GetKeeps
<1>2. ASSUME NEW c \in Calls,
             \/ SaveState(c) \/ CommitSave(c)
             \/ ReadForSnapshot(c) \/ CommitSnapshot(c) \/ DeleteState(c) \/ CommitComplete(c)
      PROVE  SessionInv'
  BY <1>2, SaveStateKeeps, CommitSaveKeeps, ReadForSnapshotKeeps, CommitSnapshotKeeps,
     DeleteStateKeeps, CommitCompleteKeeps
<1>3. ASSUME NEW id \in Ids, Expire(id) PROVE SessionInv'
  BY <1>3, ExpireKeeps
<1>4. CASE UNCHANGED sessionVars
  BY <1>4 DEF sessionVars, SessionInv, Types, CallFine, CanBeRestored
<1>5. QED BY <1>1, <1>2, <1>3, <1>4 DEF SessionNext

LEMMA SessionInvHolds == SessionSpec => []SessionInv
  BY InitSessionInv, SessionInductive, PTL DEF SessionSpec

\* The rows of MySQL, the states in Redis and the running calls of
\* agent_sessions.py keep their types.
THEOREM SessionsTyped == SessionSpec => []SessionTypeOK
<1>1. SessionInv => SessionTypeOK
  BY RecordFields DEF SessionInv, Types, SessionTypeOK
<1>2. QED BY <1>1, SessionInvHolds, PTL

\* _get_or_restore_state always finds a snapshot of a committed conversation,
\* whatever fails between the write to Redis and the commit.
THEOREM SessionsRestorable == SessionSpec => []CanBeRestored
<1>1. SessionInv => CanBeRestored
  BY DEF SessionInv
<1>2. QED BY <1>1, SessionInvHolds, PTL

-----------------------------------------------------------------------------
(* A completed conversation is closed.  Every commit is to a conversation    *)
(* that its call holds, which is active, or has inserted, which is not yet   *)
(* there.                                                                    *)

\* The rows of all conversations but id are what they were.
OnlyWrites(id) ==
  /\ \A i \in Ids \ {id} : /\ rows'.conversation[i] = rows.conversation[i]
                           /\ rows'.snapshot[i] = rows.snapshot[i]
  /\ \A i \in Ids \ {id}, x \in ExternalIds : <<i, x>> \in rows'.messages => <<i, x>> \in rows.messages

\* Conversation id is one that no commit has closed.
Open(id) == rows.conversation[id] = None \/ rows.conversation[id].status = "ACTIVE"

LEMMA CommitsWriteOpen ==
  ASSUME SessionInv, [SessionNext]_sessionVars
  PROVE  rows' = rows \/ \E id \in Ids : Open(id) /\ OnlyWrites(id)
<1>1. ASSUME NEW c \in Calls, CommitInsert(c)
      PROVE  Open(call[c].id) /\ OnlyWrites(call[c].id) /\ call[c].id \in Ids
  <2>1. PICK id : id = call[c].id /\ id \in Ids /\ rows.conversation[id] = None
    BY <1>1, SessionAssumption DEF CommitInsert, At, Inserting, CallFine, SessionInv, Types, Ids
  <2>2. rows' = Inserted(rows, id, call[c].user, call[c].state.action)
    BY <1>1, <2>1 DEF CommitInsert
  <2>3. /\ rows'.messages = rows.messages
        /\ \A i \in Ids \ {id} : /\ rows'.conversation[i] = rows.conversation[i]
                                 /\ rows'.snapshot[i] = rows.snapshot[i]
    BY <2>1, <2>2 DEF Inserted, SessionInv, Types, Rows
  <2>4. QED BY <2>1, <2>3 DEF Open, OnlyWrites
<1>2. ASSUME NEW c \in Calls, AddMessage(c)
      PROVE  Open(call[c].id) /\ OnlyWrites(call[c].id) /\ call[c].id \in Ids
  <2>1. /\ call[c].id \in Ids /\ rows.conversation[call[c].id].status = "ACTIVE"
    BY <1>2, OwnedFacts DEF AddMessage, At, Locking
  <2>2. PICK m : m = <<call[c].id, call[c].x>>
    OBVIOUS
  <2>3. rows' = [rows EXCEPT !.messages = @ \cup {m}]
    BY <1>2, <2>2 DEF AddMessage
  <2>4. /\ rows'.conversation = rows.conversation /\ rows'.snapshot = rows.snapshot
        /\ rows'.messages = rows.messages \cup {m}
    BY <2>3 DEF SessionInv, Types, Rows
  <2>5. QED BY <2>1, <2>2, <2>4 DEF Open, OnlyWrites
<1>3. ASSUME NEW c \in Calls, CommitSave(c)
      PROVE  Open(call[c].id) /\ OnlyWrites(call[c].id) /\ call[c].id \in Ids
  <2>1. PICK id : id = call[c].id /\ id \in Ids /\ rows.conversation[id].status = "ACTIVE"
    BY <1>3, HeldFacts DEF CommitSave, At, Holding, Locking
  <2>2. rows' = [rows EXCEPT !.conversation[id].request = call[c].state.request]
    BY <1>3, <2>1 DEF CommitSave
  <2>3. /\ rows'.messages = rows.messages /\ rows'.snapshot = rows.snapshot
        /\ \A i \in Ids \ {id} : rows'.conversation[i] = rows.conversation[i]
    BY <2>1, <2>2 DEF SessionInv, Types, Rows
  <2>4. QED BY <2>1, <2>3 DEF Open, OnlyWrites
<1>4. ASSUME NEW c \in Calls, CommitSnapshot(c)
      PROVE  Open(call[c].id) /\ OnlyWrites(call[c].id) /\ call[c].id \in Ids
  <2>1. call[c] # None /\ Holding(call[c]) /\ rows' = Persisted(rows, c, "SAVED")
    BY <1>4 DEF CommitSnapshot, At, Holding, Locking
  <2>2. call[c].id \in Ids /\ rows.conversation[call[c].id].status = "ACTIVE"
    BY <2>1, HeldFacts
  <2>3. QED BY <2>1, <2>2, PersistedFacts DEF Open, OnlyWrites
<1>5. ASSUME NEW c \in Calls, CommitComplete(c)
      PROVE  Open(call[c].id) /\ OnlyWrites(call[c].id) /\ call[c].id \in Ids
  <2>1. PICK r : /\ call[c] # None /\ Holding(call[c]) /\ r = Persisted(rows, c, "SESSION_COMPLETED")
                 /\ rows' = [r EXCEPT !.conversation[call[c].id].status = "COMPLETED"]
    BY <1>5 DEF CommitComplete, At, Holding, Locking
  <2>2. PICK id : id = call[c].id /\ id \in Ids /\ rows.conversation[id].status = "ACTIVE"
    BY <2>1, HeldFacts
  <2>3. /\ r \in Rows /\ r.messages = rows.messages
        /\ \A i \in Ids \ {id} : /\ r.conversation[i] = rows.conversation[i]
                                 /\ r.snapshot[i] = rows.snapshot[i]
    BY <2>1, <2>2, PersistedFacts
  <2>4. /\ rows'.messages = r.messages /\ rows'.snapshot = r.snapshot
        /\ \A i \in Ids \ {id} : rows'.conversation[i] = r.conversation[i]
    BY <2>1, <2>2, <2>3 DEF Rows
  <2>5. QED BY <2>2, <2>3, <2>4 DEF Open, OnlyWrites
<1>6. ASSUME NEW c \in Calls,
             \/ BeginCall(c) \/ Fail(c) \/ LockEmployee(c) \/ Insert(c) \/ ReadFound(c)
             \/ WriteFound(c) \/ GetState(c) \/ WriteRestored(c) \/ SaveState(c)
             \/ ReadForSnapshot(c) \/ DeleteState(c)
      PROVE  rows' = rows
  BY <1>6 DEF BeginCall, Begin, Fail, LockEmployee, Insert, ReadFound, WriteFound, GetState,
     WriteRestored, SaveState, ReadForSnapshot, DeleteState
<1>7. ASSUME NEW id \in Ids, Expire(id) PROVE rows' = rows
  BY <1>7 DEF Expire
<1>8. CASE UNCHANGED sessionVars
  BY <1>8 DEF sessionVars
<1>9. QED BY <1>1, <1>2, <1>3, <1>4, <1>5, <1>6, <1>7, <1>8 DEF SessionNext

\* Once complete has committed, no message, snapshot or request is written to
\* the conversation, by any call, however long ago that call began
\* (_require_active under the row lock of _owned_conversation).
THEOREM CompletedIsClosed == SessionSpec => ClosedIsClosed
<1>1. SessionInv /\ [SessionNext]_sessionVars =>
        [\A id \in Ids :
           (rows.conversation[id] # None /\ rows.conversation[id].status = "COMPLETED") =>
             /\ rows'.conversation[id] = rows.conversation[id]
             /\ rows'.snapshot[id] = rows.snapshot[id]
             /\ \A x \in ExternalIds : <<id, x>> \in rows'.messages => <<id, x>> \in rows.messages]_sessionVars
  BY CommitsWriteOpen DEF Open, OnlyWrites
<1>2. QED BY <1>1, SessionInvHolds, PTL DEF SessionSpec, ClosedIsClosed
=============================================================================
