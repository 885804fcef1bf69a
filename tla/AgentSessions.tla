--------------------------- MODULE AgentSessions ---------------------------
(***************************************************************************)
(* The Agent's conversations in the backend                                *)
(* (backend/app/services/agent_sessions.py): conversations, messages and   *)
(* snapshots in MySQL, the short-term state in Redis.                      *)
(*                                                                         *)
(* A call reads plainly from the read view that its authentication opened, *)
(* reads FOR UPDATE from the current rows, and writes Redis before its     *)
(* transaction commits.  Any call may fail or its process die until then:  *)
(* MySQL forgets what it did and Redis does not.                           *)
(***************************************************************************)
EXTENDS Integers, FiniteSets

CONSTANTS
    Users,
    Actions,            \* values of current_action
    Data,               \* contents of a state besides the next two
    EmptyData,          \* those of a new conversation
    Requests,           \* purchase requests a user may link
    ExternalIds,        \* external ids of messages
    Calls,              \* the calls that can be running at once
    MaxConversations,   \* bound on the conversations ever inserted
    None

ASSUME SessionAssumption ==
  /\ Actions # {}
  /\ EmptyData \in Data
  /\ MaxConversations \in Nat
  /\ None \notin Requests

VARIABLES
    rows,       \* the committed rows: conversation, snapshot, messages
    redis,      \* agent:session:{id}, or None
    lastId,     \* the auto-increment counter of agent_conversation
    call        \* the running calls

sessionVars == <<rows, redis, lastId, call>>

-----------------------------------------------------------------------------
Ids == 1..MaxConversations

State == [action : Actions, data : Data, request : Requests \cup {None}]

Conversation == [owner : Users, status : {"ACTIVE", "COMPLETED"}, request : Requests \cup {None}]

\* agent_session_state, one per conversation; the reason is part of state_data
Snapshot == [action : Actions, data : Data,
             reason : {"SESSION_CREATED", "SAVED", "SESSION_COMPLETED"}]

\* None is no row.
ASSUME RowAssumption == None \notin Conversation /\ None \notin Snapshot

Rows == [conversation : [Ids -> Conversation \cup {None}],
         snapshot : [Ids -> Snapshot \cup {None}],
         messages : SUBSET (Ids \X ExternalIds)]

Ops == {"active", "message", "get", "save", "snapshot", "complete"}

SessionInit ==
  /\ rows = [conversation |-> [i \in Ids |-> None], snapshot |-> [i \in Ids |-> None], messages |-> {}]
  /\ redis = [i \in Ids |-> None]
  /\ lastId = 0
  /\ call = [c \in Calls |-> None]

At(c, op, stage) == call[c] # None /\ call[c].op = op /\ call[c].stage = stage

\* lock_employee: held from there to the end of the transaction
EmployeeLocked(u) ==
  \E c \in Calls : call[c] # None /\ call[c].op = "active" /\ call[c].user = u /\ call[c].stage # "open"

\* _owned_conversation with for_update
Locking == {"message", "save", "snapshot", "complete"}

ConversationLocked(id) ==
  \E c \in Calls : call[c] # None /\ call[c].op \in Locking /\ call[c].id = id /\ call[c].stage # "open"

\* A bug: the conversation is read without FOR UPDATE.
OwnedUnlocked(c) ==
  LET row == rows.conversation[call[c].id] IN
  row # None /\ row.owner = call[c].user /\ row.status = "ACTIVE"

\* _owned_conversation and _require_active on the row it locks
OwnedActive(c) ==
  LET row == rows.conversation[call[c].id] IN
  /\ ~ConversationLocked(call[c].id)
  /\ row # None
  /\ row.owner = call[c].user
  /\ row.status = "ACTIVE"

\* What _get_or_restore_state finds: the state in Redis, else one rebuilt from
\* the snapshot in the read view and the request of the conversation row.
Cached(c, request) ==
  LET id == call[c].id
      s == call[c].view.snapshot[id]
  IN  IF redis[id] # None THEN redis[id]
      ELSE [action |-> s.action, data |-> s.data, request |-> request]

Restorable(c) == redis[call[c].id] # None \/ call[c].view.snapshot[call[c].id] # None

GoOn(c, stage) == call' = [call EXCEPT ![c].stage = stage]

Ended(c) == call' = [call EXCEPT ![c] = None]

-----------------------------------------------------------------------------
(* Any call *)

\* The rows of the read view that the call will read plainly
ReadView(op, id, x) ==
  [conversation |-> [i \in Ids |-> IF op = "active" \/ (op = "get" /\ i = id)
                                   THEN rows.conversation[i] ELSE None],
   snapshot |-> [i \in Ids |-> IF op = "active" \/ (op \in {"get", "snapshot", "complete"} /\ i = id)
                               THEN rows.snapshot[i] ELSE None],
   messages |-> rows.messages \cap {<<id, x>>}]

\* The authentication reads the employee: the read view is that of now.
Begin(c, op, u, id, state, x) ==
  /\ call[c] = None
  /\ call' = [call EXCEPT ![c] = [op |-> op, user |-> u, id |-> id, state |-> state, x |-> x,
                                  view |-> ReadView(op, id, x), stage |-> "open"]]
  /\ UNCHANGED <<rows, redis, lastId>>

\* An error, a timeout of the transaction, or the process dies.
Fail(c) ==
  /\ call[c] # None
  /\ Ended(c)
  /\ UNCHANGED <<rows, redis, lastId>>

\* The TTL runs out, or Redis loses the key.
Expire(id) ==
  /\ redis[id] # None
  /\ redis' = [redis EXCEPT ![id] = None]
  /\ UNCHANGED <<rows, lastId, call>>

-----------------------------------------------------------------------------
(* get_or_create_active *)

LockEmployee(c) ==
  /\ At(c, "active", "open")
  /\ ~EmployeeLocked(call[c].user)
  /\ GoOn(c, "locked")
  /\ UNCHANGED <<rows, redis, lastId>>

\* get_active_by_action, in the read view
Found(c) ==
  LET v == call[c].view IN
  {id \in Ids :
    /\ v.conversation[id] # None
    /\ v.conversation[id].owner = call[c].user
    /\ v.conversation[id].status = "ACTIVE"
    /\ v.snapshot[id] # None
    /\ v.snapshot[id].action = call[c].state.action}

\* No conversation is found: it is inserted with its first snapshot, and its
\* state is in Redis before the commit.
Insert(c) ==
  /\ At(c, "active", "locked")
  /\ Found(c) = {}
  /\ lastId < MaxConversations
  /\ lastId' = lastId + 1
  /\ redis' = [redis EXCEPT ![lastId + 1] =
                 [action |-> call[c].state.action, data |-> EmptyData, request |-> None]]
  /\ call' = [call EXCEPT ![c].stage = "inserted", ![c].id = lastId + 1]
  /\ UNCHANGED rows

\* A bug: the first snapshot is left to a later save.
InsertedWithoutSnapshot(r, id, u, action) ==
  [r EXCEPT !.conversation[id] = [owner |-> u, status |-> "ACTIVE", request |-> None]]

Inserted(r, id, u, action) ==
  [r EXCEPT
     !.conversation[id] = [owner |-> u, status |-> "ACTIVE", request |-> None],
     !.snapshot[id] = [action |-> action, data |-> EmptyData, reason |-> "SESSION_CREATED"]]

CommitInsert(c) ==
  /\ At(c, "active", "inserted")
  /\ rows' = Inserted(rows, call[c].id, call[c].user, call[c].state.action)
  /\ Ended(c)
  /\ UNCHANGED <<redis, lastId>>

\* A conversation is found: its state is read and written back.
ReadFound(c) ==
  /\ At(c, "active", "locked")
  /\ \E id \in Found(c) :
       LET d == [call[c] EXCEPT !.id = id]
           s == call[c].view.snapshot[id]
           request == call[c].view.conversation[id].request
       IN  call' = [call EXCEPT ![c] = [d EXCEPT !.stage = "read",
             !.state = IF redis[id] # None THEN redis[id]
                       ELSE [action |-> s.action, data |-> s.data, request |-> request]]]
  /\ UNCHANGED <<rows, redis, lastId>>

WriteFound(c) ==
  /\ At(c, "active", "read")
  /\ redis' = [redis EXCEPT ![call[c].id] = call[c].state]
  /\ Ended(c)
  /\ UNCHANGED <<rows, lastId>>

-----------------------------------------------------------------------------
(* add_message: under the row lock nothing else is visible until the commit *)

\* The duplicate is looked for in the read view; the UNIQUE constraint meets
\* one committed since.
AddMessage(c) ==
  LET m == <<call[c].id, call[c].x>> IN
  /\ At(c, "message", "open")
  /\ OwnedActive(c)
  /\ m \in rows.messages => m \in call[c].view.messages
  /\ rows' = [rows EXCEPT !.messages = @ \cup {m}]
  /\ Ended(c)
  /\ UNCHANGED <<redis, lastId>>

-----------------------------------------------------------------------------
(* get_state: no lock, the conversation is the one of the read view *)

GetState(c) ==
  LET row == call[c].view.conversation[call[c].id] IN
  /\ At(c, "get", "open")
  /\ row # None /\ row.owner = call[c].user /\ row.status = "ACTIVE"
  /\ Restorable(c)
  /\ IF redis[call[c].id] # None THEN Ended(c)
     ELSE call' = [call EXCEPT ![c].stage = "read", ![c].state = Cached(c, row.request)]
  /\ UNCHANGED <<rows, redis, lastId>>

\* The state restored goes back to Redis.
WriteRestored(c) ==
  /\ At(c, "get", "read")
  /\ redis' = [redis EXCEPT ![call[c].id] = call[c].state]
  /\ Ended(c)
  /\ UNCHANGED <<rows, lastId>>

-----------------------------------------------------------------------------
(* save_state *)

SaveState(c) ==
  /\ At(c, "save", "open")
  /\ OwnedActive(c)
  /\ redis' = [redis EXCEPT ![call[c].id] = call[c].state]
  /\ GoOn(c, "written")
  /\ UNCHANGED <<rows, lastId>>

CommitSave(c) ==
  /\ At(c, "save", "written")
  /\ rows' = [rows EXCEPT !.conversation[call[c].id].request = call[c].state.request]
  /\ Ended(c)
  /\ UNCHANGED <<redis, lastId>>

-----------------------------------------------------------------------------
(* save_snapshot and complete *)

\* The state is read under the lock; a restored one goes back to Redis.
ReadForSnapshot(c) ==
  /\ At(c, "snapshot", "open") \/ At(c, "complete", "open")
  /\ OwnedActive(c)
  /\ Restorable(c)
  /\ LET state == Cached(c, rows.conversation[call[c].id].request) IN
     /\ redis' = [redis EXCEPT ![call[c].id] = state]
     /\ call' = [call EXCEPT ![c].stage = "read",
          ![c].state = IF call[c].op = "complete" /\ call[c].state.request # None
                       THEN [state EXCEPT !.request = call[c].state.request] ELSE state]
  /\ UNCHANGED <<rows, lastId>>

\* _persist_snapshot loads the snapshot from the read view: a column set to what
\* it was there is not written.
Column(loaded, current, new) == IF new = loaded THEN current ELSE new

Persisted(r, c, reason) ==
  LET id == call[c].id
      state == call[c].state
      old == call[c].view.snapshot[id]
      now == r.snapshot[id]
  IN
  [r EXCEPT
     !.conversation[id].request = state.request,
     !.snapshot[id] =
        IF old = None
        THEN [action |-> state.action, data |-> state.data, reason |-> reason]
        ELSE [action |-> Column(old.action, now.action, state.action),
              data   |-> IF [d |-> state.data, r |-> reason] = [d |-> old.data, r |-> old.reason]
                         THEN now.data ELSE state.data,
              reason |-> IF [d |-> state.data, r |-> reason] = [d |-> old.data, r |-> old.reason]
                         THEN now.reason ELSE reason]]

\* The UNIQUE constraint on conversation_id
SnapshotFits(c) ==
  call[c].view.snapshot[call[c].id] = None => rows.snapshot[call[c].id] = None

CommitSnapshot(c) ==
  /\ At(c, "snapshot", "read")
  /\ SnapshotFits(c)
  /\ rows' = Persisted(rows, c, "SAVED")
  /\ Ended(c)
  /\ UNCHANGED <<redis, lastId>>

DeleteState(c) ==
  /\ At(c, "complete", "read")
  /\ SnapshotFits(c)
  /\ redis' = [redis EXCEPT ![call[c].id] = None]
  /\ GoOn(c, "deleted")
  /\ UNCHANGED <<rows, lastId>>

CommitComplete(c) ==
  /\ At(c, "complete", "deleted")
  /\ rows' = [Persisted(rows, c, "SESSION_COMPLETED") EXCEPT !.conversation[call[c].id].status = "COMPLETED"]
  /\ Ended(c)
  /\ UNCHANGED <<redis, lastId>>

-----------------------------------------------------------------------------
NoState == [action |-> CHOOSE a \in Actions : TRUE, data |-> EmptyData, request |-> None]

\* The calls a client makes, with the payloads that matter to them
BeginCall(c) ==
  \E u \in Users :
    \/ \E action \in Actions : Begin(c, "active", u, None, [NoState EXCEPT !.action = action], None)
    \/ \E id \in 1..lastId :
         \/ \E x \in ExternalIds : Begin(c, "message", u, id, NoState, x)
         \/ Begin(c, "get", u, id, NoState, None)
         \/ \E state \in State : Begin(c, "save", u, id, state, None)
         \/ Begin(c, "snapshot", u, id, NoState, None)
         \/ \E r \in Requests \cup {None} :
              Begin(c, "complete", u, id, [NoState EXCEPT !.request = r], None)

SessionNext ==
  \/ \E c \in Calls :
       \/ BeginCall(c) \/ Fail(c)
       \/ LockEmployee(c) \/ Insert(c) \/ CommitInsert(c) \/ ReadFound(c) \/ WriteFound(c)
       \/ AddMessage(c)
       \/ GetState(c) \/ WriteRestored(c)
       \/ SaveState(c) \/ CommitSave(c)
       \/ ReadForSnapshot(c) \/ CommitSnapshot(c) \/ DeleteState(c) \/ CommitComplete(c)
  \/ \E id \in Ids : Expire(id)

SessionSpec == SessionInit /\ [][SessionNext]_sessionVars

-----------------------------------------------------------------------------
(* Properties *)

SessionTypeOK ==
  /\ rows \in Rows
  /\ redis \in [Ids -> State \cup {None}]
  /\ lastId \in 0..MaxConversations
  /\ \A c \in Calls : call[c] # None => call[c].op \in Ops /\ call[c].view \in Rows

\* A completed conversation is closed: whatever was begun before it was
\* completed, no message, snapshot or request is written to it afterwards.
ClosedIsClosed ==
  [][\A id \in Ids :
       (rows.conversation[id] # None /\ rows.conversation[id].status = "COMPLETED") =>
         /\ rows'.conversation[id] = rows.conversation[id]
         /\ rows'.snapshot[id] = rows.snapshot[id]
         /\ \A x \in ExternalIds : <<id, x>> \in rows'.messages => <<id, x>> \in rows.messages]_sessionVars

\* A conversation survives the loss of its state: whatever fails and whatever
\* Redis loses, a committed conversation has a snapshot to be restored from, so
\* nobody is told SESSION_EXPIRED; and what is in MySQL belongs to a committed
\* conversation, also when the call that wrote Redis first was rolled back.
CanBeRestored ==
  \A id \in Ids :
    /\ rows.conversation[id] # None <=> rows.snapshot[id] # None
    /\ (\E x \in ExternalIds : <<id, x>> \in rows.messages) => rows.conversation[id] # None

-----------------------------------------------------------------------------
(* What the documents say and the code does not do *)

\* One employee has one active conversation for a current_action.
OneActivePerAction ==
  \A i, j \in Ids :
    (/\ rows.conversation[i] # None /\ rows.conversation[i].status = "ACTIVE"
     /\ rows.conversation[j] # None /\ rows.conversation[j].status = "ACTIVE"
     /\ rows.conversation[i].owner = rows.conversation[j].owner
     /\ rows.snapshot[i].action = rows.snapshot[j].action)
    => i = j

=============================================================================
