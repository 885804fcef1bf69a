---------------------------- MODULE FakeBackend ----------------------------
(***************************************************************************)
(* FakeBackendClient (adapters/backend/fake_client.py): the backend in     *)
(* memory that the Feishu debugging mode and the Agent's tests run         *)
(* against.  One requirement from its draft on, and the Agent's            *)
(* conversations.                                                          *)
(*                                                                         *)
(* No method awaits anything, so each runs at once; the callers interleave *)
(* and a caller may hold an old version.  A call that raises (an injected  *)
(* failure, an unmapped user, a conflict) changes nothing and is the guard *)
(* of its action.  Groups of form fields are abstracted to whether the     *)
(* required ones are all filled: a patch may fill and may clear fields.    *)
(***************************************************************************)
EXTENDS Integers, Sequences, FiniteSets

CONSTANTS
    Users,              \* the configured employees
    RolesOf,            \* [Users -> SUBSET Roles]
    BuildingUsers,      \* those of the building of the requirement
    Candidates,         \* handler_candidates, of all roles together
    Items,              \* request_item_ids
    Quantities,         \* positive quantities
    CurrentActions,     \* values of current_action
    ExternalIds,        \* external ids of messages
    MaxVersion,         \* bound on the version
    MaxConversations,   \* bound on the conversations
    None

\* Whoever acts or is handed on to is an employee.
ASSUME FakeAssumption == None \notin Users \cup Candidates /\ Quantities \subseteq Nat \ {0}

VARIABLES
    detail,             \* the requirement, _requirements[requirement_id]
    actionResults,      \* the tokens in _action_results
    completionResults,  \* the tokens in _completion_results
    conversations,      \* _conversations, a sequence by conversation_id
    messages,           \* the keys of _external_ids: one per message
    states,             \* the conversations with a state in _states
    snapshots           \* the conversations of the entries in snapshots

requirementVars == <<detail, actionResults, completionResults>>

sessionVars == <<conversations, messages, states, snapshots>>

fakeVars == <<detail, actionResults, completionResults, conversations, messages, states, snapshots>>

-----------------------------------------------------------------------------
Present(f) == {i \in Items : f[i] # None}

\* A caller sends a token of its own: a new one, or one it has sent before.
Tokens ==
  LET used == actionResults \cup completionResults IN
  used \cup {CHOOSE n \in 1..(MaxVersion + 1) : n \notin used /\ \A m \in 1..(n - 1) : m \in used}

\* create_requirement: version 1, nobody to act
FakeInit ==
  /\ detail =
       [status |-> "DRAFT", version |-> 1, handler |-> None, complete |-> FALSE,
        form |-> FALSE, review |-> "NONE", purchase |-> FALSE, warehouse |-> FALSE,
        allowed |-> {"UPDATE_APPLICANT_FIELDS"},
        items |-> [i \in Items |-> None], reviewed |-> {},
        executions |-> [i \in Items |-> None], received |-> [i \in Items |-> 0]]
  /\ actionResults = {}
  /\ completionResults = {}
  /\ conversations = << >>
  /\ messages = {}
  /\ states = {}
  /\ snapshots = {}

\* detail.version != expected_version
Expected(v) == v = detail.version /\ detail.version < MaxVersion

Holds(u, role) == u \in Users /\ role \in RolesOf[u]

\* _require_manager_access
RequireManagerAccess(u) ==
  /\ Holds(u, "BUILDING_MANAGER")
  /\ u \in BuildingUsers
  /\ detail.handler = u

\* _require_purchaser_access
RequirePurchaserAccess(u) == Holds(u, "PURCHASER") /\ detail.handler = u

\* _require_warehouse_access
RequireWarehouseAccess(u) == Holds(u, "WAREHOUSE_MANAGER") /\ detail.handler = u

\* What every method that writes ends with
Saved(d) == detail' = [d EXCEPT !.version = detail.version + 1]

-----------------------------------------------------------------------------
(* The applicant: the caller is not looked at *)

UpdateApplicantFields(v, complete) ==
  /\ detail.status \in {"DRAFT", "REJECTED"}
  /\ Expected(v)
  /\ Saved([detail EXCEPT
       !.form = complete, !.complete = complete,
       !.allowed = {"UPDATE_APPLICANT_FIELDS"} \cup
         (IF ~complete THEN {}
          ELSE IF detail.status = "REJECTED" THEN {"RESUBMIT_REVIEW"} ELSE {"SUBMIT_REVIEW"})])
  /\ UNCHANGED <<actionResults, completionResults>>

ReplaceRequestItems(v, items) ==
  /\ Expected(v)
  /\ detail.status \in {"DRAFT", "REJECTED"}
  /\ Saved([detail EXCEPT !.items = items])
  /\ UNCHANGED <<actionResults, completionResults>>

\* _transition, for submit_review and resubmit_review: the candidates of every
\* role are searched
SubmitReview(v, from, next, t) ==
  /\ t \notin actionResults
  /\ detail.status = from
  /\ Expected(v)
  /\ detail.complete
  /\ next \in Candidates
  /\ Saved([detail EXCEPT !.status = "PENDING_REVIEW", !.handler = next, !.allowed = {}])
  /\ actionResults' = actionResults \cup {t}
  /\ UNCHANGED completionResults

-----------------------------------------------------------------------------
(* The building manager *)

\* update_review_items checks neither the caller nor the status.
UpdateReviewItems(v, items) ==
  /\ Expected(v)
  /\ items = Present(detail.items)
  /\ Saved([detail EXCEPT !.reviewed = items])
  /\ UNCHANGED <<actionResults, completionResults>>

\* A bug: the step stays allowed when a patch clears a field.
AllowsOnce(complete) ==
  {"UPDATE_REVIEW_FIELDS", "REJECT"}
    \cup (IF complete THEN {"SUBMIT_PURCHASER"} ELSE detail.allowed \cap {"SUBMIT_PURCHASER"})

ReviewActions(complete) ==
  {"UPDATE_REVIEW_FIELDS", "REJECT"} \cup (IF complete THEN {"SUBMIT_PURCHASER"} ELSE {})

UpdateReviewFields(v, u, complete) ==
  /\ RequireManagerAccess(u)
  /\ detail.status = "PENDING_REVIEW"
  /\ Expected(v)
  /\ Saved([detail EXCEPT !.review = "DRAFT", !.complete = complete,
                          !.allowed = ReviewActions(complete)])
  /\ UNCHANGED <<actionResults, completionResults>>

RejectRequirement(v, u, t) ==
  /\ t \notin actionResults
  /\ RequireManagerAccess(u)
  /\ detail.status = "PENDING_REVIEW"
  /\ Expected(v)
  /\ Saved([detail EXCEPT !.status = "REJECTED", !.handler = None,
                          !.review = "COMPLETED", !.allowed = {}])
  /\ actionResults' = actionResults \cup {t}
  /\ UNCHANGED completionResults

SubmitPurchaser(v, u, next, t) ==
  /\ t \notin actionResults
  /\ RequireManagerAccess(u)
  /\ detail.status = "PENDING_REVIEW"
  /\ Expected(v)
  /\ detail.complete
  /\ next \in Candidates
  /\ Saved([detail EXCEPT !.status = "PENDING_PURCHASE", !.handler = next,
                          !.review = "COMPLETED", !.allowed = {}])
  /\ actionResults' = actionResults \cup {t}
  /\ UNCHANGED completionResults

-----------------------------------------------------------------------------
(* The purchaser *)

\* fields_complete is left as the review set it.
StartPurchase(v, u, t) ==
  /\ t \notin actionResults
  /\ RequirePurchaserAccess(u)
  /\ detail.status = "PENDING_PURCHASE"
  /\ Expected(v)
  /\ Saved([detail EXCEPT !.status = "PURCHASING", !.allowed = {"UPDATE_PURCHASE_FIELDS"}])
  /\ actionResults' = actionResults \cup {t}
  /\ UNCHANGED completionResults

\* update_purchase_item checks neither the caller nor the status.
UpdatePurchaseItem(v, i, t) ==
  /\ t \notin actionResults
  /\ Expected(v)
  /\ detail.items[i] # None
  /\ detail.executions[i] = None
  /\ Saved([detail EXCEPT !.executions[i] = detail.items[i].qty])
  /\ actionResults' = actionResults \cup {t}
  /\ UNCHANGED completionResults

UpdatePurchaseFields(v, u, complete) ==
  /\ RequirePurchaserAccess(u)
  /\ detail.status = "PURCHASING"
  /\ Expected(v)
  /\ Saved([detail EXCEPT
       !.purchase = complete, !.complete = complete,
       !.allowed = {"UPDATE_PURCHASE_FIELDS"} \cup
                   (IF complete THEN {"SUBMIT_WAREHOUSE"} ELSE {})])
  /\ UNCHANGED <<actionResults, completionResults>>

\* A bug: a requirement without warehouse items stays with its purchaser.
HandlerKept(d) == [d EXCEPT !.status = "COMPLETED", !.allowed = {}]

Finished(d) == [d EXCEPT !.status = "COMPLETED", !.handler = None, !.allowed = {}]

SubmitWarehouse(v, u, next, t) ==
  LET active == Present(detail.items)
      stored == \E i \in active : detail.items[i].warehouse
  IN
  /\ t \notin actionResults
  /\ RequirePurchaserAccess(u)
  /\ detail.status = "PURCHASING"
  /\ Expected(v)
  /\ active # {} => Present(detail.executions) = active
  /\ \/ active # {} /\ ~stored /\ Saved(Finished(detail))
     \/ /\ stored \/ (active = {} /\ detail.complete)
        /\ next \in Candidates
        /\ Saved([detail EXCEPT !.status = "PENDING_WAREHOUSE", !.handler = next, !.allowed = {}])
  /\ actionResults' = actionResults \cup {t}
  /\ UNCHANGED completionResults

-----------------------------------------------------------------------------
(* The warehouse manager *)

ReceiptFits(i, q) == detail.received[i] + q <= detail.executions[i]

\* append_receipt checks neither the caller nor the status, and does not keep
\* the token of the command.
AppendReceipt(v, i, q) ==
  /\ Expected(v)
  /\ detail.executions[i] # None
  /\ ReceiptFits(i, q)
  /\ Saved([detail EXCEPT !.received[i] = @ + q])
  /\ UNCHANGED <<actionResults, completionResults>>

UpdateWarehouseFields(v, u, complete) ==
  /\ RequireWarehouseAccess(u)
  /\ detail.status = "PENDING_WAREHOUSE"
  /\ Expected(v)
  /\ Saved([detail EXCEPT
       !.warehouse = complete, !.complete = complete,
       !.allowed = {"UPDATE_WAREHOUSE_FIELDS"} \cup (IF complete THEN {"COMPLETE"} ELSE {})])
  /\ UNCHANGED <<actionResults, completionResults>>

\* complete_requirement: its tokens are kept apart from the others
CompleteRequirement(v, u, t) ==
  /\ t \notin completionResults
  /\ RequireWarehouseAccess(u)
  /\ detail.status = "PENDING_WAREHOUSE"
  /\ Expected(v)
  /\ detail.complete
  /\ Saved(Finished(detail))
  /\ completionResults' = completionResults \cup {t}
  /\ UNCHANGED actionResults

-----------------------------------------------------------------------------
(* The Agent's conversations, which belong to nobody *)

Conversations == 1..Len(conversations)

IsActive(c, action) == conversations[c] = [action |-> action, status |-> "ACTIVE"]

\* get_or_create_agent_conversation finds one, or appends
CreateConversation(action) ==
  /\ \A c \in Conversations : ~IsActive(c, action)
  /\ Len(conversations) < MaxConversations
  /\ conversations' = Append(conversations, [action |-> action, status |-> "ACTIVE"])
  /\ UNCHANGED <<messages, states, snapshots>>

\* append_agent_message, also to a completed conversation; a duplicate is
\* answered with the first result
AppendAgentMessage(c, x) ==
  /\ <<c, x>> \notin messages
  /\ messages' = messages \cup {<<c, x>>}
  /\ UNCHANGED <<conversations, states, snapshots>>

\* update_agent_state, also of a completed conversation
UpdateAgentState(c) ==
  /\ states' = states \cup {c}
  /\ UNCHANGED <<conversations, messages, snapshots>>

SnapshotAgentState(c) ==
  /\ snapshots' = snapshots \cup {c}
  /\ UNCHANGED <<conversations, messages, states>>

CompleteAgentConversation(c) ==
  /\ conversations' = [conversations EXCEPT ![c].status = "COMPLETED"]
  /\ states' = states \ {c}
  /\ UNCHANGED <<messages, snapshots>>

-----------------------------------------------------------------------------
ApplicantCall(v) ==
  \/ \E complete \in BOOLEAN : UpdateApplicantFields(v, complete)
  \/ \E items \in [Items -> [qty : Quantities, warehouse : BOOLEAN] \cup {None}] :
       ReplaceRequestItems(v, items)
  \/ \E next \in Users, t \in Tokens, from \in {"DRAFT", "REJECTED"} : SubmitReview(v, from, next, t)

ManagerCall(v) ==
  \/ \E items \in SUBSET Items : UpdateReviewItems(v, items)
  \/ \E u \in Users :
       \/ \E complete \in BOOLEAN : UpdateReviewFields(v, u, complete)
       \/ \E t \in Tokens :
            \/ RejectRequirement(v, u, t)
            \/ \E next \in Users : SubmitPurchaser(v, u, next, t)

PurchaserCall(v) ==
  \/ \E i \in Items, t \in Tokens : UpdatePurchaseItem(v, i, t)
  \/ \E u \in Users :
       \/ \E complete \in BOOLEAN : UpdatePurchaseFields(v, u, complete)
       \/ \E t \in Tokens :
            \/ StartPurchase(v, u, t)
            \/ \E next \in Users \cup {None} : SubmitWarehouse(v, u, next, t)

WarehouseCall(v) ==
  \/ \E i \in Items, q \in Quantities : AppendReceipt(v, i, q)
  \/ \E u \in Users :
       \/ \E complete \in BOOLEAN : UpdateWarehouseFields(v, u, complete)
       \/ \E t \in Tokens : CompleteRequirement(v, u, t)

RequirementCall ==
  /\ \E v \in 1..MaxVersion :
       ApplicantCall(v) \/ ManagerCall(v) \/ PurchaserCall(v) \/ WarehouseCall(v)
  /\ UNCHANGED sessionVars

SessionCall ==
  /\ \/ \E action \in CurrentActions : CreateConversation(action)
     \/ \E c \in Conversations :
          \/ \E x \in ExternalIds : AppendAgentMessage(c, x)
          \/ UpdateAgentState(c)
          \/ SnapshotAgentState(c)
          \/ CompleteAgentConversation(c)
  /\ UNCHANGED requirementVars

FakeNext == RequirementCall \/ SessionCall

FakeSpec == FakeInit /\ [][FakeNext]_fakeVars

-----------------------------------------------------------------------------
(* Properties *)

Flow == INSTANCE RequirementFlow
          WITH Closed <- {}, NoOne <- None, status <- detail.status,
               version <- detail.version, handler <- detail.handler

\* The fake keeps the promise the Agent is written against: its twenty methods
\* take the requirement along the documented statuses only, each counts one
\* version, and each formal step leaves somebody to act until the end.  Unlike
\* the backend it may still be written when it is completed.
KeepsFlow == Flow!FlowSpec

\* allowed_actions can be trusted: a formal step that the requirement lists is
\* accepted from its handler with its version and a candidate, although the
\* list, fields_complete and the status are set by different methods.  The
\* hand-over to the warehouse also needs the executions of all items.
AllowedStepsAreAccepted ==
  LET allows(action) == action \in detail.allowed IN
  /\ allows("SUBMIT_REVIEW") => detail.status = "DRAFT" /\ detail.complete
  /\ allows("RESUBMIT_REVIEW") => detail.status = "REJECTED" /\ detail.complete
  /\ allows("REJECT") => detail.status = "PENDING_REVIEW"
  /\ allows("SUBMIT_PURCHASER") => detail.status = "PENDING_REVIEW" /\ detail.complete
  /\ allows("SUBMIT_WAREHOUSE") => detail.status = "PURCHASING" /\ detail.complete
  /\ allows("COMPLETE") => detail.status = "PENDING_WAREHOUSE" /\ detail.complete
=============================================================================
