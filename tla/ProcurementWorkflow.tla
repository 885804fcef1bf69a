------------------------ MODULE ProcurementWorkflow ------------------------
(***************************************************************************)
(* The backend's procurement workflow for one purchase request             *)
(* (backend/app/services/procurement.py and workflow.py): the rows of the  *)
(* request in MySQL and every handler that writes them.                    *)
(*                                                                         *)
(* A handler reads the rows from the read view its transaction opened with *)
(* and ends in one compare-and-swap UPDATE on (version, status), so every  *)
(* action below takes the view v it reads as a parameter and writes the    *)
(* current rows db.  In this module v is db: handlers run one at a time.   *)
(* ProcurementTransactions runs them with views that may be stale.         *)
(*                                                                         *)
(* Every error path of a handler (an AppError, a constraint violation)     *)
(* rolls its transaction back and leaves the rows alone: it is the guard   *)
(* of the action that fails.                                               *)
(***************************************************************************)
EXTENDS Integers, Sequences, FiniteSets

CONSTANTS
    Employees,      \* employees known to the platform
    RolesOf,        \* [Employees -> SUBSET Roles], the active role bindings
    BuildingStaff,  \* active members of the building of the request
    Assignable,     \* active employees with an active external identity
    FeishuUsers,    \* employees reachable through Feishu
    Items,          \* identities a purchase item of the request can have
    Names,          \* item names
    BlankNames,     \* the names that are only white space
    Quantities,     \* positive quantities a client can ask for
    Proposals,      \* what clients send of the proposed supplier of a review
    MaxVersion,     \* bound on the version counter
    None            \* SQL NULL, or a row that does not exist

Roles == {"APPLICANT", "BUILDING_MANAGER", "PURCHASER", "WAREHOUSE_MANAGER", "ADMIN"}

Statuses == {"DRAFT", "PENDING_REVIEW", "REJECTED", "PENDING_PURCHASE",
             "PURCHASING", "PENDING_WAREHOUSE", "COMPLETED"}

(* TRANSITION_RULES: where an operation starts, who may perform it and the *)
(* role of the employee it hands the request to.                           *)
TransitionRules ==
  [SUBMIT_REVIEW    |-> [from |-> "DRAFT",             role |-> "APPLICANT",         target |-> "BUILDING_MANAGER"],
   REJECT           |-> [from |-> "PENDING_REVIEW",    role |-> "BUILDING_MANAGER",  target |-> "applicant"],
   RESUBMIT_REVIEW  |-> [from |-> "REJECTED",          role |-> "APPLICANT",         target |-> "BUILDING_MANAGER"],
   SUBMIT_PURCHASER |-> [from |-> "PENDING_REVIEW",    role |-> "BUILDING_MANAGER",  target |-> "PURCHASER"],
   START_PURCHASE   |-> [from |-> "PENDING_PURCHASE",  role |-> "PURCHASER",         target |-> "keep"],
   SUBMIT_WAREHOUSE |-> [from |-> "PURCHASING",        role |-> "PURCHASER",         target |-> "WAREHOUSE_MANAGER"],
   COMPLETE         |-> [from |-> "PENDING_WAREHOUSE", role |-> "WAREHOUSE_MANAGER", target |-> "clear"]]

Operations == DOMAIN TransitionRules

-----------------------------------------------------------------------------
(* The rows *)

\* An active purchase item; an inactive one is None (only its reactivation,
\* which overwrites every column, ever reads it again).
Item == [name : Names, qty : Quantities, warehouse : BOOLEAN]

\* The legacy header columns device_name and quantity of the request.
Form == [name : Names \cup {None}, qty : Quantities \cup {None}]

\* An estimated total is unit price times a quantity: it is represented by that
\* quantity, 0 standing for a total that was never computed.
Estimate == Quantities \cup {0}

ReviewItem == [qty : Quantities, estimate : Estimate]

\* Of the proposed supplier: named when proposed_supplier_name is not blank, linked
\* when proposed_supplier_id is set.  (The lines carry suppliers too, which no
\* handler reads.)
Review == [status : {"DRAFT", "COMPLETED"}, result : {"NONE", "APPROVED", "REJECTED"},
           reviewer : Employees, priced : BOOLEAN, estimate : Estimate,
           named : BOOLEAN, linked : BOOLEAN,
           items : [Items -> ReviewItem \cup {None}]]

\* ReviewFields, as far as it names a supplier
SupplierProposal == [name : {"omitted", "null", "blank", "given"}, id : {"omitted", "null", "given"}]

Execution == [purchaser : Employees, qty : Quantities, total : Quantities]

Token == [legacy : BOOLEAN, n : Nat]

LogEntry == [token : Token, action : Operations \cup {"PURCHASE_ITEM", "APPEND_RECEIPT"},
             by : Employees, from : Statuses, to : Statuses,
             assigned : Employees \cup {None}]

Events == {"REQUIREMENT_PENDING_REVIEW", "REQUIREMENT_PENDING_PURCHASE",
           "REQUIREMENT_PENDING_WAREHOUSE", "PROCUREMENT_COMPLETED"}

Notification == [event : Events, token : Token, to : Employees]

Rows ==
        [status : Statuses, handler : Employees \cup {None}, version : Nat,
         applicant : Employees, form : Form, items : [Items -> Item \cup {None}],
         reviews : Seq(Review), executions : [Items -> Execution \cup {None}],
         received : [Items -> Nat], log : Seq(LogEntry), outbox : SUBSET Notification]

ASSUME ConstantsAssumption ==
  /\ RolesOf \in [Employees -> SUBSET Roles]
  /\ BuildingStaff \subseteq Employees
  /\ Assignable \subseteq Employees
  /\ FeishuUsers \subseteq Employees
  /\ BlankNames \subseteq Names
  /\ Quantities \subseteq Nat \ {0}
  /\ Proposals \subseteq SupplierProposal
  /\ MaxVersion \in Nat

\* A request has finitely many items.
ASSUME ItemsAssumption == IsFiniteSet(Items)

ASSUME NoneAssumption ==
  /\ None \notin Employees
  /\ None \notin Names
  /\ None \notin Quantities
  /\ None \notin Item
  /\ None \notin ReviewItem
  /\ None \notin Execution

-----------------------------------------------------------------------------
VARIABLE db         \* the committed rows of the request

vars == db

\* The items whose row in f exists.
Present(f) == {i \in Items : f[i] # None}

UsedTokens(d) == {d.log[n].token : n \in 1..Len(d.log)}

\* A client sends either a fresh token or one it has sent before.
ClientTokens(d) == {[legacy |-> FALSE, n |-> k] : k \in 1..(Len(d.log) + 1)}

BelongsToBuilding(u) == u \in BuildingStaff \/ "ADMIN" \in RolesOf[u]

\* _require_current_handler
RequireCurrentHandler(v, u, role) ==
  /\ role \in RolesOf[u]
  /\ v.handler = u
  /\ role = "BUILDING_MANAGER" => BelongsToBuilding(u)

\* A bug: the role alone authorises a step.
ActorWithRole(v, u, rule) ==
  /\ rule.role \in RolesOf[u]
  /\ rule.role = "BUILDING_MANAGER" => BelongsToBuilding(u)

\* _validate_actor
ValidActor(v, u, rule) ==
  /\ rule.role \in RolesOf[u]
  /\ IF rule.role = "APPLICANT" THEN v.applicant = u ELSE v.handler = u
  /\ rule.role = "BUILDING_MANAGER" => BelongsToBuilding(u)

\* is_valid_handler
ValidHandler(e, role) ==
  /\ e \in Assignable
  /\ role \in RolesOf[e]
  /\ role = "BUILDING_MANAGER" => e \in BuildingStaff

\* A bug: the employee named by the client is not looked up.
AnyNextHandler(v, rule, next) ==
  CASE rule.target = "clear"     -> next = None
    [] rule.target = "applicant" -> next = v.applicant
    [] rule.target = "keep"      -> next = v.handler
    [] OTHER                     -> next \in Employees

\* _resolve_next_handler: next may become the handler
NextHandler(v, rule, next) ==
  CASE rule.target = "clear"     -> next = None
    [] rule.target = "applicant" -> next = v.applicant
    [] rule.target = "keep"      -> next = v.handler
    [] OTHER                     -> next \in Employees /\ ValidHandler(next, rule.target)

\* Two bugs: the UPDATE has no WHERE on the version, or none at all.
StatusOnlySwap(v, allowed) == db.status \in allowed /\ db.version < MaxVersion

BlindSwap(v, allowed) == db.version < MaxVersion

\* The WHERE clause of bump_version and advance_request, on the current row.
CompareAndSwap(v, allowed) ==
  /\ db.version = v.version
  /\ db.status \in allowed
  /\ db.version < MaxVersion

\* The UNIQUE constraint on purchase_operation_log.action_token, and the read
\* of the token before it.
FreshToken(v, t) == t \notin UsedTokens(v) /\ t \notin UsedTokens(db)

Logged(token, action, u, from, to, assigned) ==
  [token |-> token, action |-> action, by |-> u, from |-> from, to |-> to, assigned |-> assigned]

\* WorkflowService.transition: its checks, and the rows it leaves.
CanTransition(v, u, op, to, next, t) ==
  LET rule == TransitionRules[op] IN
  /\ v.status = rule.from
  /\ ValidActor(v, u, rule)
  /\ FreshToken(v, t)
  /\ IF to = "COMPLETED" THEN next = None ELSE NextHandler(v, rule, next)
  /\ CompareAndSwap(v, {rule.from})

\* A bug: advance_request leaves the version alone.
TransitionedSameVersion(d, u, op, to, next, t) ==
  [d EXCEPT !.status = to, !.handler = next,
            !.log = Append(@, Logged(t, op, u, TransitionRules[op].from, to, next))]

Transitioned(d, u, op, to, next, t) ==
  [d EXCEPT !.status = to, !.handler = next, !.version = @ + 1,
            !.log = Append(@, Logged(t, op, u, TransitionRules[op].from, to, next))]

\* _create_assignment_notification
AssignmentNotifications(event, t, next) ==
  {[event |-> event, token |-> t, to |-> e] : e \in {next} \cap FeishuUsers}

-----------------------------------------------------------------------------
(* Reviews *)

\* A bug: the query for the active review forgets the status.
AllRounds(reviews) == 1..Len(reviews)

DraftRounds(reviews) == {n \in 1..Len(reviews) : reviews[n].status = "DRAFT"}

\* get_active_review: the DRAFT review of the highest round
ActiveRound(reviews) ==
  CHOOSE n \in DraftRounds(reviews) : \A m \in DraftRounds(reviews) : m <= n

NewReview(u) ==
  [status |-> "DRAFT", result |-> "NONE", reviewer |-> u, priced |-> FALSE,
   estimate |-> 0, named |-> FALSE, linked |-> FALSE, items |-> [i \in Items |-> None]]

\* A bug: every save opens a round.
AlwaysNewRound(v, u) == Append(v.reviews, NewReview(u))

\* _get_or_create_review: the reviews once one of them is a draft
WithActiveReview(v, u) ==
  IF DraftRounds(v.reviews) # {} THEN v.reviews ELSE Append(v.reviews, NewReview(u))

SnapshotOf(item) == [qty |-> item.qty, estimate |-> 0]

\* _ensure_review_snapshots: only a missing snapshot is taken
EnsureSnapshots(v, r) ==
  [r EXCEPT !.items = [i \in Items |->
      IF v.items[i] # None /\ r.items[i] = None THEN SnapshotOf(v.items[i]) ELSE r.items[i]]]

\* The reviews after the active one is snapshotted and decided.
DecidedReviews(v, u, result) ==
  LET reviews == WithActiveReview(v, u)
      n == ActiveRound(reviews)
  IN  [reviews EXCEPT ![n] =
         [EnsureSnapshots(v, reviews[n]) EXCEPT !.status = "COMPLETED", !.result = result]]

-----------------------------------------------------------------------------
(* The applicant's handlers *)

\* create_draft
Init ==
  \E u \in Employees :
    /\ "APPLICANT" \in RolesOf[u]
    /\ BelongsToBuilding(u)
    /\ db = [status |-> "DRAFT", handler |-> u, version |-> 0, applicant |-> u,
             form |-> [name |-> None, qty |-> None],
             items |-> [i \in Items |-> None], reviews |-> << >>,
             executions |-> [i \in Items |-> None], received |-> [i \in Items |-> 0],
             log |-> << >>, outbox |-> {}]

\* replace_request_items: the payload's items stay or become active, the
\* others are deactivated
ReplaceRequestItems(v, u, payload) ==
  /\ v.status \in {"DRAFT", "REJECTED"}
  /\ v.applicant = u
  /\ "APPLICANT" \in RolesOf[u]
  /\ Present(payload) # {}
  /\ CompareAndSwap(v, {"DRAFT", "REJECTED"})
  /\ db' = [db EXCEPT !.items = payload, !.version = @ + 1]

ApplicantCanEdit(v, u) ==
  /\ "APPLICANT" \in RolesOf[u]
  /\ v.applicant = u
  /\ v.status \in {"DRAFT", "REJECTED"}

ManagerCanEdit(v, u) ==
  /\ "BUILDING_MANAGER" \in RolesOf[u]
  /\ v.handler = u
  /\ v.status = "PENDING_REVIEW"
  /\ u \in BuildingStaff

\* The header after the columns in supplied are written.
MergedForm(form, supplied, name, qty) ==
  [name |-> IF "name" \in supplied THEN name ELSE form.name,
   qty  |-> IF "qty"  \in supplied THEN qty  ELSE form.qty]

\* A bug: the item is filled from the header as it was read.
OldHeaderItem(v, form, i) == [name |-> form.name, qty |-> v.form.qty, warehouse |-> TRUE]

\* The item a complete header is copied to: the only active one, or a new item.
HeaderItem(v, form, i) ==
  [name |-> form.name, qty |-> form.qty,
   warehouse |-> IF v.items[i] = None THEN TRUE ELSE v.items[i].warehouse]

\* save_applicant_fields, by the applicant or by the building manager
SaveApplicantFields(v, u, supplied, name, qty) ==
  LET form == MergedForm(v.form, supplied, name, qty) IN
  /\ ApplicantCanEdit(v, u) \/ ManagerCanEdit(v, u)
  /\ CompareAndSwap(v, IF ManagerCanEdit(v, u) THEN {"PENDING_REVIEW"} ELSE {"DRAFT", "REJECTED"})
  /\ \/ /\ form.name = None \/ form.qty = None
        /\ \A i, j \in Present(v.items) : i = j
        /\ db' = [db EXCEPT !.form = form, !.version = @ + 1]
     \/ /\ form.name # None /\ form.qty # None
        /\ \E i \in Items :
             /\ Present(v.items) \subseteq {i}
             /\ db' = [db EXCEPT !.form = form, !.version = @ + 1,
                                 !.items[i] = HeaderItem(v, form, i)]

\* submit_review, the handler of SUBMIT_REVIEW and RESUBMIT_REVIEW
SubmitReview(v, u, op, next, t) ==
  /\ CanTransition(v, u, op, "PENDING_REVIEW", next, t)
  /\ Present(v.items) # {}
  /\ \A i \in Present(v.items) : v.items[i].name \notin BlankNames /\ v.items[i].qty > 0
  /\ db' = [Transitioned(db, u, op, "PENDING_REVIEW", next, t) EXCEPT
              !.outbox = @ \cup AssignmentNotifications("REQUIREMENT_PENDING_REVIEW", t, next)]

-----------------------------------------------------------------------------
(* The building manager's handlers *)

\* save_review_items: a suggestion for every active item, priced or not
SaveReviewItems(v, u, suggested, priced) ==
  LET reviews == WithActiveReview(v, u)
      n == ActiveRound(reviews)
      ensured == EnsureSnapshots(v, reviews[n])
  IN
  /\ RequireCurrentHandler(v, u, "BUILDING_MANAGER")
  /\ v.status = "PENDING_REVIEW"
  /\ suggested = Present(v.items)
  /\ CompareAndSwap(v, {"PENDING_REVIEW"})
  /\ db' = [db EXCEPT
       !.version = @ + 1,
       !.reviews = [reviews EXCEPT ![n] = [ensured EXCEPT !.items = [i \in Items |->
          IF i \in suggested
          THEN [ensured.items[i] EXCEPT !.estimate = IF i \in priced THEN v.items[i].qty ELSE 0]
          ELSE ensured.items[i]]]]]

\* A proposal that has a name takes its id away, so an id is set only without one:
\* the review then takes the name of that supplier.
NamedBy(r, proposal) ==
  CASE proposal.name \in {"given", "blank"} -> proposal.name = "given"
    [] proposal.name \in {"omitted", "null"} ->
         proposal.id = "given" \/ (proposal.name = "omitted" /\ r.named)

LinkedBy(r, proposal) ==
  /\ proposal.name \in {"omitted", "null"}
  /\ proposal.id = "given" \/ (proposal.id = "omitted" /\ r.linked)

\* save_review_fields, the single-item bridge: price is what the payload says of
\* estimated_unit_price, proposal what it says of the supplier
SaveReviewFields(v, u, price, proposal) ==
  LET reviews == WithActiveReview(v, u)
      n == ActiveRound(reviews)
      r == reviews[n]
      priced == IF price = "omitted" THEN r.priced ELSE price = "given"
  IN
  /\ RequireCurrentHandler(v, u, "BUILDING_MANAGER")
  /\ v.status = "PENDING_REVIEW"
  /\ CompareAndSwap(v, {"PENDING_REVIEW"})
  /\ \E i \in Items :
       LET estimate == IF priced THEN v.items[i].qty ELSE r.estimate
           line == IF r.items[i] = None THEN SnapshotOf(v.items[i]) ELSE r.items[i]
       IN
       /\ Present(v.items) = {i}
       /\ db' = [db EXCEPT
            !.version = @ + 1,
            !.reviews = [reviews EXCEPT ![n] =
               [r EXCEPT !.priced = priced, !.estimate = estimate,
                         !.named = NamedBy(r, proposal), !.linked = LinkedBy(r, proposal),
                         !.items[i] = [line EXCEPT !.estimate = estimate]]]]

\* reject: no notification is written
Reject(v, u, next, t) ==
  /\ RequireCurrentHandler(v, u, "BUILDING_MANAGER")
  /\ CanTransition(v, u, "REJECT", "REJECTED", next, t)
  /\ db' = [Transitioned(db, u, "REJECT", "REJECTED", next, t) EXCEPT
              !.reviews = DecidedReviews(v, u, "REJECTED")]

\* submit_purchaser: the approval
SubmitPurchaser(v, u, next, t) ==
  LET reviews == DecidedReviews(v, u, "APPROVED") IN
  /\ RequireCurrentHandler(v, u, "BUILDING_MANAGER")
  /\ Cardinality(Present(reviews[ActiveRound(WithActiveReview(v, u))].items))
       = Cardinality(Present(v.items))
  /\ CanTransition(v, u, "SUBMIT_PURCHASER", "PENDING_PURCHASE", next, t)
  /\ db' = [Transitioned(db, u, "SUBMIT_PURCHASER", "PENDING_PURCHASE", next, t) EXCEPT
              !.reviews = reviews,
              !.outbox = @ \cup AssignmentNotifications("REQUIREMENT_PENDING_PURCHASE", t, next)]

-----------------------------------------------------------------------------
(* The purchaser's handlers *)

\* start_purchase
StartPurchase(v, u, next, t) ==
  /\ CanTransition(v, u, "START_PURCHASE", "PURCHASING", next, t)
  /\ db' = Transitioned(db, u, "START_PURCHASE", "PURCHASING", next, t)

\* _resolve_purchase_supplier without an id: the latest review must name a supplier,
\* and gets its id
SupplierIsProposed(v) == v.reviews # << >> /\ v.reviews[Len(v.reviews)].named

WithSupplier(reviews, last) == [reviews EXCEPT ![last] = [@ EXCEPT !.linked = TRUE]]

\* What both purchase handlers check and write.  byName: the payload has no
\* supplier_id.
RecordPurchase(v, u, i, byName, log) ==
  /\ RequireCurrentHandler(v, u, "PURCHASER")
  /\ v.status = "PURCHASING"
  /\ v.items[i] # None
  /\ byName => SupplierIsProposed(v)
  /\ v.executions[i] = None => db.executions[i] = None    \* UNIQUE (request_item_id)
  /\ CompareAndSwap(v, {"PURCHASING"})
  /\ db' = [db EXCEPT
       !.version = @ + 1, !.log = log,
       !.reviews = IF byName THEN WithSupplier(@, Len(v.reviews)) ELSE @,
       !.executions[i] = IF v.executions[i] = None
                         THEN [purchaser |-> u, qty |-> v.items[i].qty, total |-> v.items[i].qty]
                         ELSE [db.executions[i] EXCEPT !.total = v.items[i].qty]]

\* save_purchase_item
SavePurchaseItem(v, u, i, byName, t) ==
  /\ v.executions[i] = None
  /\ RecordPurchase(v, u, i, byName,
       Append(db.log, Logged(t, "PURCHASE_ITEM", u, v.status, v.status, u)))
  /\ FreshToken(v, t)

\* save_purchase_fields, the single-item bridge: it may overwrite the
\* execution and writes no log
SavePurchaseFields(v, u, i, byName) ==
  /\ Present(v.items) = {i}
  /\ RecordPurchase(v, u, i, byName, db.log)

\* A bug: one purchase is enough.
AnyItemExecuted(v) == Present(v.executions) # {}

\* all_active_items_executed
AllActiveItemsExecuted(v) == Present(v.items) \subseteq Present(v.executions)

RequiresWarehouse(v) == {i \in Present(v.items) : v.items[i].warehouse}

LastReviewer(v) == IF v.reviews = << >> THEN None ELSE v.reviews[Len(v.reviews)].reviewer

\* get_execution: the purchaser of the first execution, whichever comes first
FirstPurchasers(v) ==
  IF Present(v.executions) = {} THEN {None}
  ELSE {v.executions[i].purchaser : i \in Present(v.executions)}

\* A bug: the applicant is not told.
StaffCompletionNotifications(v, p, t) ==
  {[event |-> "PROCUREMENT_COMPLETED", token |-> t, to |-> e] :
     e \in {LastReviewer(v), p} \cap FeishuUsers}

\* _create_completion_notifications: the applicant, the last reviewer and the
\* purchaser p of the first execution, each once
CompletionNotifications(v, p, t) ==
  {[event |-> "PROCUREMENT_COMPLETED", token |-> t, to |-> e] :
     e \in {v.applicant, LastReviewer(v), p} \cap FeishuUsers}

\* submit_warehouse: to the warehouse, or straight to COMPLETED
SubmitWarehouse(v, u, next, t) ==
  /\ Present(v.items) # {}
  /\ AllActiveItemsExecuted(v)
  /\ \/ /\ RequiresWarehouse(v) # {}
        /\ CanTransition(v, u, "SUBMIT_WAREHOUSE", "PENDING_WAREHOUSE", next, t)
        /\ db' = [Transitioned(db, u, "SUBMIT_WAREHOUSE", "PENDING_WAREHOUSE", next, t) EXCEPT
             !.outbox = @ \cup AssignmentNotifications("REQUIREMENT_PENDING_WAREHOUSE", t, next)]
     \/ /\ RequiresWarehouse(v) = {}
        /\ CanTransition(v, u, "SUBMIT_WAREHOUSE", "COMPLETED", next, t)
        /\ \E p \in FirstPurchasers(v) :
             db' = [Transitioned(db, u, "SUBMIT_WAREHOUSE", "COMPLETED", next, t) EXCEPT
               !.outbox = @ \cup CompletionNotifications(v, p, t)]

-----------------------------------------------------------------------------
(* The warehouse manager's handlers *)

\* A bug: each receipt is compared on its own.
SingleReceiptFits(v, execution, i, q) == q <= execution.qty

\* validate_receipt_quantity
ReceiptFits(v, execution, i, q) == v.received[i] + q <= execution.qty

\* append_receipt: the execution is read FOR UPDATE, which sees the current row,
\* the sum of its receipts is read from the view
AppendReceipt(v, u, i, q, t) ==
  LET locked == db.executions[i] IN
  /\ RequireCurrentHandler(v, u, "WAREHOUSE_MANAGER")
  /\ v.status = "PENDING_WAREHOUSE"
  /\ FreshToken(v, t)
  /\ locked # None
  /\ v.items[i] # None
  /\ v.items[i].warehouse
  /\ ReceiptFits(v, locked, i, q)
  /\ CompareAndSwap(v, {"PENDING_WAREHOUSE"})
  /\ db' = [db EXCEPT
       !.version = @ + 1,
       !.received[i] = @ + q,
       !.log = Append(@, Logged(t, "APPEND_RECEIPT", u, v.status, v.status, u))]

\* save_warehouse_fields, the single-item bridge: one receipt, which may be short
\* of the purchase when the payload has a remark
SaveWarehouseFields(v, u, i, q, remark) ==
  /\ RequiresWarehouse(v) = {i}
  /\ Present(v.executions) = {i}
  /\ v.received[i] = 0
  /\ q < v.executions[i].qty => remark
  /\ AppendReceipt(v, u, i, q, [legacy |-> TRUE, n |-> v.version])

\* A bug: one fulfilled item is enough.
AnyWarehouseItemFulfilled(v) ==
  \E i \in RequiresWarehouse(v) : v.executions[i] # None /\ v.received[i] = v.executions[i].qty

\* all_warehouse_items_fulfilled
AllWarehouseItemsFulfilled(v) ==
  \A i \in RequiresWarehouse(v) :
    v.executions[i] # None /\ v.received[i] = v.executions[i].qty

\* complete
Complete(v, u, next, t) ==
  /\ CanTransition(v, u, "COMPLETE", "COMPLETED", next, t)
  /\ AllWarehouseItemsFulfilled(v)
  /\ \E p \in FirstPurchasers(v) :
       db' = [Transitioned(db, u, "COMPLETE", "COMPLETED", next, t) EXCEPT
         !.outbox = @ \cup CompletionNotifications(v, p, t)]

-----------------------------------------------------------------------------
(* One HTTP call: a handler run by employee u against the read view v, with  *)
(* one of the tokens when it asks for one.                                   *)
HandleApplicant(v, u, tokens) ==
  \/ \E payload \in [Items -> Item \cup {None}] : ReplaceRequestItems(v, u, payload)
  \/ \E supplied \in SUBSET {"name", "qty"},
        name \in Names \cup {None}, qty \in Quantities \cup {None} :
       SaveApplicantFields(v, u, supplied, name, qty)
  \/ \E next \in Employees, t \in tokens :
       \/ SubmitReview(v, u, "SUBMIT_REVIEW", next, t)
       \/ SubmitReview(v, u, "RESUBMIT_REVIEW", next, t)

HandleManager(v, u, tokens) ==
  \/ \E suggested, priced \in SUBSET Items : SaveReviewItems(v, u, suggested, priced)
  \/ \E price \in {"omitted", "null", "given"}, proposal \in Proposals :
       SaveReviewFields(v, u, price, proposal)
  \/ \E next \in Employees, t \in tokens :
       Reject(v, u, next, t) \/ SubmitPurchaser(v, u, next, t)

HandlePurchaser(v, u, tokens) ==
  \/ \E next \in Employees, t \in tokens : StartPurchase(v, u, next, t)
  \/ \E i \in Items, byName \in BOOLEAN : SavePurchaseFields(v, u, i, byName)
  \/ \E i \in Items, byName \in BOOLEAN, t \in tokens : SavePurchaseItem(v, u, i, byName, t)
  \/ \E next \in Employees \cup {None}, t \in tokens : SubmitWarehouse(v, u, next, t)

HandleWarehouse(v, u, tokens) ==
  \/ \E i \in Items, q \in Quantities, t \in tokens : AppendReceipt(v, u, i, q, t)
  \/ \E i \in Items, q \in Quantities, remark \in BOOLEAN : SaveWarehouseFields(v, u, i, q, remark)
  \/ \E t \in tokens : Complete(v, u, None, t)

Handle(v, u, tokens) ==
  \/ HandleApplicant(v, u, tokens)
  \/ HandleManager(v, u, tokens)
  \/ HandlePurchaser(v, u, tokens)
  \/ HandleWarehouse(v, u, tokens)

Next == \E u \in Employees : Handle(db, u, ClientTokens(db))

Spec == Init /\ [][Next]_vars

-----------------------------------------------------------------------------
(* Invariants *)

\* Every row of the request has its type.
TypeOK == db \in Rows

\* The statuses after the building manager's approval.
Approved == {"PENDING_PURCHASE", "PURCHASING", "PENDING_WAREHOUSE", "COMPLETED"}

\* Review rounds: at most the last round is undecided, and only while the
\* request is under review; a rejected request ends in a rejected round and an
\* approved one in an approved round that has a line for exactly the active
\* items (_get_or_create_review, reject, submit_purchaser).
ReviewRoundsMatchStatus ==
  LET last == Len(db.reviews) IN
  /\ \A n \in DraftRounds(db.reviews) : n = last /\ db.status = "PENDING_REVIEW"
  /\ db.status = "REJECTED" => last > 0 /\ db.reviews[last].result = "REJECTED"
  /\ db.status \in Approved =>
       /\ last > 0
       /\ db.reviews[last].result = "APPROVED"
       /\ Present(db.reviews[last].items) = Present(db.items)

\* What is bought is what is asked: an execution belongs to an active item, has
\* its quantity, and exists only once purchasing started; from the warehouse on
\* every active item has one (save_purchase_item, submit_warehouse).
PurchasesMatchItems ==
  /\ \A i \in Present(db.executions) :
       /\ db.items[i] # None
       /\ db.executions[i].qty = db.items[i].qty
       /\ db.executions[i].total = db.items[i].qty
       /\ db.status \in {"PURCHASING", "PENDING_WAREHOUSE", "COMPLETED"}
  /\ db.status \in {"PENDING_WAREHOUSE", "COMPLETED"} =>
       Present(db.items) # {} /\ Present(db.items) \subseteq Present(db.executions)

\* The receipts of an item never exceed its purchase, and only an item that
\* goes to the warehouse has any (append_receipt: OVER_RECEIPT).
ReceiptsWithinPurchase ==
  \A i \in Items : db.received[i] > 0 =>
    /\ i \in RequiresWarehouse(db)
    /\ db.executions[i] # None
    /\ db.received[i] <= db.executions[i].qty

\* A completed request has everything it asked for: every active item bought in
\* its quantity, every warehouse item received in full, nobody left to act
\* (complete, submit_warehouse).
CompletionIsFulfilled ==
  db.status = "COMPLETED" =>
    /\ db.handler = None
    /\ \A i \in Present(db.items) : db.executions[i] # None /\ db.executions[i].qty = db.items[i].qty
    /\ \A i \in RequiresWarehouse(db) : db.received[i] = db.items[i].qty

\* The request is always with somebody who can act on it: the handler holds the
\* role its status calls for (_resolve_next_handler).
HandlerFitsStatus ==
  /\ db.status \in {"DRAFT", "REJECTED"} => db.handler = db.applicant
  /\ "APPLICANT" \in RolesOf[db.applicant]
  /\ db.status = "PENDING_REVIEW" => ValidHandler(db.handler, "BUILDING_MANAGER")
  /\ db.status \in {"PENDING_PURCHASE", "PURCHASING"} => ValidHandler(db.handler, "PURCHASER")
  /\ db.status = "PENDING_WAREHOUSE" => ValidHandler(db.handler, "WAREHOUSE_MANAGER")

\* The operation log is the history of the request: tokens are never reused,
\* each entry starts in the status the previous one left and is by the employee
\* the previous one assigned, and the last one tells the current status and
\* handler (purchase_operation_log, written in the transaction of the change).
LogIsCustodyChain ==
  LET log == db.log
      last == Len(log)
  IN
  /\ \A m, n \in 1..last : log[m].token = log[n].token => m = n
  /\ \A n \in 1..last :
       /\ log[n].from = IF n = 1 THEN "DRAFT" ELSE log[n - 1].to
       /\ log[n].by = IF n = 1 THEN db.applicant ELSE log[n - 1].assigned
  /\ db.status = IF last = 0 THEN "DRAFT" ELSE log[last].to
  /\ db.handler = IF last = 0 THEN db.applicant ELSE log[last].assigned

\* The event a logged operation announces.  A rejection hands the request over
\* too, and announces nothing: see RejectionIsAnnounced.
EventsOf(entry) ==
  CASE entry.action \in {"SUBMIT_REVIEW", "RESUBMIT_REVIEW"} -> {"REQUIREMENT_PENDING_REVIEW"}
    [] entry.action = "SUBMIT_PURCHASER" -> {"REQUIREMENT_PENDING_PURCHASE"}
    [] entry.action = "SUBMIT_WAREHOUSE" /\ entry.to = "PENDING_WAREHOUSE" -> {"REQUIREMENT_PENDING_WAREHOUSE"}
    [] entry.to = "COMPLETED" -> {"PROCUREMENT_COMPLETED"}
    [] OTHER -> {}

\* The notifications of a logged operation on the rows d; p bought the first item.
Announced(d, entry, p) ==
  {[event |-> event, token |-> entry.token, to |-> e] :
     event \in EventsOf(entry),
     e \in FeishuUsers \cap (IF entry.to = "COMPLETED" THEN {d.applicant, LastReviewer(d), p}
                            ELSE {entry.assigned})}

\* The outbox says exactly what the log says: a hand-over to a building manager, a
\* purchaser or the warehouse is announced to that employee, a completion to the
\* applicant, the reviewer of the approved round and one purchaser, always to those
\* Feishu reaches and each once, and there is no other notification.  What a
\* rejection hands back to the applicant is not announced
\* (_create_assignment_notification, _create_completion_notifications).
OutboxMatchesLog ==
  \E p \in FirstPurchasers(db) :
    db.outbox = UNION {Announced(db, db.log[n], p) : n \in 1..Len(db.log)}

-----------------------------------------------------------------------------
(* Action properties *)

\* The one column of a decided round that is written later, proposed_supplier_id:
\* a purchase that names no supplier takes the one the latest review names, and
\* links it (_resolve_purchase_supplier).
SupplierFilledIn(n) ==
  /\ db.status = "PURCHASING"
  /\ n = Len(db.reviews)
  /\ db.reviews[n].named
  /\ db'.reviews[n] = [db.reviews[n] EXCEPT !.linked = TRUE]

\* From the approval on, no step changes the approved scope: the items and the
\* header stay, the reviews stay but for the supplier that a purchase fills in, and
\* an execution keeps its quantity and purchaser.
ApprovedScopeFrozen ==
  [][db.status \in Approved =>
       /\ db'.items = db.items /\ db'.form = db.form
       /\ Len(db'.reviews) = Len(db.reviews)
       /\ \A n \in 1..Len(db.reviews) : db'.reviews[n] = db.reviews[n] \/ SupplierFilledIn(n)
       /\ \A i \in Present(db.executions) :
            /\ db'.executions[i] # None
            /\ db'.executions[i].qty = db.executions[i].qty
            /\ db'.executions[i].purchaser = db.executions[i].purchaser]_vars

\* A decided review round is history: its lines, totals, decision and supplier name
\* never change again, whatever the later rounds write.  Its proposed_supplier_id
\* is not part of that: the purchase fills it in, on the latest round only.
DecidedReviewsImmutable ==
  [][\A n \in 1..Len(db.reviews) :
       db.reviews[n].status = "COMPLETED" =>
         n <= Len(db'.reviews) /\ (db'.reviews[n] = db.reviews[n] \/ SupplierFilledIn(n))]_vars

-----------------------------------------------------------------------------
(* The promise to the Agent *)

Flow == INSTANCE RequirementFlow
          WITH Closed <- {"COMPLETED"}, NoOne <- None, status <- db.status,
               version <- db.version, handler <- db.handler

\* The backend keeps the promise the Agent is written against: every handler
\* counts one version, only formal steps change the status or the handler, along
\* the documented edges, and nothing changes once the request is completed.
KeepsFlow == Flow!FlowSpec

-----------------------------------------------------------------------------
(* What the documents say and the code does not do *)

\* The estimated total of an approved line is the unit price times the
\* quantity asked for: stated by CODEX_PROJECT_SPEC.md for the building
\* manager's review.
EstimateMatchesQuantity ==
  db.status \in Approved =>
    LET lines == db.reviews[Len(db.reviews)].items IN
    \A i \in Present(lines) \cap Present(db.items) :
      lines[i].estimate # 0 => lines[i].estimate = db.items[i].qty

\* A rejection is announced: CODEX_PROJECT_SPEC.md says that the backend writes an
\* outbox row for it and that the applicant is notified.
RejectionIsAnnounced ==
  \A n \in 1..Len(db.log) :
    (db.log[n].action = "REJECT" /\ db.log[n].assigned \in FeishuUsers)
    => \E message \in db.outbox : message.token = db.log[n].token

\* A partial save leaves the fields it does not name alone: once the header is
\* complete, an applicant-field save that omits the quantity keeps the quantity
\* of every item.
OmittedQuantityKept ==
  [][(/\ db.form.name # None /\ db.form.qty # None
      /\ \E u \in Employees, supplied \in SUBSET {"name"}, name \in Names \cup {None} :
        SaveApplicantFields(db, u, supplied, name, None))
      => \A i \in Present(db.items) : db'.items[i].qty = db.items[i].qty]_vars

\* The fields documented as mandatory before submission are there once the
\* request is submitted: the header has a device name and a quantity.
SubmittedFormIsComplete ==
  db.status = "PENDING_REVIEW" => db.form.name # None /\ db.form.qty # None

\* After the warehouse fields are saved the request can be completed, also when
\* the quantity received is short and explained by a remark.
SavedWarehouseFieldsAllowCompletion ==
  (db.status = "PENDING_WAREHOUSE" /\ \E n \in 1..Len(db.log) : db.log[n].token.legacy)
    => AllWarehouseItemsFulfilled(db)

=============================================================================
