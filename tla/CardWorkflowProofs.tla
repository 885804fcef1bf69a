-------------------------- MODULE CardWorkflowProofs --------------------------
(***************************************************************************)
(* What TLAPS proves of the role cards, for every number of employees,     *)
(* items, presses and buttons.                                             *)
(*                                                                         *)
(* Every call of a card is a call of a handler with some token, so the     *)
(* invariants of the workflow hold under cards too.  The rest of the       *)
(* invariant is about the buttons: what a button carries was true of the   *)
(* request it was made from, and that request is the current one unless    *)
(* the version has moved on.                                               *)
(***************************************************************************)
EXTENDS CardWorkflow, ProcurementWorkflowProofs, FunctionTheorems

(* The log tells how the request came to its status. *)

LoggedBy(ops, u) ==
  \E n \in 1..Len(db.log) : db.log[n].action \in ops /\ db.log[n].by = u

Explained ==
  /\ db.status = "PENDING_REVIEW" => LoggedBy({"SUBMIT_REVIEW", "RESUBMIT_REVIEW"}, db.applicant)
  /\ db.status = "REJECTED" => \E u \in Employees : LoggedBy({"REJECT"}, u)
  /\ db.status = "PENDING_PURCHASE" => \E u \in Employees : LoggedBy({"SUBMIT_PURCHASER"}, u)

\* A request that was submitted asks for something.
Asks == db.status \notin {"DRAFT", "REJECTED"} => Present(db.items) # {}

RequestInv == Custody /\ Fulfilment /\ Explained /\ Asks

(* What is true of every button *)

\* A button that calls carries what the call needs, and tells whether it is old.
TokenActions ==
  {"applicant.confirm", "building_manager.confirm_reject",
   "building_manager.confirm_submit_purchaser", "purchaser.start_purchase",
   "purchaser.save_purchase_item", "purchaser.confirm_submit_warehouse",
   "warehouse.append_receipt", "warehouse.confirm_complete"}

Carries(b) ==
  /\ b.action \in CallActions => b.seen # None
  /\ b.action \in TokenActions => b.token # None
  /\ b.action \in {"applicant.remove_item", "purchaser.open_purchase_item",
                   "purchaser.save_purchase_item", "warehouse.append_receipt"} => b.item \in Items
  /\ b.seen # None =>
       /\ b.seen = db \/ b.seen.version < db.version
       /\ b.token \notin UsedTokens(b.seen)

\* What the preparation of a confirmation has checked.
Prepared(b) ==
  /\ b.action = "building_manager.confirm_submit_purchaser" =>
       b.seen.status = "PENDING_REVIEW" /\ b.next \in Candidates("PURCHASER")
  /\ b.action = "purchaser.start_purchase" => b.seen.status = "PENDING_PURCHASE"
  /\ b.action = "purchaser.confirm_submit_warehouse" =>
       /\ b.seen.status = "PURCHASING"
       /\ Present(b.seen.executions) = Present(b.seen.items)
       /\ IF RequiresWarehouse(b.seen) = {} THEN b.next = None
          ELSE b.next \in Candidates("WAREHOUSE_MANAGER")
  /\ b.action = "warehouse.confirm_complete" =>
       /\ b.seen.status = "PENDING_WAREHOUSE"
       /\ AllWarehouseItemsFulfilled(b.seen)

\* Whoever confirms is in charge of the step, or has taken it.
InCharge(b) ==
  /\ b.action \in {"applicant.confirm_handler", "applicant.confirm"} => b.user = db.applicant
  /\ b.action = "purchaser.confirm_submit_warehouse" =>
       \/ db.status = "PURCHASING" /\ db.handler = b.user
       \/ LoggedBy({"SUBMIT_WAREHOUSE"}, b.user)
  /\ b.action = "warehouse.confirm_complete" =>
       \/ db.status = "PENDING_WAREHOUSE" /\ db.handler = b.user
       \/ LoggedBy({"COMPLETE"}, b.user)

Good(b) == b \in Button /\ Carries(b) /\ Prepared(b) /\ InCharge(b)

\* The step of a confirmation that was done is in the log.
HasStep(b) ==
  TargetStatuses(b) # {} =>
    \E n \in 1..Len(db.log) : Announces(b.action, db.log[n]) /\ db.log[n].by = b.user

GoodPress(p) ==
  /\ InCharge(p.button)
  /\ p.stage = "call" => p.button.action \in CallActions /\ Carries(p.button)
  /\ p.stage = "done" => HasStep(p.button)

ButtonsInv ==
  /\ IsFiniteSet(buttons) /\ Cardinality(buttons) <= MaxButtons
  /\ press \in [Slots -> Pressing \cup {None}]
  /\ \A b \in buttons : Good(b)
  /\ \A s \in Slots : press[s] # None => GoodPress(press[s])

CardInv == RequestInv /\ ButtonsInv

-----------------------------------------------------------------------------
(* The request.  What a card calls is a handler, so its step saves or logs.  *)

\* Whoever changes the request is its handler.
LEMMA HandlerActs ==
  ASSUME Custody, NEW u \in Employees, Handle(db, u, Token)
  PROVE  u = db.handler
<1>1. db.status \in {"DRAFT", "REJECTED"} => db.handler = db.applicant
  BY DEF Custody, HandlerFitsStatus
<1>2. ASSUME NEW op \in Operations, NEW to, NEW next, NEW t, CanTransition(db, u, op, to, next, t)
      PROVE  u = db.handler
  BY <1>1, <1>2 DEF CanTransition, ValidActor, Operations, TransitionRules
<1>3. CASE HandleApplicant(db, u, Token)
  <2>1. \A payload : ReplaceRequestItems(db, u, payload) => u = db.handler
    BY <1>1 DEF ReplaceRequestItems
  <2>2. \A supplied, name, qty : SaveApplicantFields(db, u, supplied, name, qty) => u = db.handler
    BY <1>1 DEF SaveApplicantFields, ApplicantCanEdit, ManagerCanEdit
  <2>3. \A op \in {"SUBMIT_REVIEW", "RESUBMIT_REVIEW"} : \A next, t :
          SubmitReview(db, u, op, next, t) => u = db.handler
    BY <1>2 DEF SubmitReview, Operations, TransitionRules
  <2>4. QED BY <1>3, <2>1, <2>2, <2>3 DEF HandleApplicant
<1>4. CASE HandleManager(db, u, Token)
  <2>1. \A next, t : Reject(db, u, next, t) \/ SubmitPurchaser(db, u, next, t) => u = db.handler
    BY <1>2 DEF Reject, SubmitPurchaser, Operations, TransitionRules
  <2>2. QED BY <1>4, <2>1 DEF HandleManager, SaveReviewItems, SaveReviewFields, RequireCurrentHandler
<1>5. CASE HandlePurchaser(db, u, Token)
  <2>1. \A next, t : StartPurchase(db, u, next, t) \/ SubmitWarehouse(db, u, next, t) => u = db.handler
    BY <1>2 DEF StartPurchase, SubmitWarehouse, Operations, TransitionRules
  <2>2. QED BY <1>5, <2>1 DEF HandlePurchaser, SavePurchaseFields, SavePurchaseItem,
               RecordPurchase, RequireCurrentHandler
<1>6. CASE HandleWarehouse(db, u, Token)
  <2>1. \A t : Complete(db, u, None, t) => u = db.handler
    BY <1>2 DEF Complete, Operations, TransitionRules
  <2>2. QED BY <1>6, <2>1 DEF HandleWarehouse, SaveWarehouseFields, AppendReceipt, RequireCurrentHandler
<1>7. QED BY <1>3, <1>4, <1>5, <1>6 DEF Handle

\* The log is only appended to.
LEMMA LogGrows ==
  ASSUME TypeOK, Saves \/ Logs
  PROVE  /\ Len(db.log) \in Nat /\ Len(db.log) <= Len(db'.log)
         /\ \A n \in 1..Len(db.log) : n \in 1..Len(db'.log) /\ db'.log[n] = db.log[n]
<1>1. db.log \in Seq(LogEntry)
  BY RowFields DEF TypeOK
<1>2. CASE db'.log = db.log
  BY <1>1, <1>2
<1>3. ASSUME NEW e \in LogEntry, db'.log = Append(db.log, e)
      PROVE  /\ Len(db.log) <= Len(db'.log)
             /\ \A n \in 1..Len(db.log) : n \in 1..Len(db'.log) /\ db'.log[n] = db.log[n]
  BY <1>1, <1>3
<1>4. db'.log = db.log \/ \E e \in LogEntry : db'.log = Append(db.log, e)
  BY DEF Saves, Logs, Records
<1>5. Len(db.log) \in Nat
  BY <1>1
<1>6. QED BY <1>2, <1>3, <1>4, <1>5

LEMMA LoggedStays ==
  ASSUME TypeOK, Saves \/ Logs, NEW ops, NEW u, LoggedBy(ops, u)
  PROVE  LoggedBy(ops, u)'
<1>1. PICK n \in 1..Len(db.log) : db.log[n].action \in ops /\ db.log[n].by = u
  BY DEF LoggedBy
<1>2. n \in 1..Len(db'.log) /\ db'.log[n] = db.log[n]
  BY LogGrows
<1>3. QED BY <1>1, <1>2 DEF LoggedBy

\* A step that is not a save is logged by the handler.
LEMMA EntryLogged ==
  ASSUME TypeOK, NEW e \in LogEntry, Records(e), NEW ops, e.action \in ops
  PROVE  LoggedBy(ops, e.by)'
<1>1. db.log \in Seq(LogEntry) /\ db'.log = Append(db.log, e)
  BY RowFields DEF TypeOK, Records
<1>2. Len(db'.log) \in 1..Len(db'.log) /\ db'.log[Len(db'.log)] = e
  BY <1>1
<1>3. QED BY <1>2 DEF LoggedBy

LEMMA ExplainedStep ==
  ASSUME Custody, Explained, Saves \/ Logs
  PROVE  Explained'
<1> USE DEF Custody
<1>1. CASE db'.status = db.status
  <2>1. db'.applicant = db.applicant
    BY DEF Saves, Logs, Records
  <2>2. QED BY <1>1, <2>1, LoggedStays DEF Explained
<1>2. CASE db'.status # db.status
  <2>1. PICK e \in LogEntry : Records(e) /\ HandsOver
    BY <1>2 DEF Saves, Logs
  <2>2. /\ <<e.action, db'.status>> \in Steps
        /\ <<db.status, db'.status>> \in Flow!Edges
        /\ e.by = IF db.status \in {"DRAFT", "REJECTED"} THEN db.applicant ELSE db.handler
        /\ db'.applicant = db.applicant
    BY <1>2, <2>1 DEF Records, HandsOver
  <2>3. e.by \in Employees
    BY DEF LogEntry
  <2>4. db'.status = "PENDING_REVIEW" => LoggedBy({"SUBMIT_REVIEW", "RESUBMIT_REVIEW"}, db.applicant)'
    <3>1. db'.status = "PENDING_REVIEW" =>
            e.action \in {"SUBMIT_REVIEW", "RESUBMIT_REVIEW"} /\ e.by = db.applicant
      BY <2>2 DEF Steps, Flow!Edges
    <3>2. QED BY <2>1, <2>2, <3>1, EntryLogged
  <2>5. db'.status = "REJECTED" => LoggedBy({"REJECT"}, e.by)'
    <3>1. db'.status = "REJECTED" => e.action = "REJECT"
      BY <2>2 DEF Steps
    <3>2. QED BY <2>1, <3>1, EntryLogged
  <2>6. db'.status = "PENDING_PURCHASE" => LoggedBy({"SUBMIT_PURCHASER"}, e.by)'
    <3>1. db'.status = "PENDING_PURCHASE" => e.action = "SUBMIT_PURCHASER"
      BY <2>2 DEF Steps
    <3>2. QED BY <2>1, <3>1, EntryLogged
  <2>7. QED BY <2>2, <2>3, <2>4, <2>5, <2>6 DEF Explained
<1>3. QED BY <1>1, <1>2

\* Nothing but a purchase list that is not empty is submitted, and no later step
\* empties it.
LEMMA AsksStep ==
  ASSUME Custody, Asks, NEW u \in Employees, Handle(db, u, Token)
  PROVE  Asks'
<1> USE DEF Custody
<1>1. Saves \/ Logs
  BY HandleCustody
<1>2. CASE db.status \in Approved
  <2>1. db'.items = db.items
    BY <1>2, ApprovedStep DEF ScopeKept
  <2>2. QED BY <1>2, <2>1 DEF Asks, Approved, Present
<1>3. CASE HandleApplicant(db, u, Token)
  <2>1. ASSUME NEW payload, ReplaceRequestItems(db, u, payload)
        PROVE  Asks'
    <3>1. db'.status = db.status /\ db.status \in {"DRAFT", "REJECTED"}
      BY <2>1 DEF ReplaceRequestItems, TypeOK, Rows
    <3>2. QED BY <3>1 DEF Asks
  <2>2. ASSUME NEW supplied, NEW name \in Names \cup {None}, NEW qty \in Quantities \cup {None},
               SaveApplicantFields(db, u, supplied, name, qty)
        PROVE  Asks'
    <3> DEFINE form == MergedForm(db.form, supplied, name, qty)
    <3>1. form \in Form
      BY RowFields DEF TypeOK, Form, MergedForm
    <3>2. ASSUME NEW i \in Items, form.name # None, form.qty # None
          PROVE  HeaderItem(db, form, i) # None
      <4>1. HeaderItem(db, form, i) \in Item
        BY <3>1, <3>2, RowFields DEF HeaderItem, Item, Form, TypeOK
      <4>2. QED BY <4>1, NoneAssumption
    <3>3. db'.status = db.status
      BY <2>2 DEF SaveApplicantFields, TypeOK, Rows
    <3>4. \/ db'.items = db.items
          \/ /\ form.name # None /\ form.qty # None
             /\ \E i \in Items : db'.items = [db.items EXCEPT ![i] = HeaderItem(db, form, i)]
      BY <2>2 DEF SaveApplicantFields, TypeOK, Rows
    <3> HIDE DEF form
    <3>5. Present(db.items) # {} => Present(db'.items) # {}
      BY <3>2, <3>4, RowFields DEF Present, TypeOK
    <3>6. QED BY <3>3, <3>5 DEF Asks
  <2>3. ASSUME NEW op, NEW next, NEW t, SubmitReview(db, u, op, next, t)
        PROVE  Asks'
    <3>1. Present(db.items) # {}
      BY <2>3 DEF SubmitReview
    <3>2. db'.items = db.items
      BY <2>3 DEF SubmitReview, Transitioned, TypeOK, Rows
    <3>3. QED BY <3>1, <3>2 DEF Asks, Present
  <2>4. QED BY <1>3, <2>1, <2>2, <2>3 DEF HandleApplicant
<1>4. CASE HandleManager(db, u, Token)
  <2>1. db.status = "PENDING_REVIEW"
    BY <1>4 DEF HandleManager, SaveReviewItems, SaveReviewFields, Reject, SubmitPurchaser,
       CanTransition, TransitionRules
  <2>2. db'.items = db.items
    BY <1>4 DEF HandleManager, SaveReviewItems, SaveReviewFields, Reject, SubmitPurchaser,
       Transitioned, TypeOK, Rows
  <2>3. QED BY <2>1, <2>2 DEF Asks, Present
<1>5. CASE HandlePurchaser(db, u, Token) \/ HandleWarehouse(db, u, Token)
  <2>1. db.status \in Approved
    BY <1>5 DEF HandlePurchaser, StartPurchase, SavePurchaseFields, SavePurchaseItem,
       RecordPurchase, SubmitWarehouse, HandleWarehouse, SaveWarehouseFields, AppendReceipt,
       Complete, CanTransition, TransitionRules, Approved
  <2>2. QED BY <1>2, <2>1
<1>6. QED BY <1>3, <1>4, <1>5 DEF Handle

LEMMA RequestStep ==
  ASSUME RequestInv, NEW u \in Employees, Handle(db, u, Token)
  PROVE  RequestInv'
<1>1. Saves \/ Logs
  BY HandleCustody DEF RequestInv, Custody
<1>2. QED BY <1>1, CustodyStep, FulfilmentStep, ExplainedStep, AsksStep DEF RequestInv

LEMMA RequestInit == Init => RequestInv
<1>1. Init => db.status = "DRAFT"
  BY DEF Init
<1>2. QED BY <1>1, InitCustody, InitFulfilment DEF RequestInv, Explained, Asks

-----------------------------------------------------------------------------
(* Calls *)

LEMMA ButtonFields ==
  ASSUME NEW b \in Button
  PROVE  /\ b.action \in CardActions /\ b.user \in Employees /\ b.seen \in Rows \cup {None}
         /\ b.resubmit \in BOOLEAN /\ b.item \in Items \cup {None}
         /\ b.next \in Employees \cup {None} /\ b.token \in Token \cup {None}
  BY DEF Button

LEMMA ApplicantHandles ==
  ASSUME TypeOK, NEW b \in Button, Carries(b), ApplicantCall(b)
  PROVE  HandleApplicant(db, b.user, Token)
<1>1. db.items \in [Items -> Item \cup {None}]
  BY RowFields DEF TypeOK
<1>2. ASSUME b.action = "applicant.add_item", NEW i \in Items, NEW item \in Item,
             ReplaceRequestItems(db, b.user, [db.items EXCEPT ![i] = item])
      PROVE  HandleApplicant(db, b.user, Token)
  <2>1. [db.items EXCEPT ![i] = item] \in [Items -> Item \cup {None}]
    BY <1>1
  <2>2. QED BY <1>2, <2>1 DEF HandleApplicant
<1>3. ASSUME b.action = "applicant.remove_item",
             ReplaceRequestItems(db, b.user, [db.items EXCEPT ![b.item] = None])
      PROVE  HandleApplicant(db, b.user, Token)
  <2>1. [db.items EXCEPT ![b.item] = None] \in [Items -> Item \cup {None}]
    BY <1>1
  <2>2. QED BY <1>3, <2>1 DEF HandleApplicant
<1>4. ASSUME NEW name \in Names \cup {None}, NEW qty \in Quantities,
             SaveApplicantFields(db, b.user, {"name", "qty"}, name, qty)
      PROVE  HandleApplicant(db, b.user, Token)
  <2>1. {"name", "qty"} \in SUBSET {"name", "qty"} /\ qty \in Quantities \cup {None}
    OBVIOUS
  <2>2. QED BY <1>4, <2>1 DEF HandleApplicant
<1>5. ASSUME b.action = "applicant.confirm", NEW op \in {"SUBMIT_REVIEW", "RESUBMIT_REVIEW"},
             SubmitReview(db, b.user, op, b.next, b.token)
      PROVE  HandleApplicant(db, b.user, Token)
  <2>1. b.token \in Token
    BY <1>5, ButtonFields DEF Carries, TokenActions
  <2>2. b.next \in Employees
    BY <1>5 DEF SubmitReview, CanTransition, NextHandler, TransitionRules
  <2>3. QED BY <1>5, <2>1, <2>2 DEF HandleApplicant
<1>6. QED BY <1>2, <1>3, <1>4, <1>5 DEF ApplicantCall

LEMMA ManagerHandles ==
  ASSUME TypeOK, NEW b \in Button, Carries(b), ManagerCall(b)
  PROVE  HandleManager(db, b.user, Token)
<1>1. ASSUME NEW priced \in SUBSET Items,
             SaveReviewItems(db, b.user, Present(db.items), priced)
      PROVE  HandleManager(db, b.user, Token)
  <2>1. Present(db.items) \in SUBSET Items
    BY DEF Present
  <2>2. QED BY <1>1, <2>1 DEF HandleManager
<1>2. ASSUME NEW price \in Prices, NEW proposal \in Proposals,
             SaveReviewFields(db, b.user, price, proposal)
      PROVE  HandleManager(db, b.user, Token)
  <2>1. price \in {"omitted", "null", "given"}
    BY CardAssumption
  <2>2. QED BY <1>2, <2>1 DEF HandleManager
<1>3. ASSUME b.action = "building_manager.confirm_reject",
             Reject(db, b.user, db.applicant, b.token)
      PROVE  HandleManager(db, b.user, Token)
  <2>1. b.token \in Token /\ db.applicant \in Employees
    BY <1>3, ButtonFields, RowFields DEF Carries, TokenActions, TypeOK
  <2>2. QED BY <1>3, <2>1 DEF HandleManager
<1>4. ASSUME b.action = "building_manager.confirm_submit_purchaser",
             SubmitPurchaser(db, b.user, b.next, b.token)
      PROVE  HandleManager(db, b.user, Token)
  <2>1. b.token \in Token
    BY <1>4, ButtonFields DEF Carries, TokenActions
  <2>2. b.next \in Employees
    BY <1>4 DEF SubmitPurchaser, CanTransition, NextHandler, TransitionRules
  <2>3. QED BY <1>4, <2>1, <2>2 DEF HandleManager
<1>5. \A price \in Prices :
        (IF price = "given" THEN Present(db.items) ELSE {}) \in SUBSET Items
  BY DEF Present
<1>6. QED BY <1>1, <1>2, <1>3, <1>4, <1>5 DEF ManagerCall

LEMMA PurchaserHandles ==
  ASSUME TypeOK, NEW b \in Button, Carries(b), PurchaserCall(b)
  PROVE  HandlePurchaser(db, b.user, Token)
<1>1. b.action \in TokenActions => b.token \in Token
  BY ButtonFields DEF Carries
<1>2. ASSUME b.action = "purchaser.start_purchase",
             StartPurchase(db, b.user, db.handler, b.token)
      PROVE  HandlePurchaser(db, b.user, Token)
  <2>1. db.handler \in Employees
    BY <1>2, ButtonFields DEF StartPurchase, CanTransition, ValidActor, TransitionRules
  <2>2. QED BY <1>1, <1>2, <2>1 DEF HandlePurchaser, TokenActions
<1>3. ASSUME b.action = "purchaser.save_purchase_item",
             SavePurchaseItem(db, b.user, b.item, FALSE, b.token)
      PROVE  HandlePurchaser(db, b.user, Token)
  <2>1. b.item \in Items
    BY <1>3 DEF Carries
  <2>2. QED BY <1>1, <1>3, <2>1 DEF HandlePurchaser, TokenActions
<1>4. ASSUME b.action = "purchaser.confirm_submit_warehouse",
             SubmitWarehouse(db, b.user, b.next, b.token)
      PROVE  HandlePurchaser(db, b.user, Token)
  BY <1>1, <1>4, ButtonFields DEF HandlePurchaser, TokenActions
<1>5. ASSUME NEW i \in Items, SavePurchaseFields(db, b.user, i, TRUE)
      PROVE  HandlePurchaser(db, b.user, Token)
  BY <1>5 DEF HandlePurchaser
<1>6. QED BY <1>2, <1>3, <1>4, <1>5 DEF PurchaserCall

LEMMA WarehouseHandles ==
  ASSUME TypeOK, NEW b \in Button, Carries(b), WarehouseCall(b)
  PROVE  HandleWarehouse(db, b.user, Token)
<1>1. b.action \in TokenActions => b.token \in Token
  BY ButtonFields DEF Carries
<1>2. ASSUME b.action = "warehouse.append_receipt", NEW q \in Quantities,
             AppendReceipt(db, b.user, b.item, q, b.token)
      PROVE  HandleWarehouse(db, b.user, Token)
  <2>1. b.item \in Items
    BY <1>2 DEF Carries
  <2>2. QED BY <1>1, <1>2, <2>1 DEF HandleWarehouse, TokenActions
<1>3. ASSUME b.action = "warehouse.confirm_complete", Complete(db, b.user, None, b.token)
      PROVE  HandleWarehouse(db, b.user, Token)
  BY <1>1, <1>3 DEF HandleWarehouse, TokenActions
<1>4. QED BY <1>2, <1>3 DEF WarehouseCall, HandleWarehouse

\* The call of a press is a call of a handler, by the user who pressed.
LEMMA CallHandles ==
  ASSUME TypeOK, NEW b \in Button, Carries(b), Call(b)
  PROVE  Handle(db, b.user, Token)
  BY ApplicantHandles, ManagerHandles, PurchaserHandles, WarehouseHandles DEF Call, Handle

\* The version on a button tells whether the request is the one it shows.
LEMMA CallSeesCurrent ==
  ASSUME TypeOK, NEW b \in Button, Carries(b), b.action \in CallActions, ExpectedVersion(b)
  PROVE  b.seen = db
<1>1. b.seen \in Rows
  BY ButtonFields DEF Carries
<1>2. b.seen.version \in Nat /\ db.version \in Nat
  BY <1>1, RowFields DEF TypeOK
<1>3. b.seen = db \/ b.seen.version < db.version
  BY <1>1, CardAssumption DEF Carries
<1>4. QED BY <1>2, <1>3 DEF ExpectedVersion

-----------------------------------------------------------------------------
(* Tokens.  The log, the buttons and the presses have used fewer numbers     *)
(* than there are, so that a card always finds new ones.                     *)

LEMMA CountIsSize ==
  ASSUME NEW n \in Nat
  PROVE  IsFiniteSet(1..n) /\ Cardinality(1..n) = n
<1>1. 1 \in Int /\ n \in Int
  OBVIOUS
<1>2. IsFiniteSet(1..n) /\ Cardinality(1..n) = IF 1 > n THEN 0 ELSE n - 1 + 1
  BY <1>1, FS_Interval
<1>3. QED BY <1>2

LEMMA ImageIsSmall ==
  ASSUME NEW S, IsFiniteSet(S), NEW f, f = [x \in S |-> f[x]]
  PROVE  LET T == {f[x] : x \in S} IN IsFiniteSet(T) /\ Cardinality(T) <= Cardinality(S)
<1> DEFINE T == {f[x] : x \in S}
<1>1. f \in [S -> T]
  OBVIOUS
<1>2. f \in Surjection(S, T)
  BY <1>1 DEF Surjection
<1> HIDE DEF T
<1>3. IsFiniteSet(T) /\ Cardinality(T) <= Cardinality(S)
  BY <1>2, FS_Surjection
<1>4. QED BY <1>3 DEF T

LEMMA UnionIsSmall ==
  ASSUME NEW S, NEW T, NEW m \in Nat, NEW n \in Nat, IsFiniteSet(S), IsFiniteSet(T),
         Cardinality(S) <= m, Cardinality(T) <= n
  PROVE  IsFiniteSet(S \cup T) /\ Cardinality(S \cup T) <= m + n
<1>1. /\ IsFiniteSet(S \cup T) /\ IsFiniteSet(S \cap T)
      /\ Cardinality(S \cup T) = Cardinality(S) + Cardinality(T) - Cardinality(S \cap T)
  BY FS_Union, FS_Intersection
<1>2. Cardinality(S) \in Nat /\ Cardinality(T) \in Nat /\ Cardinality(S \cap T) \in Nat
  BY <1>1, FS_CardinalityType
<1>3. QED BY <1>1, <1>2

LEMMA FreshNumbersSuffice ==
  ASSUME TypeOK, ButtonsInv
  PROVE  /\ FreshNumbers \subseteq Nat \ {0} /\ IsFiniteSet(FreshNumbers)
         /\ IsFiniteSet(Items) /\ Cardinality(Items) \in Nat
         /\ Cardinality(Items) <= Cardinality(FreshNumbers)
<1> DEFINE k == Len(db.log) + MaxButtons + Cardinality(Slots) + Cardinality(Items)
           ofLog == [n \in 1..Len(db.log) |-> db.log[n].token.n]
           ofButtons == [b \in buttons |-> b.token.n]
           ofPress == [s \in Slots |-> press[s].button.token.n]
           A == {ofLog[n] : n \in 1..Len(db.log)}
           B == {ofButtons[b] : b \in buttons}
           C == {ofPress[s] : s \in Slots}
           taken == A \cup B \cup C
<1>1. /\ Len(db.log) \in Nat /\ MaxButtons \in Nat
      /\ IsFiniteSet(Slots) /\ Cardinality(Slots) \in Nat
      /\ IsFiniteSet(Items) /\ Cardinality(Items) \in Nat
      /\ IsFiniteSet(buttons) /\ Cardinality(buttons) \in Nat /\ Cardinality(buttons) <= MaxButtons
  <2>1. db.log \in Seq(LogEntry)
    BY RowFields DEF TypeOK
  <2>2. QED BY <2>1, CardAssumption, ItemsAssumption, FS_CardinalityType DEF ButtonsInv
<1>2. IsFiniteSet(A) /\ Cardinality(A) <= Len(db.log)
  <2>1. IsFiniteSet(1..Len(db.log)) /\ Cardinality(1..Len(db.log)) = Len(db.log)
    BY <1>1, CountIsSize
  <2>2. IsFiniteSet(A) /\ Cardinality(A) <= Cardinality(1..Len(db.log))
    BY <2>1, ImageIsSmall
  <2>3. QED BY <2>1, <2>2
<1>3. IsFiniteSet(B) /\ Cardinality(B) <= MaxButtons
  <2>1. IsFiniteSet(B) /\ Cardinality(B) <= Cardinality(buttons)
    BY <1>1, ImageIsSmall
  <2>2. Cardinality(B) \in Nat
    BY <2>1, FS_CardinalityType
  <2>3. QED BY <1>1, <2>1, <2>2
<1>4. IsFiniteSet(C) /\ Cardinality(C) <= Cardinality(Slots)
  BY <1>1, ImageIsSmall
<1>5. ASSUME NEW n \in (1..k) \ taken PROVE n \in FreshNumbers
  <2>1. ASSUME NEW t \in UsedTokens(db) PROVE t.n # n
    <3>1. PICK m \in 1..Len(db.log) : t = db.log[m].token
      BY DEF UsedTokens
    <3>2. ofLog[m] \in A /\ ofLog[m] = t.n
      BY <3>1
    <3>3. QED BY <3>2
  <2>2. ASSUME NEW t \in TokensOnCards PROVE t.n # n
    <3>1. CASE \E b \in buttons : t = b.token
      <4>1. PICK b \in buttons : t = b.token
        BY <3>1
      <4>2. ofButtons[b] \in B /\ ofButtons[b] = t.n
        BY <4>1
      <4>3. QED BY <4>2
    <3>2. CASE \E s \in Slots : t = press[s].button.token
      <4>1. PICK s \in Slots : t = press[s].button.token
        BY <3>2
      <4>2. ofPress[s] \in C /\ ofPress[s] = t.n
        BY <4>1
      <4>3. QED BY <4>2
    <3>3. QED BY <3>1, <3>2 DEF TokensOnCards
  <2>3. QED BY <2>1, <2>2 DEF FreshNumbers
<1> HIDE DEF A, B, C
<1>6. IsFiniteSet(taken) /\ Cardinality(taken) <= Len(db.log) + MaxButtons + Cardinality(Slots)
  <2>1. IsFiniteSet(A \cup B) /\ Cardinality(A \cup B) <= Len(db.log) + MaxButtons
    BY <1>1, <1>2, <1>3, UnionIsSmall
  <2>2. Len(db.log) + MaxButtons \in Nat
    BY <1>1
  <2>3. QED BY <1>1, <1>4, <2>1, <2>2, UnionIsSmall
<1> HIDE DEF taken
<1>7. /\ IsFiniteSet(1..k) /\ Cardinality(1..k) = k /\ k \in Nat
  <2>1. k \in Nat
    BY <1>1
  <2>2. QED BY <2>1, CountIsSize
<1>8. FreshNumbers \subseteq 1..k
  BY DEF FreshNumbers
<1>9. /\ IsFiniteSet(FreshNumbers) /\ Cardinality(FreshNumbers) \in Nat
  BY <1>7, <1>8, FS_Subset, FS_CardinalityType
<1>10. Cardinality((1..k) \ taken) <= Cardinality(FreshNumbers)
  BY <1>5, <1>9, FS_Subset
<1>11. /\ Cardinality((1..k) \ taken) = k - Cardinality((1..k) \cap taken)
       /\ Cardinality((1..k) \cap taken) <= Cardinality(taken)
       /\ Cardinality(taken) \in Nat /\ Cardinality((1..k) \cap taken) \in Nat
  BY <1>6, <1>7, FS_Difference, FS_Intersection, FS_CardinalityType
<1>12. Cardinality(Items) <= Cardinality(FreshNumbers)
  BY <1>1, <1>6, <1>7, <1>9, <1>10, <1>11
<1>13. FreshNumbers \subseteq Nat \ {0}
  BY <1>7, <1>8
<1>14. QED BY <1>1, <1>9, <1>12, <1>13

\* The tokens a card carries are new.
LEMMA NewTokens ==
  ASSUME TypeOK, ButtonsInv
  PROVE  /\ NewToken \in Token \ UsedTokens(db)
         /\ \A i \in Items : ItemTokens[i] \in Token \ UsedTokens(db)
<1>1. ASSUME NEW n \in FreshNumbers
      PROVE  [legacy |-> FALSE, n |-> n] \in Token \ UsedTokens(db)
  <2>1. n \in Nat
    BY FreshNumbersSuffice
  <2>2. \A t \in UsedTokens(db) : t.n # n
    BY DEF FreshNumbers
  <2>3. QED BY <2>1, <2>2 DEF Token
<1>2. FreshNumbers # {}
  <2>1. Cardinality(Items) # 0
    BY FreshNumbersSuffice, FS_EmptySet, CardAssumption
  <2>2. FreshNumbers = {} => Cardinality(FreshNumbers) = 0
    BY FS_EmptySet
  <2>3. QED BY <2>1, <2>2, FreshNumbersSuffice
<1>3. ExistsInjection(Items, FreshNumbers)
  <2> DEFINE m == Cardinality(Items)
             n == Cardinality(FreshNumbers)
  <2>1. /\ m \in Nat /\ n \in Nat /\ m <= n
        /\ ExistsBijection(1..m, Items) /\ ExistsBijection(1..n, FreshNumbers)
    BY FreshNumbersSuffice, FS_CardinalityType
  <2> HIDE DEF m, n
  <2>2. ExistsBijection(Items, 1..m)
    BY <2>1, Fun_ExistsBijSymmetric
  <2>3. ExistsInjection(Items, 1..m) /\ ExistsInjection(1..n, FreshNumbers)
    BY <2>1, <2>2 DEF ExistsBijection, ExistsInjection, Bijection
  <2>4. ExistsInjection(1..m, 1..n)
    BY <2>1, Fun_NatInjLeq
  <2>5. QED BY <2>3, <2>4, Fun_ExistsInjTransitive
<1>4. \E g \in [Items -> FreshNumbers] : \A i, j \in Items : g[i] = g[j] => i = j
  <2>1. PICK g : g \in Injection(Items, FreshNumbers)
    BY <1>3 DEF ExistsInjection
  <2>2. g \in [Items -> FreshNumbers] /\ \A i, j \in Items : g[i] = g[j] => i = j
    BY <2>1 DEF Injection, IsInjective
  <2>3. QED BY <2>2, Zenon
<1> DEFINE f == CHOOSE g \in [Items -> FreshNumbers] : \A i, j \in Items : g[i] = g[j] => i = j
<1>5. f \in [Items -> FreshNumbers]
  BY <1>4
<1>6. \A i \in Items : ItemTokens[i] = [legacy |-> FALSE, n |-> f[i]]
  BY DEF ItemTokens
<1> HIDE DEF f
<1>7. \A i \in Items : ItemTokens[i] \in Token \ UsedTokens(db)
  BY <1>1, <1>5, <1>6
<1>8. (CHOOSE n \in FreshNumbers : TRUE) \in FreshNumbers
  BY <1>2
<1>9. QED BY <1>1, <1>7, <1>8 DEF NewToken

-----------------------------------------------------------------------------
(* Cards.  What a card just made shows is the request as it is.              *)

LEMMA UsedAreTokens ==
  ASSUME TypeOK
  PROVE  UsedTokens(db) \subseteq Token
<1>1. db.log \in Seq(LogEntry)
  BY RowFields DEF TypeOK
<1>2. \A n \in 1..Len(db.log) : db.log[n] \in LogEntry
  BY <1>1
<1>3. QED BY <1>2 DEF UsedTokens, LogEntry

\* A button whose card is made now.
Fresh(b) ==
  /\ b \in Button
  /\ b.seen \in {None, db}
  /\ b.token \notin UsedTokens(db)
  /\ b.action \in CallActions => b.seen = db
  /\ b.action \in TokenActions => b.token # None
  /\ b.action \in {"applicant.remove_item", "purchaser.open_purchase_item",
                   "purchaser.save_purchase_item", "warehouse.append_receipt"} => b.item \in Items

LEMMA FreshCarries ==
  ASSUME TypeOK, NEW b, Fresh(b)
  PROVE  b \in Button /\ Carries(b)
<1>1. db # None
  BY CardAssumption DEF TypeOK
<1>2. QED BY <1>1 DEF Fresh, Carries

\* The actions whose buttons promise nothing.
Modest ==
  CardActions \ {"applicant.confirm_handler", "applicant.confirm",
                 "building_manager.confirm_submit_purchaser", "purchaser.start_purchase",
                 "purchaser.confirm_submit_warehouse", "warehouse.confirm_complete"}

LEMMA ModestIsGood ==
  ASSUME TypeOK, NEW b, Fresh(b), b.action \in Modest
  PROVE  Good(b)
  BY FreshCarries DEF Modest, Prepared, InCharge, Good

\* A button made of its parts.
Made(action, u, seen, resubmit, item, next, token) ==
  [action |-> action, user |-> u, seen |-> seen, resubmit |-> resubmit,
   item |-> item, next |-> next, token |-> token]

LEMMA PlainIsMade ==
  ASSUME NEW a, NEW u, NEW d
  PROVE  /\ Plain(a, u) = Made(a, u, None, FALSE, None, None, None)
         /\ Versioned(a, u, d) = Made(a, u, d, FALSE, None, None, None)
<1>1. Plain(a, u) = Made(a, u, None, FALSE, None, None, None)
  BY DEF Plain, Made
<1>2. PICK f : f = FALSE
  OBVIOUS
<1>3. Plain(a, u) = Made(a, u, None, f, None, None, None)
  BY <1>1, <1>2, Zenon
<1>4. [Made(a, u, None, f, None, None, None) EXCEPT !.seen = d] = Made(a, u, d, f, None, None, None)
  BY DEF Made
<1>5. Versioned(a, u, d) = Made(a, u, d, f, None, None, None)
  BY <1>3, <1>4 DEF Versioned
<1>6. QED BY <1>1, <1>2, <1>5, Zenon

\* What the cards start from: a button with the version or without it.
LEMMA BaseFields ==
  ASSUME TypeOK, NEW a \in CardActions, NEW u \in Employees, NEW b,
         b = Plain(a, u) \/ b = Versioned(a, u, db)
  PROVE  /\ b \in Button /\ b.action = a /\ b.user = u /\ b.token = None
         /\ b = Plain(a, u) => b.seen = None
         /\ b = Versioned(a, u, db) => b.seen = db
<1>1. PICK d \in {None, db} : /\ b = Made(a, u, d, FALSE, None, None, None)
                              /\ b = Plain(a, u) => d = None
                              /\ b = Versioned(a, u, db) => d = db
  <2>1. CASE b = Plain(a, u)
    <3>1. b = Made(a, u, None, FALSE, None, None, None)
      BY <2>1, PlainIsMade, Zenon
    <3>2. CASE b = Versioned(a, u, db)
      BY <2>1, <3>1, <3>2, PlainIsMade DEF Made
    <3>3. QED BY <2>1, <3>1, <3>2
  <2>2. CASE b # Plain(a, u)
    BY <2>2, PlainIsMade, Zenon
  <2>3. QED BY <2>1, <2>2
<1>2. d \in Rows \cup {None}
  BY DEF TypeOK
<1>3. b \in Button
  BY <1>1, <1>2 DEF Made, Button
<1>4. b.action = a /\ b.user = u /\ b.token = None /\ b.seen = d
  BY <1>1 DEF Made
<1>5. QED BY <1>1, <1>3, <1>4

\* A button made from one of these carries no token yet.
LEMMA BaseIsFresh ==
  ASSUME TypeOK, NEW a \in CardActions, NEW u \in Employees, NEW b,
         b = Versioned(a, u, db) \/ (b = Plain(a, u) /\ a \notin CallActions),
         a \in Modest \ TokenActions, a \notin {"applicant.remove_item", "purchaser.open_purchase_item"}
  PROVE  Good(b)
<1>1. /\ b \in Button /\ b.action = a /\ b.token = None
      /\ b.seen \in {None, db}
      /\ a \in CallActions => b.seen = db
  BY BaseFields
<1>2. None \notin UsedTokens(db)
  BY UsedAreTokens, CardAssumption
<1>3. /\ a \notin TokenActions
      /\ a \notin {"applicant.remove_item", "purchaser.open_purchase_item",
                   "purchaser.save_purchase_item", "warehouse.append_receipt"}
  BY DEF TokenActions
<1>4. Fresh(b)
  BY <1>1, <1>2, <1>3 DEF Fresh
<1>5. QED BY <1>1, <1>4, ModestIsGood

\* A base with its item and a token, as the cards of the purchaser and the
\* warehouse manager have them.
LEMMA ItemIsFresh ==
  ASSUME TypeOK, NEW m \in Button, NEW b, NEW i \in Items \cup {None}, NEW t \in Token \cup {None},
         b = [m EXCEPT !.item = i, !.token = t], t \notin UsedTokens(db),
         m.seen \in {None, db},
         m.action \in CallActions => m.seen = db,
         m.action \in TokenActions => t # None,
         m.action \in {"applicant.remove_item", "purchaser.open_purchase_item",
                       "purchaser.save_purchase_item", "warehouse.append_receipt"} => i \in Items
  PROVE  Fresh(b) /\ b.action = m.action /\ b.user = m.user /\ b.seen = m.seen /\ b.next = m.next
<1>1. b \in Button
  BY DEF Button
<1>2. /\ b.action = m.action /\ b.user = m.user /\ b.seen = m.seen /\ b.next = m.next
      /\ b.item = i /\ b.token = t
  BY DEF Button
<1>3. QED BY <1>1, <1>2 DEF Fresh

LEMMA ApplicantDetailGood ==
  ASSUME TypeOK, NEW u \in Employees, NEW b \in ApplicantDetail(u, db)
  PROVE  Good(b)
<1>1. {"applicant.add_item", "applicant.prepare", "applicant.remove_item"}
        \subseteq (CardActions \cap Modest \cap CallActions) \ TokenActions
  BY DEF CardActions, CardRoles, ActionsOf, Modest, CallActions, ReadFirst, TokenActions
<1>2. CASE b = Versioned("applicant.add_item", u, db)
  <2>1. PICK a : a = "applicant.add_item"
    OBVIOUS
  <2>2. b = Versioned(a, u, db)
    BY <1>2, <2>1, Zenon
  <2>3. QED BY <1>1, <2>1, <2>2, BaseIsFresh
<1>3. CASE b = [Versioned("applicant.prepare", u, db) EXCEPT !.resubmit = db.status = "REJECTED"]
  <2>1. PICK r \in BOOLEAN : r = (db.status = "REJECTED")
    OBVIOUS
  <2>2. PICK m : m = Versioned("applicant.prepare", u, db)
    OBVIOUS
  <2>3. b = [m EXCEPT !.resubmit = r]
    BY <1>3, <2>1, <2>2
  <2>4. m \in Button /\ m.action = "applicant.prepare" /\ m.token = None /\ m.seen = db
    BY <1>1, <2>2, BaseFields
  <2>5. b \in Button /\ b.action = "applicant.prepare" /\ b.token = None /\ b.seen = db
    BY <2>3, <2>4 DEF Button
  <2>6. Fresh(b)
    BY <1>1, <2>5, UsedAreTokens, CardAssumption DEF Fresh
  <2>7. QED BY <1>1, <2>5, <2>6, ModestIsGood
<1>4. ASSUME NEW i \in Present(db.items), b = [Versioned("applicant.remove_item", u, db) EXCEPT !.item = i]
      PROVE  Good(b)
  <2>1. PICK m : m = Versioned("applicant.remove_item", u, db)
    OBVIOUS
  <2>2. b = [m EXCEPT !.item = i] /\ i \in Items
    BY <1>4, <2>1 DEF Present
  <2>3. m \in Button /\ m.action = "applicant.remove_item" /\ m.token = None /\ m.seen = db
    BY <1>1, <2>1, BaseFields
  <2>4. /\ b \in Button /\ b.action = "applicant.remove_item" /\ b.token = None /\ b.seen = db
        /\ b.item = i
    BY <2>2, <2>3 DEF Button
  <2>5. Fresh(b)
    BY <1>1, <2>2, <2>4, UsedAreTokens, CardAssumption DEF Fresh
  <2>6. QED BY <1>1, <2>4, <2>5, ModestIsGood
<1>5. QED BY <1>2, <1>3, <1>4 DEF ApplicantDetail

\* The buttons that carry no more than the version.
LEMMA BasesAreGood ==
  ASSUME TypeOK, NEW u \in Employees, NEW b,
         \/ \E a \in {"building_manager.save_review_items", "building_manager.save_review_fields",
                      "purchaser.save_purchase_fields", "warehouse.save_fields"} : b = Versioned(a, u, db)
         \/ \E a \in {"building_manager.prepare_reject", "building_manager.prepare_submit_purchaser",
                      "purchaser.prepare_submit_warehouse", "warehouse.prepare_complete"} : b = Plain(a, u)
  PROVE  Good(b)
<1>1. {"building_manager.save_review_items", "building_manager.save_review_fields",
       "purchaser.save_purchase_fields", "warehouse.save_fields"}
        \subseteq (CardActions \cap Modest) \ TokenActions
  BY DEF CardActions, CardRoles, ActionsOf, Modest, TokenActions
<1>2. {"building_manager.prepare_reject", "building_manager.prepare_submit_purchaser",
       "purchaser.prepare_submit_warehouse", "warehouse.prepare_complete"}
        \subseteq (CardActions \cap Modest) \ (TokenActions \cup CallActions)
  BY DEF CardActions, CardRoles, ActionsOf, Modest, CallActions, ReadFirst, TokenActions
<1>3. ASSUME NEW a \in {"building_manager.save_review_items", "building_manager.save_review_fields",
                        "purchaser.save_purchase_fields", "warehouse.save_fields"},
             b = Versioned(a, u, db)
      PROVE  Good(b)
  BY <1>1, <1>3, BaseIsFresh
<1>4. ASSUME NEW a \in {"building_manager.prepare_reject", "building_manager.prepare_submit_purchaser",
                        "purchaser.prepare_submit_warehouse", "warehouse.prepare_complete"},
             b = Plain(a, u)
      PROVE  Good(b)
  BY <1>2, <1>4, BaseIsFresh
<1>5. QED BY <1>3, <1>4

LEMMA ManagerDetailGood ==
  ASSUME TypeOK, NEW u \in Employees, NEW b \in ManagerDetail(u, db)
  PROVE  Good(b)
<1>1. \/ \E a \in {"building_manager.save_review_items", "building_manager.save_review_fields",
                   "purchaser.save_purchase_fields", "warehouse.save_fields"} : b = Versioned(a, u, db)
      \/ \E a \in {"building_manager.prepare_reject", "building_manager.prepare_submit_purchaser",
                   "purchaser.prepare_submit_warehouse", "warehouse.prepare_complete"} : b = Plain(a, u)
  BY Zenon DEF ManagerDetail
<1>2. QED BY <1>1, BasesAreGood

LEMMA PurchaserDetailGood ==
  ASSUME TypeOK, ButtonsInv, NEW u \in Employees, NEW b \in PurchaserDetail(u, db)
  PROVE  Good(b)
<1>1. /\ {"purchaser.start_purchase", "purchaser.open_purchase_item"} \subseteq CardActions
      /\ "purchaser.open_purchase_item" \in Modest \ (CallActions \cup TokenActions)
  BY DEF CardActions, CardRoles, ActionsOf, Modest, CallActions, ReadFirst, TokenActions
<1>2. ASSUME db.status = "PENDING_PURCHASE",
             b = [Versioned("purchaser.start_purchase", u, db) EXCEPT !.token = NewToken]
      PROVE  Good(b)
  <2>1. PICK m : m = Versioned("purchaser.start_purchase", u, db)
    OBVIOUS
  <2>2. PICK t : t = NewToken
    OBVIOUS
  <2>3. b = [m EXCEPT !.token = t]
    BY <1>2, <2>1, <2>2
  <2>4. m \in Button /\ m.action = "purchaser.start_purchase" /\ m.seen = db
    BY <1>1, <2>1, BaseFields
  <2>5. t \in Token /\ t \notin UsedTokens(db)
    BY <2>2, NewTokens
  <2>6. b \in Button /\ b.action = "purchaser.start_purchase" /\ b.seen = db /\ b.token = t
    BY <2>3, <2>4, <2>5 DEF Button
  <2>7. Fresh(b)
    BY <2>5, <2>6, CardAssumption DEF Fresh
  <2>8. QED BY <1>2, <2>6, <2>7, FreshCarries DEF Good, Prepared, InCharge
<1>3. ASSUME NEW i \in Items, b = [Plain("purchaser.open_purchase_item", u) EXCEPT !.item = i]
      PROVE  Good(b)
  <2>1. PICK m : m = Plain("purchaser.open_purchase_item", u)
    OBVIOUS
  <2>2. b = [m EXCEPT !.item = i]
    BY <1>3, <2>1
  <2>3. m \in Button /\ m.action = "purchaser.open_purchase_item" /\ m.token = None /\ m.seen = None
    BY <1>1, <2>1, BaseFields
  <2>4. /\ b \in Button /\ b.action = "purchaser.open_purchase_item" /\ b.token = None
        /\ b.seen = None /\ b.item = i
    BY <2>2, <2>3 DEF Button
  <2>5. Fresh(b)
    BY <1>1, <2>4, UsedAreTokens, CardAssumption DEF Fresh
  <2>6. QED BY <1>1, <2>4, <2>5, ModestIsGood
<1>4. CASE b = Plain("purchaser.prepare_submit_warehouse", u)
  BY <1>4, BasesAreGood
<1>5. CASE b = Versioned("purchaser.save_purchase_fields", u, db)
  BY <1>5, BasesAreGood
<1>6. \/ /\ db.status = "PENDING_PURCHASE"
         /\ b = [Versioned("purchaser.start_purchase", u, db) EXCEPT !.token = NewToken]
      \/ b = Plain("purchaser.prepare_submit_warehouse", u)
      \/ \E i \in Items : b = [Plain("purchaser.open_purchase_item", u) EXCEPT !.item = i]
      \/ b = Versioned("purchaser.save_purchase_fields", u, db)
  BY DEF PurchaserDetail, Present
<1>7. QED BY <1>2, <1>3, <1>4, <1>5, <1>6

LEMMA WarehouseDetailGood ==
  ASSUME TypeOK, ButtonsInv, NEW u \in Employees, NEW b \in WarehouseDetail(u, db)
  PROVE  Good(b)
<1>1. "warehouse.append_receipt" \in Modest
  BY DEF CardActions, CardRoles, ActionsOf, Modest
<1>2. ASSUME NEW i \in Items,
             b = [Versioned("warehouse.append_receipt", u, db) EXCEPT !.item = i, !.token = ItemTokens[i]]
      PROVE  Good(b)
  <2>1. PICK m : m = Versioned("warehouse.append_receipt", u, db)
    OBVIOUS
  <2>2. PICK t : t = ItemTokens[i]
    OBVIOUS
  <2>3. b = [m EXCEPT !.item = i, !.token = t]
    BY <1>2, <2>1, <2>2
  <2>4. m \in Button /\ m.action = "warehouse.append_receipt" /\ m.seen = db
    BY <1>1, <2>1, BaseFields DEF Modest
  <2>5. t \in Token /\ t \notin UsedTokens(db)
    BY <2>2, NewTokens
  <2>6. /\ b \in Button /\ b.action = "warehouse.append_receipt" /\ b.seen = db
        /\ b.token = t /\ b.item = i
    BY <2>3, <2>4, <2>5 DEF Button
  <2>7. Fresh(b)
    BY <2>5, <2>6, CardAssumption DEF Fresh
  <2>8. QED BY <1>1, <2>6, <2>7, ModestIsGood
<1>3. CASE b = Plain("warehouse.prepare_complete", u)
  BY <1>3, BasesAreGood
<1>4. CASE b = Versioned("warehouse.save_fields", u, db)
  BY <1>4, BasesAreGood
<1>5. RequiresWarehouse(db) \subseteq Items
  BY DEF RequiresWarehouse, Present
<1>6. QED BY <1>2, <1>3, <1>4, <1>5 DEF WarehouseDetail

\* Every button of a detail card keeps what it promises.
LEMMA DetailGood ==
  ASSUME TypeOK, ButtonsInv, NEW role \in CardRoles, NEW u \in Employees,
         NEW b \in Detail(role, u, db)
  PROVE  Good(b)
BY ApplicantDetailGood, ManagerDetailGood, PurchaserDetailGood, WarehouseDetailGood
   DEF Detail, CardRoles

-----------------------------------------------------------------------------
(* The cards that lead to a confirmation *)

LEMMA RoleHasAction ==
  ASSUME NEW b, b.action \in CardActions
  PROVE  /\ RoleOf(b) \in CardRoles
         /\ b.action \in ActionsOf(RoleOf(b))
         /\ \A role \in CardRoles : b.action \in ActionsOf(role) => RoleOf(b) = role
<1>1. \A r, q \in CardRoles : b.action \in ActionsOf(r) /\ b.action \in ActionsOf(q) => r = q
  BY DEF CardRoles, ActionsOf
<1>2. \E r \in CardRoles : b.action \in ActionsOf(r)
  BY DEF CardActions
<1>3. RoleOf(b) \in CardRoles /\ b.action \in ActionsOf(RoleOf(b))
  BY <1>2 DEF RoleOf
<1>4. QED BY <1>1, <1>3

\* A button with a new token, made from the request as it is.
LEMMA ConfirmationIsFresh ==
  ASSUME TypeOK, ButtonsInv, NEW b \in Button, b.seen = db, b.token = NewToken,
         b.action \in {"applicant.remove_item", "purchaser.open_purchase_item",
                       "purchaser.save_purchase_item", "warehouse.append_receipt"} => b.item \in Items
  PROVE  Fresh(b)
BY NewTokens, CardAssumption DEF Fresh

LEMMA HandlerSelectionGood ==
  ASSUME TypeOK, NEW resubmit \in BOOLEAN, NEW b \in HandlerSelection(db.applicant, resubmit)
  PROVE  Good(b)
<1>1. /\ "applicant.confirm_handler" \in CardActions
      /\ "applicant.confirm_handler" \notin CallActions \cup TokenActions
  BY DEF CardActions, CardRoles, ActionsOf, CallActions, ReadFirst, TokenActions
<1>2. PICK m : m = Plain("applicant.confirm_handler", db.applicant)
  OBVIOUS
<1>3. PICK e \in Employees : b = [m EXCEPT !.resubmit = resubmit, !.next = e]
  BY <1>2 DEF HandlerSelection, Candidates
<1>4. db.applicant \in Employees
  BY RowFields DEF TypeOK
<1>5. /\ m \in Button /\ m.action = "applicant.confirm_handler" /\ m.user = db.applicant
      /\ m.token = None /\ m.seen = None
  BY <1>1, <1>2, <1>4, BaseFields
<1>6. /\ b \in Button /\ b.action = "applicant.confirm_handler" /\ b.user = db.applicant
      /\ b.token = None /\ b.seen = None
  BY <1>3, <1>5 DEF Button
<1>7. Fresh(b)
  BY <1>1, <1>6, UsedAreTokens, CardAssumption DEF Fresh
<1>8. QED BY <1>6, <1>7, FreshCarries DEF Good, Prepared, InCharge

LEMMA ApplicantConfirmationGood ==
  ASSUME TypeOK, ButtonsInv, NEW resubmit \in BOOLEAN, NEW next \in Employees \cup {None},
         NEW b \in ApplicantConfirmation(db.applicant, db, next, resubmit)
  PROVE  Good(b)
<1>1. "applicant.confirm" \in CardActions /\ db.applicant \in Employees
  BY RowFields DEF CardActions, CardRoles, ActionsOf, TypeOK
<1>2. PICK m : m = Versioned("applicant.confirm", db.applicant, db)
  OBVIOUS
<1>3. PICK t : t = NewToken
  OBVIOUS
<1>4. b = [m EXCEPT !.resubmit = resubmit, !.next = next, !.token = t]
  BY <1>2, <1>3 DEF ApplicantConfirmation
<1>5. m \in Button /\ m.action = "applicant.confirm" /\ m.user = db.applicant /\ m.seen = db
  BY <1>1, <1>2, BaseFields
<1>6. t \in Token
  BY <1>3, NewTokens
<1>7. /\ b \in Button /\ b.action = "applicant.confirm" /\ b.user = db.applicant
      /\ b.seen = db /\ b.token = t
  BY <1>4, <1>5, <1>6 DEF Button
<1>8. Fresh(b)
  BY <1>3, <1>7, ConfirmationIsFresh
<1>9. QED BY <1>7, <1>8, FreshCarries DEF Good, Prepared, InCharge

LEMMA RejectConfirmationGood ==
  ASSUME TypeOK, ButtonsInv, NEW u \in Employees, NEW b \in RejectConfirmation(u, db)
  PROVE  Good(b)
<1>1. "building_manager.confirm_reject" \in Modest
  BY DEF CardActions, CardRoles, ActionsOf, Modest
<1>2. PICK m : m = Versioned("building_manager.confirm_reject", u, db)
  OBVIOUS
<1>3. PICK t : t = NewToken
  OBVIOUS
<1>4. b = [m EXCEPT !.token = t]
  BY <1>2, <1>3 DEF RejectConfirmation
<1>5. m \in Button /\ m.action = "building_manager.confirm_reject" /\ m.seen = db
  BY <1>1, <1>2, BaseFields DEF Modest
<1>6. t \in Token
  BY <1>3, NewTokens
<1>7. b \in Button /\ b.action = "building_manager.confirm_reject" /\ b.seen = db /\ b.token = t
  BY <1>4, <1>5, <1>6 DEF Button
<1>8. Fresh(b)
  BY <1>3, <1>7, ConfirmationIsFresh
<1>9. QED BY <1>1, <1>7, <1>8, ModestIsGood

LEMMA PurchaserConfirmationGood ==
  ASSUME TypeOK, ButtonsInv, NEW u \in Employees, NEW e \in Candidates("PURCHASER"),
         db.status = "PENDING_REVIEW", NEW b \in PurchaserConfirmation(u, db, e)
  PROVE  Good(b)
<1>1. "building_manager.confirm_submit_purchaser" \in CardActions /\ e \in Employees
  BY DEF CardActions, CardRoles, ActionsOf, Candidates
<1>2. PICK m : m = Versioned("building_manager.confirm_submit_purchaser", u, db)
  OBVIOUS
<1>3. PICK t : t = NewToken
  OBVIOUS
<1>4. b = [m EXCEPT !.next = e, !.token = t]
  BY <1>2, <1>3 DEF PurchaserConfirmation
<1>5. m \in Button /\ m.action = "building_manager.confirm_submit_purchaser" /\ m.seen = db
  BY <1>1, <1>2, BaseFields
<1>6. t \in Token
  BY <1>3, NewTokens
<1>7. /\ b \in Button /\ b.action = "building_manager.confirm_submit_purchaser"
      /\ b.seen = db /\ b.next = e /\ b.token = t
  BY <1>1, <1>4, <1>5, <1>6 DEF Button
<1>8. Fresh(b)
  BY <1>3, <1>7, ConfirmationIsFresh
<1>9. QED BY <1>7, <1>8, FreshCarries DEF Good, Prepared, InCharge

LEMMA PurchaseItemFormGood ==
  ASSUME TypeOK, ButtonsInv, NEW u \in Employees, NEW i \in Items, NEW b \in PurchaseItemForm(u, db, i)
  PROVE  Good(b)
<1>1. "purchaser.save_purchase_item" \in Modest
  BY DEF CardActions, CardRoles, ActionsOf, Modest
<1>2. PICK m : m = Versioned("purchaser.save_purchase_item", u, db)
  OBVIOUS
<1>3. PICK t : t = NewToken
  OBVIOUS
<1>4. b = [m EXCEPT !.item = i, !.token = t]
  BY <1>2, <1>3 DEF PurchaseItemForm
<1>5. m \in Button /\ m.action = "purchaser.save_purchase_item" /\ m.seen = db
  BY <1>1, <1>2, BaseFields DEF Modest
<1>6. t \in Token
  BY <1>3, NewTokens
<1>7. /\ b \in Button /\ b.action = "purchaser.save_purchase_item" /\ b.seen = db
      /\ b.token = t /\ b.item = i
  BY <1>4, <1>5, <1>6 DEF Button
<1>8. Fresh(b)
  BY <1>3, <1>7, ConfirmationIsFresh
<1>9. QED BY <1>1, <1>7, <1>8, ModestIsGood

LEMMA WarehouseConfirmationGood ==
  ASSUME TypeOK, ButtonsInv, NEW u \in Employees, NEW e \in Candidates("WAREHOUSE_MANAGER"),
         db.status = "PURCHASING", db.handler = u, Present(db.executions) = Present(db.items),
         NEW b \in WarehouseConfirmation(u, db, IF RequiresWarehouse(db) = {} THEN None ELSE e)
  PROVE  Good(b)
<1>1. "purchaser.confirm_submit_warehouse" \in CardActions /\ e \in Employees
  BY DEF CardActions, CardRoles, ActionsOf, Candidates
<1>2. PICK m : m = Versioned("purchaser.confirm_submit_warehouse", u, db)
  OBVIOUS
<1>3. PICK t : t = NewToken
  OBVIOUS
<1>4. PICK next \in Employees \cup {None} : next = IF RequiresWarehouse(db) = {} THEN None ELSE e
  BY <1>1
<1>5. b = [m EXCEPT !.next = next, !.token = t]
  BY <1>2, <1>3, <1>4 DEF WarehouseConfirmation
<1>6. /\ m \in Button /\ m.action = "purchaser.confirm_submit_warehouse" /\ m.user = u
      /\ m.seen = db
  BY <1>1, <1>2, BaseFields
<1>7. t \in Token
  BY <1>3, NewTokens
<1>8. /\ b \in Button /\ b.action = "purchaser.confirm_submit_warehouse" /\ b.user = u
      /\ b.seen = db /\ b.next = next /\ b.token = t
  BY <1>5, <1>6, <1>7 DEF Button
<1>9. Fresh(b)
  BY <1>3, <1>8, ConfirmationIsFresh
<1>10. QED BY <1>4, <1>8, <1>9, FreshCarries DEF Good, Prepared, InCharge

LEMMA CompleteConfirmationGood ==
  ASSUME TypeOK, ButtonsInv, NEW u \in Employees,
         db.status = "PENDING_WAREHOUSE", db.handler = u, AllWarehouseItemsFulfilled(db),
         NEW b \in CompleteConfirmation(u, db)
  PROVE  Good(b)
<1>1. "warehouse.confirm_complete" \in CardActions
  BY DEF CardActions, CardRoles, ActionsOf
<1>2. PICK m : m = Versioned("warehouse.confirm_complete", u, db)
  OBVIOUS
<1>3. PICK t : t = NewToken
  OBVIOUS
<1>4. b = [m EXCEPT !.token = t]
  BY <1>2, <1>3 DEF CompleteConfirmation
<1>5. m \in Button /\ m.action = "warehouse.confirm_complete" /\ m.user = u /\ m.seen = db
  BY <1>1, <1>2, BaseFields
<1>6. t \in Token
  BY <1>3, NewTokens
<1>7. /\ b \in Button /\ b.action = "warehouse.confirm_complete" /\ b.user = u
      /\ b.seen = db /\ b.token = t
  BY <1>4, <1>5, <1>6 DEF Button
<1>8. Fresh(b)
  BY <1>3, <1>7, ConfirmationIsFresh
<1>9. QED BY <1>7, <1>8, FreshCarries DEF Good, Prepared, InCharge

\* What a button prepares, for the user it was made for.
LEMMA PreparedGood ==
  ASSUME TypeOK, HandlerFitsStatus, ButtonsInv, NEW b \in Button, NEW e, NEW x \in PreparedCard(db, b, e),
         b.action # "applicant.prepare" => Good(b) /\ e \in Candidates(NextRole(b))
  PROVE  Good(x)
<1>1. b.user \in Employees /\ b.action \in CardActions /\ b.resubmit \in BOOLEAN
      /\ b.next \in Employees \cup {None}
  BY ButtonFields
<1>2. RoleOf(b) \in CardRoles
  BY <1>1, RoleHasAction
<1>3. ASSUME b.action = "applicant.prepare", ApplicantPrepares(db, b), x \in HandlerSelection(b.user, b.resubmit)
      PROVE  Good(x)
  <2>1. b.user = db.applicant
    BY <1>3 DEF ApplicantPrepares, MayAct, HandlerFitsStatus
  <2>2. QED BY <1>1, <1>3, <2>1, HandlerSelectionGood
<1>4. ASSUME b.action = "applicant.confirm_handler",
             x \in ApplicantConfirmation(b.user, db, b.next, b.resubmit)
      PROVE  Good(x)
  <2>1. b.user = db.applicant
    BY <1>4 DEF Good, InCharge
  <2>2. QED BY <1>1, <1>4, <2>1, ApplicantConfirmationGood
<1>5. ASSUME b.action = "building_manager.prepare_submit_purchaser", ManagerPrepares(db, b),
             x \in PurchaserConfirmation(b.user, db, e)
      PROVE  Good(x)
  <2>1. RoleOf(b) = "BUILDING_MANAGER"
    BY <1>1, <1>5, RoleHasAction DEF CardRoles, ActionsOf
  <2>2. e \in Candidates("PURCHASER") /\ db.status = "PENDING_REVIEW"
    BY <1>5, <2>1 DEF NextRole, ManagerPrepares
  <2>3. QED BY <1>1, <1>5, <2>2, PurchaserConfirmationGood
<1>6. ASSUME b.action = "purchaser.open_purchase_item", x \in PurchaseItemForm(b.user, db, b.item)
      PROVE  Good(x)
  <2>1. b.item \in Items
    BY <1>6 DEF Good, Carries
  <2>2. QED BY <1>1, <1>6, <2>1, PurchaseItemFormGood
<1>7. ASSUME b.action = "purchaser.prepare_submit_warehouse", PurchaserPrepares(db, b),
             x \in WarehouseConfirmation(b.user, db, IF RequiresWarehouse(db) = {} THEN None ELSE e)
      PROVE  Good(x)
  <2>1. RoleOf(b) = "PURCHASER"
    BY <1>1, <1>7, RoleHasAction DEF CardRoles, ActionsOf
  <2>2. e \in Candidates("WAREHOUSE_MANAGER")
    BY <1>7, <2>1 DEF NextRole
  <2>3. /\ db.status = "PURCHASING" /\ db.handler = b.user
        /\ Present(db.executions) = Present(db.items)
    BY <1>7 DEF PurchaserPrepares, MayAct
  <2>4. QED BY <1>1, <1>7, <2>2, <2>3, WarehouseConfirmationGood
<1>8. ASSUME b.action = "warehouse.prepare_complete", WarehousePrepares(db, b),
             x \in CompleteConfirmation(b.user, db)
      PROVE  Good(x)
  <2>1. db.status = "PENDING_WAREHOUSE" /\ db.handler = b.user /\ AllWarehouseItemsFulfilled(db)
    BY <1>8 DEF WarehousePrepares, MayAct, Received, AllWarehouseItemsFulfilled
  <2>2. QED BY <1>1, <1>8, <2>1, CompleteConfirmationGood
<1>9. QED BY <1>1, <1>2, <1>3, <1>4, <1>5, <1>6, <1>7, <1>8,
             RejectConfirmationGood, DetailGood DEF PreparedCard

-----------------------------------------------------------------------------
(* What a step of the request leaves of the buttons and the presses *)

LEMMA ChargeStep ==
  ASSUME TypeOK, Saves \/ Logs, NEW b, InCharge(b)
  PROVE  InCharge(b)'
<1>1. db'.applicant = db.applicant
  BY DEF Saves, Logs, Records
<1>2. ASSUME db.handler = b.user,
             NEW e \in LogEntry, Records(e), HandsOver, db'.status # db.status
      PROVE  /\ db.status = "PURCHASING" => LoggedBy({"SUBMIT_WAREHOUSE"}, b.user)'
             /\ db.status = "PENDING_WAREHOUSE" => LoggedBy({"COMPLETE"}, b.user)'
  <2>1. /\ <<e.action, db'.status>> \in Steps /\ db.status = TransitionRules[e.action].from
        /\ <<db.status, db'.status>> \in Flow!Edges
    BY <1>2 DEF Records, HandsOver
  <2>2. CASE db.status = "PURCHASING"
    <3>1. e.action = "SUBMIT_WAREHOUSE" /\ e.by = b.user
      BY <1>2, <2>1, <2>2 DEF Records, Steps, TransitionRules, Flow!Edges
    <3>2. QED BY <1>2, <2>2, <3>1, EntryLogged
  <2>3. CASE db.status = "PENDING_WAREHOUSE"
    <3>1. e.action = "COMPLETE" /\ e.by = b.user
      BY <1>2, <2>1, <2>3 DEF Records, Steps, TransitionRules, Flow!Edges
    <3>2. QED BY <1>2, <2>3, <3>1, EntryLogged
  <2>4. QED BY <2>2, <2>3
<1>3. \/ db'.status = db.status /\ db'.handler = db.handler
      \/ \E e \in LogEntry : Records(e) /\ HandsOver /\ db'.status # db.status
  BY DEF Saves, Logs, HandsOver, Flow!Edges
<1>4. ASSUME b.action = "purchaser.confirm_submit_warehouse"
      PROVE  \/ db'.status = "PURCHASING" /\ db'.handler = b.user
             \/ LoggedBy({"SUBMIT_WAREHOUSE"}, b.user)'
  BY <1>2, <1>3, <1>4, LoggedStays DEF InCharge
<1>5. ASSUME b.action = "warehouse.confirm_complete"
      PROVE  \/ db'.status = "PENDING_WAREHOUSE" /\ db'.handler = b.user
             \/ LoggedBy({"COMPLETE"}, b.user)'
  BY <1>2, <1>3, <1>5, LoggedStays DEF InCharge
<1>6. QED BY <1>1, <1>4, <1>5 DEF InCharge

LEMMA CarriesStep ==
  ASSUME TypeOK, db'.version = db.version + 1, NEW b \in Button, Carries(b)
  PROVE  Carries(b)'
<1>1. b.seen # None => b.seen.version < db'.version
  <2>1. b.seen # None => b.seen \in Rows /\ b.seen.version \in Nat
    BY ButtonFields, RowFields
  <2>2. db.version \in Nat
    BY RowFields DEF TypeOK
  <2>3. QED BY <2>1, <2>2 DEF Carries
<1>2. QED BY <1>1 DEF Carries

LEMMA HasStepStays ==
  ASSUME TypeOK, Saves \/ Logs, NEW b, HasStep(b)
  PROVE  HasStep(b)'
<1>1. SUFFICES ASSUME TargetStatuses(b) # {}
               PROVE  \E n \in 1..Len(db'.log) : Announces(b.action, db'.log[n]) /\ db'.log[n].by = b.user
  BY DEF HasStep, TargetStatuses, Announces
<1>2. PICK n \in 1..Len(db.log) : Announces(b.action, db.log[n]) /\ db.log[n].by = b.user
  BY <1>1 DEF HasStep
<1>3. n \in 1..Len(db'.log) /\ db'.log[n] = db.log[n]
  BY LogGrows
<1>4. QED BY <1>2, <1>3

\* The buttons and the presses after a step of the request.
LEMMA GoodStep ==
  ASSUME TypeOK, Saves \/ Logs
  PROVE  /\ \A b : Good(b) => Good(b)'
         /\ \A p \in Pressing : GoodPress(p) => GoodPress(p)'
<1>1. db'.version = db.version + 1
  BY DEF Saves, Logs, Records
<1>2. ASSUME NEW b, Good(b) PROVE Good(b)'
  <2>1. b \in Button /\ Carries(b)' /\ InCharge(b)'
    BY <1>1, <1>2, CarriesStep, ChargeStep DEF Good
  <2>2. QED BY <1>2, <2>1 DEF Good, Prepared
<1>3. ASSUME NEW p \in Pressing, GoodPress(p) PROVE GoodPress(p)'
  <2>1. p.button \in Button
    BY DEF Pressing
  <2>2. InCharge(p.button)'
    BY <1>3, ChargeStep DEF GoodPress
  <2>3. p.stage = "call" => Carries(p.button)'
    BY <1>1, <1>3, <2>1, CarriesStep DEF GoodPress
  <2>4. p.stage = "done" => HasStep(p.button)'
    BY <1>3, HasStepStays DEF GoodPress
  <2>5. QED BY <1>3, <2>2, <2>3, <2>4 DEF GoodPress
<1>4. QED BY <1>2, <1>3

\* Nothing is lost while the request stays as it is.
LEMMA GoodStays ==
  ASSUME db' = db
  PROVE  /\ \A b : Good(b) => Good(b)'
         /\ \A p \in Pressing : GoodPress(p) => GoodPress(p)'
         /\ RequestInv => RequestInv'
<1>1. \A b : Good(b) => Good(b)'
  BY DEF Good, Carries, Prepared, InCharge, LoggedBy
<1>2. ASSUME NEW p \in Pressing, GoodPress(p) PROVE GoodPress(p)'
  <2>1. InCharge(p.button)'
    BY <1>2 DEF GoodPress, InCharge, LoggedBy
  <2>2. p.stage = "call" => Carries(p.button)'
    BY <1>2 DEF GoodPress, Carries
  <2>3. p.stage = "done" => HasStep(p.button)'
    BY <1>2 DEF GoodPress, HasStep, TargetStatuses, Announces
  <2>4. QED BY <1>2, <2>1, <2>2, <2>3 DEF GoodPress
<1>3. /\ TypeOK => TypeOK'
      /\ HandlerFitsStatus => HandlerFitsStatus'
      /\ CompletionEndsLog => CompletionEndsLog'
  BY DEF TypeOK, HandlerFitsStatus, CompletionEndsLog
<1>4. LogIsCustodyChain => LogIsCustodyChain'
  BY DEF LogIsCustodyChain
<1>5. OutboxMatchesLog => OutboxMatchesLog'
  BY DEF OutboxMatchesLog
<1>6. Fulfilment => Fulfilment'
  BY <1>3 DEF Fulfilment, PurchasesMatchItems, ReceiptsWithinPurchase, CompletionIsFulfilled
<1>7. Explained => Explained'
  BY DEF Explained, LoggedBy
<1>8. Asks => Asks'
  BY DEF Asks
<1>9. RequestInv => RequestInv'
  BY <1>3, <1>4, <1>5, <1>6, <1>7, <1>8 DEF RequestInv, Custody
<1>10. QED BY <1>1, <1>2, <1>9

\* A confirmation whose call took effect has its step in the log.
LEMMA CallLogs ==
  ASSUME TypeOK, NEW b \in Button, Call(b)
  PROVE  HasStep(b)'
<1>1. ASSUME NEW op, NEW from, NEW to, NEW next,
             db'.log = Append(db.log, Logged(b.token, op, b.user, from, to, next)),
             \/ b.action = "applicant.confirm" /\ op \in {"SUBMIT_REVIEW", "RESUBMIT_REVIEW"}
             \/ b.action = "building_manager.confirm_reject" /\ op = "REJECT"
             \/ b.action = "building_manager.confirm_submit_purchaser" /\ op = "SUBMIT_PURCHASER"
             \/ b.action = "purchaser.confirm_submit_warehouse" /\ op = "SUBMIT_WAREHOUSE"
             \/ b.action = "warehouse.confirm_complete" /\ op = "COMPLETE"
      PROVE  HasStep(b)'
  <2>1. PICK e : e = Logged(b.token, op, b.user, from, to, next)
    OBVIOUS
  <2>2. e.action = op /\ e.by = b.user
    BY <2>1 DEF Logged
  <2>3. Announces(b.action, e)
    BY <1>1, <2>2 DEF Announces
  <2>4. db.log \in Seq(LogEntry) /\ db'.log = Append(db.log, e)
    BY <1>1, <2>1, RowFields DEF TypeOK
  <2>5. Len(db'.log) \in 1..Len(db'.log) /\ db'.log[Len(db'.log)] = e
    BY <2>4
  <2>6. QED BY <2>2, <2>3, <2>5 DEF HasStep, TargetStatuses, Announces
<1>2. CASE b.action = "applicant.confirm"
  <2>1. PICK op \in {"SUBMIT_REVIEW", "RESUBMIT_REVIEW"} : SubmitReview(db, b.user, op, b.next, b.token)
    BY <1>2 DEF Call, ApplicantCall, ManagerCall, PurchaserCall, WarehouseCall
  <2>2. db'.log = Append(db.log, Logged(b.token, op, b.user, TransitionRules[op].from, "PENDING_REVIEW", b.next))
    BY <2>1 DEF SubmitReview, Transitioned, TypeOK, Rows
  <2>3. QED BY <1>1, <1>2, <2>2
<1>3. CASE b.action = "building_manager.confirm_reject"
  <2>1. Reject(db, b.user, db.applicant, b.token)
    BY <1>3 DEF Call, ApplicantCall, ManagerCall, PurchaserCall, WarehouseCall
  <2>2. db'.log = Append(db.log, Logged(b.token, "REJECT", b.user, TransitionRules["REJECT"].from,
                                        "REJECTED", db.applicant))
    BY <2>1 DEF Reject, Transitioned, TypeOK, Rows
  <2>3. QED BY <1>1, <1>3, <2>2
<1>4. CASE b.action = "building_manager.confirm_submit_purchaser"
  <2>1. SubmitPurchaser(db, b.user, b.next, b.token)
    BY <1>4 DEF Call, ApplicantCall, ManagerCall, PurchaserCall, WarehouseCall
  <2>2. db'.log = Append(db.log, Logged(b.token, "SUBMIT_PURCHASER", b.user,
                                        TransitionRules["SUBMIT_PURCHASER"].from, "PENDING_PURCHASE", b.next))
    BY <2>1 DEF SubmitPurchaser, Transitioned, TypeOK, Rows
  <2>3. QED BY <1>1, <1>4, <2>2
<1>5. CASE b.action = "purchaser.confirm_submit_warehouse"
  <2>1. SubmitWarehouse(db, b.user, b.next, b.token)
    BY <1>5 DEF Call, ApplicantCall, ManagerCall, PurchaserCall, WarehouseCall
  <2>2. \E to : db'.log = Append(db.log, Logged(b.token, "SUBMIT_WAREHOUSE", b.user,
                                        TransitionRules["SUBMIT_WAREHOUSE"].from, to, b.next))
    BY <2>1 DEF SubmitWarehouse, Transitioned, TypeOK, Rows
  <2>3. QED BY <1>1, <1>5, <2>2
<1>6. CASE b.action = "warehouse.confirm_complete"
  <2>1. Complete(db, b.user, None, b.token)
    BY <1>6 DEF Call, ApplicantCall, ManagerCall, PurchaserCall, WarehouseCall
  <2>2. db'.log = Append(db.log, Logged(b.token, "COMPLETE", b.user, TransitionRules["COMPLETE"].from,
                                        "COMPLETED", None))
    BY <2>1 DEF Complete, Transitioned, TypeOK, Rows
  <2>3. QED BY <1>1, <1>6, <2>2
<1>7. TargetStatuses(b) # {} =>
        b.action \in {"applicant.confirm", "building_manager.confirm_reject",
                      "building_manager.confirm_submit_purchaser",
                      "purchaser.confirm_submit_warehouse", "warehouse.confirm_complete"}
  BY DEF TargetStatuses
<1>8. TargetStatuses(b) = {} => HasStep(b)'
  BY DEF HasStep, TargetStatuses
<1>9. QED BY <1>2, <1>3, <1>4, <1>5, <1>6, <1>7, <1>8

\* What is left of a button once its call is answered.
LEMMA CalledFields ==
  ASSUME NEW b \in Button, NEW r \in {"done", "refused"}, NEW p, p = Called(b, r)
  PROVE  /\ p \in Pressing /\ p.stage = r
         /\ p.button \in Button /\ p.button.action = b.action /\ p.button.user = b.user
<1>1. PICK m : m = [b EXCEPT !.seen = None, !.token = None]
  OBVIOUS
<1>2. m \in Button /\ m.action = b.action /\ m.user = b.user
  BY <1>1 DEF Button
<1>3. p = [button |-> m, stage |-> r]
  BY <1>1 DEF Called
<1>4. QED BY <1>2, <1>3 DEF Pressing

\* Only the action and the user of a button matter for what it has achieved.
LEMMA CalledKeeps ==
  ASSUME NEW b, NEW m, m.action = b.action, m.user = b.user
  PROVE  (InCharge(b) => InCharge(m)) /\ (HasStep(b) => HasStep(m))
<1>1. InCharge(b) => InCharge(m)
  BY DEF InCharge
<1>2. TargetStatuses(m) = TargetStatuses(b)
  BY DEF TargetStatuses
<1>3. QED BY <1>1, <1>2 DEF HasStep

LEMMA PressTyped ==
  ASSUME press \in [Slots -> Pressing \cup {None}], NEW s \in Slots, press[s] # None
  PROVE  press[s] \in Pressing /\ press[s].button \in Button
BY DEF Pressing

-----------------------------------------------------------------------------
(* The steps of the cards *)

\* A card is shown; at most a press ends.
LEMMA ShowKeeps ==
  ASSUME CardInv, db' = db, NEW card, \A b \in card : Good(b), Show(card),
         press' \in [Slots -> Pressing \cup {None}],
         \A s \in Slots : press'[s] # None => press'[s] = press[s]
  PROVE  CardInv'
<1>1. IsFiniteSet(buttons') /\ Cardinality(buttons') <= MaxButtons /\ buttons' \subseteq buttons \cup card
  BY DEF Show
<1>2. \A b \in buttons' : Good(b)'
  BY <1>1, GoodStays DEF CardInv, ButtonsInv
<1>3. ASSUME NEW s \in Slots, press'[s] # None PROVE GoodPress(press[s])' /\ press'[s] = press[s]
  <2>1. PICK p \in Pressing : p = press'[s] /\ p = press[s] /\ GoodPress(p)
    BY <1>3 DEF CardInv, ButtonsInv
  <2>2. GoodPress(p)'
    BY <2>1, GoodStays
  <2>3. QED BY <2>1, <2>2
<1>4. QED BY <1>1, <1>2, <1>3, GoodStays DEF CardInv, ButtonsInv

\* The buttons stay and the presses that run are good.
LEMMA PressKeeps ==
  ASSUME CardInv, buttons' = buttons, db' = db, NEW s \in Slots, NEW p \in Pressing \cup {None},
         press' = [press EXCEPT ![s] = p], p # None => GoodPress(p)
  PROVE  CardInv'
<1>1. \A b \in buttons' : Good(b)'
  BY GoodStays DEF CardInv, ButtonsInv
<1>2. /\ press' \in [Slots -> Pressing \cup {None}]
      /\ \A x \in Slots : press'[x] = IF x = s THEN p ELSE press[x]
  BY DEF CardInv, ButtonsInv
<1>3. ASSUME NEW x \in Slots, press'[x] # None PROVE GoodPress(press[x])'
  <2>1. PICK q \in Pressing : q = press'[x] /\ GoodPress(q)
    BY <1>2, <1>3 DEF CardInv, ButtonsInv
  <2>2. GoodPress(q)'
    BY <2>1, GoodStays
  <2>3. QED BY <2>1, <2>2
<1>4. QED BY <1>1, <1>2, <1>3, GoodStays DEF CardInv, ButtonsInv

LEMMA OpenKeeps ==
  ASSUME CardInv, NEW u \in Employees, NEW role \in CardRoles, Open(u, role)
  PROVE  CardInv'
<1>1. \A b \in Detail(role, u, db) : Good(b)
  BY DetailGood DEF CardInv, RequestInv, Custody
<1>2. QED BY <1>1, ShowKeeps DEF Open, CardInv, ButtonsInv

LEMMA OwnDetailGood ==
  ASSUME TypeOK, ButtonsInv, NEW b \in Button, NEW x \in OwnDetail(b)
  PROVE  Good(x)
<1>1. RoleOf(b) \in CardRoles /\ b.user \in Employees
  BY ButtonFields, RoleHasAction
<1>2. QED BY <1>1, DetailGood DEF OwnDetail

LEMMA PrepareKeeps ==
  ASSUME CardInv, NEW b \in buttons, Prepare(b) \/ Refresh(b) \/ KeepLastItem(b)
  PROVE  CardInv'
<1>1. Good(b) /\ b \in Button
  BY DEF CardInv, ButtonsInv, Good
<1>2. TypeOK /\ HandlerFitsStatus /\ ButtonsInv
  BY DEF CardInv, RequestInv, Custody
<1>3. CASE Prepare(b)
  <2>1. PICK e \in Candidates(NextRole(b)) : Show(PreparedCard(db, b, e))
    BY <1>3 DEF Prepare
  <2>2. \A x \in PreparedCard(db, b, e) : Good(x)
    BY <1>1, <1>2, PreparedGood
  <2>3. QED BY <1>3, <2>1, <2>2, ShowKeeps DEF Prepare, CardInv, ButtonsInv
<1>4. CASE Refresh(b) \/ KeepLastItem(b)
  <2>1. \A x \in OwnDetail(b) : Good(x)
    BY <1>1, <1>2, OwnDetailGood
  <2>2. QED BY <1>4, <2>1, ShowKeeps DEF Refresh, KeepLastItem, CardInv, ButtonsInv
<1>5. QED BY <1>3, <1>4

LEMMA StartKeeps ==
  ASSUME CardInv, NEW s \in Slots, NEW b \in buttons, Start(s, b)
  PROVE  CardInv'
<1>1. Good(b)
  BY DEF CardInv, ButtonsInv
<1>2. PICK p : p = [button |-> b, stage |-> "call"]
  OBVIOUS
<1>3. p \in Pressing /\ p.button = b /\ p.stage = "call"
  BY <1>1, <1>2 DEF Pressing, Good
<1>4. GoodPress(p)
  BY <1>1, <1>3 DEF GoodPress, Good, Start
<1>5. QED BY <1>2, <1>3, <1>4, PressKeeps DEF Start

\* The call of a running press
LEMMA PressHandles ==
  ASSUME CardInv, NEW s \in Slots, press[s] # None, press[s].stage = "call", Call(press[s].button)
  PROVE  /\ Handle(db, press[s].button.user, Token)
         /\ press[s].button.user \in Employees
         /\ press[s].button.seen = db
         /\ press[s].button.user = db.handler
<1>1. PICK b \in Button : b = press[s].button
  BY PressTyped DEF CardInv, ButtonsInv
<1>2. Carries(b) /\ b.action \in CallActions
  BY <1>1 DEF CardInv, ButtonsInv, GoodPress
<1>3. TypeOK /\ Custody /\ b.user \in Employees
  BY ButtonFields DEF CardInv, RequestInv, Custody
<1>4. Handle(db, b.user, Token)
  BY <1>1, <1>2, <1>3, CallHandles
<1>5. b.seen = db
  BY <1>1, <1>2, <1>3, CallSeesCurrent DEF Call
<1>6. b.user = db.handler
  BY <1>3, <1>4, HandlerActs
<1>7. QED BY <1>1, <1>3, <1>4, <1>5, <1>6

LEMMA ChangeKeeps ==
  ASSUME CardInv, NEW s \in Slots, Change(s)
  PROVE  CardInv'
<1>1. PICK b \in Button : b = press[s].button
  BY PressTyped DEF CardInv, ButtonsInv, Change
<1>2. Handle(db, b.user, Token) /\ b.user \in Employees
  BY <1>1, PressHandles DEF Change
<1>3. TypeOK /\ RequestInv
  BY DEF CardInv, RequestInv, Custody
<1>4. Saves \/ Logs
  BY <1>2, <1>3, HandleCustody
<1>5. RequestInv'
  BY <1>2, <1>3, RequestStep
<1>6. PICK p \in Pressing \cup {None} :
        /\ press' = [press EXCEPT ![s] = p]
        /\ p # None => p = Called(b, "done")
  <2>1. Called(b, "done") \in Pressing
    BY CalledFields
  <2>2. QED BY <1>1, <2>1 DEF Change
<1>7. ASSUME p # None PROVE GoodPress(p)'
  <2>1. /\ p.stage = "done" /\ p.button \in Button
        /\ p.button.action = b.action /\ p.button.user = b.user
    BY <1>6, <1>7, CalledFields
  <2>2. InCharge(b)
    BY <1>1 DEF CardInv, ButtonsInv, GoodPress, Change
  <2>3. InCharge(p.button)'
    BY <1>3, <1>4, <2>1, <2>2, CalledKeeps, ChargeStep
  <2>4. HasStep(b)'
    BY <1>1, <1>3, CallLogs DEF Change
  <2>5. HasStep(p.button)'
    BY <2>1, <2>4 DEF HasStep, TargetStatuses, Announces
  <2>6. QED BY <2>1, <2>3, <2>5 DEF GoodPress
<1>8. /\ press' \in [Slots -> Pressing \cup {None}]
      /\ \A x \in Slots : press'[x] = IF x = s THEN p ELSE press[x]
  BY <1>6 DEF CardInv, ButtonsInv
<1>9. ASSUME NEW x \in Slots, press'[x] # None PROVE GoodPress(press[x])'
  <2>1. CASE x = s
    BY <1>7, <1>8, <1>9, <2>1
  <2>2. CASE x # s
    <3>1. PICK q \in Pressing : q = press'[x] /\ GoodPress(q)
      BY <1>8, <1>9, <2>2 DEF CardInv, ButtonsInv
    <3>2. GoodPress(q)'
      BY <1>3, <1>4, <3>1, GoodStep
    <3>3. QED BY <3>1, <3>2
  <2>3. QED BY <2>1, <2>2
<1>10. buttons' = buttons /\ \A b1 \in buttons : Good(b1)'
  BY <1>3, <1>4, GoodStep DEF CardInv, ButtonsInv, Change
<1>11. QED BY <1>5, <1>8, <1>9, <1>10 DEF CardInv, ButtonsInv

LEMMA RefusedKeeps ==
  ASSUME CardInv, NEW s \in Slots, Conflict(s) \/ Fail(s)
  PROVE  CardInv'
<1>1. PICK b \in Button : b = press[s].button
  BY PressTyped DEF CardInv, ButtonsInv, Conflict, Fail
<1>2. PICK p \in Pressing \cup {None} :
        /\ press' = [press EXCEPT ![s] = p]
        /\ p # None => p = Called(b, "refused")
  <2>1. Called(b, "refused") \in Pressing
    BY CalledFields
  <2>2. QED BY <1>1, <2>1 DEF Conflict, Fail
<1>3. ASSUME p # None PROVE GoodPress(p)
  <2>1. p.stage = "refused" /\ p.button.action = b.action /\ p.button.user = b.user
    BY <1>2, <1>3, CalledFields
  <2>2. InCharge(b)
    BY <1>1 DEF CardInv, ButtonsInv, GoodPress, Conflict, Fail
  <2>3. QED BY <2>1, <2>2, CalledKeeps DEF GoodPress
<1>4. buttons' = buttons /\ db' = db
  BY DEF Conflict, Fail
<1>5. QED BY <1>2, <1>3, <1>4, PressKeeps

LEMMA AnswerKeeps ==
  ASSUME CardInv, NEW s \in Slots, Answer(s)
  PROVE  CardInv'
<1>1. PICK b \in Button : b = press[s].button
  BY PressTyped DEF CardInv, ButtonsInv, Answer
<1>2. TypeOK /\ HandlerFitsStatus /\ ButtonsInv
  BY DEF CardInv, RequestInv, Custody
<1>3. ASSUME NEW x \in AnswerCard(s) PROVE Good(x)
  <2>1. CASE b.action = "applicant.prepare" /\ x \in PreparedCard(db, b, None)
    BY <1>2, <2>1, PreparedGood
  <2>2. CASE x \in OwnDetail(b)
    BY <1>2, <2>2, OwnDetailGood
  <2>3. QED BY <1>1, <1>3, <2>1, <2>2 DEF AnswerCard
<1>4. /\ press' \in [Slots -> Pressing \cup {None}]
      /\ \A x \in Slots : press'[x] # None => press'[x] = press[x]
  BY DEF Answer, CardInv, ButtonsInv
<1>5. db' = db /\ Show(AnswerCard(s))
  BY DEF Answer
<1>6. QED BY <1>3, <1>4, <1>5, ShowKeeps

LEMMA CardInitially == CardInit => CardInv
<1>1. CardInit => RequestInv
  BY RequestInit DEF CardInit
<1>2. CardInit => ButtonsInv
  <2>1. IsFiniteSet({}) /\ Cardinality({}) = 0
    BY FS_EmptySet
  <2>2. QED BY <2>1, CardAssumption DEF CardInit, ButtonsInv
<1>3. QED BY <1>1, <1>2 DEF CardInv

LEMMA CardInductive == CardInv /\ [CardNext]_cardVars => CardInv'
<1> SUFFICES ASSUME CardInv, [CardNext]_cardVars PROVE CardInv'
  OBVIOUS
<1>1. CASE UNCHANGED cardVars
  <2>1. db' = db /\ buttons' = buttons /\ press' = press
    BY <1>1 DEF cardVars
  <2>2. \A b \in buttons : Good(b)'
    BY <2>1, GoodStays DEF CardInv, ButtonsInv
  <2>3. ASSUME NEW s \in Slots, press[s] # None PROVE GoodPress(press[s])'
    <3>1. PICK p \in Pressing : p = press[s] /\ GoodPress(p)
      BY <2>3 DEF CardInv, ButtonsInv
    <3>2. GoodPress(p)'
      BY <2>1, <3>1, GoodStays
    <3>3. QED BY <2>1, <3>1, <3>2
  <2>4. QED BY <2>1, <2>2, <2>3, GoodStays DEF CardInv, ButtonsInv
<1>2. CASE CardNext
  BY <1>2, OpenKeeps, PrepareKeeps, StartKeeps, ChangeKeeps, RefusedKeeps, AnswerKeeps
     DEF CardNext
<1>3. QED BY <1>1, <1>2

LEMMA CardInvariant == CardSpec => []CardInv
BY CardInitially, CardInductive, PTL DEF CardSpec

-----------------------------------------------------------------------------
(* What the invariant says *)

\* Buttons, presses and rows have their types.
THEOREM CardsTyped == CardSpec => []CardTypeOK
<1>1. CardInv => CardTypeOK
  BY DEF CardInv, RequestInv, Custody, ButtonsInv, CardTypeOK, Good
<1>2. QED BY <1>1, CardInvariant, PTL

\* A press acts on what its card showed (expected_version comes from the card).
THEOREM PressesActOnWhatWasShown == CardSpec => ActsOnWhatWasShown
<1> DEFINE Acts == db' # db => \E b \in Pressed : b.seen = db /\ b.user = db.handler
<1>1. CardInv /\ [CardNext]_cardVars => [Acts]_cardVars
  <2> SUFFICES ASSUME CardInv, CardNext, db' # db
               PROVE  \E b \in Pressed : b.seen = db /\ b.user = db.handler
    BY DEF cardVars
  <2>1. PICK s \in Slots : Change(s)
    BY DEF CardNext, Open, Prepare, Refresh, KeepLastItem, Start, Conflict, Fail, Answer
  <2>2. press[s].button.seen = db /\ press[s].button.user = db.handler
    BY <2>1, PressHandles DEF Change
  <2>3. press[s].button \in Pressed
    BY <2>1 DEF Pressed, Change
  <2>4. QED BY <2>2, <2>3
<1>2. QED BY <1>1, CardInvariant, PTL DEF CardSpec, ActsOnWhatWasShown

\* A second look finds the step in the log whose status it takes for success.
LEMMA SecondLook ==
  ASSUME CardInv, NEW b \in Button, InCharge(b), db.status \in TargetStatuses(b)
  PROVE  \E n \in 1..Len(db.log) :
           /\ Announces(b.action, db.log[n])
           /\ db.log[n].by = b.user \/ RoleOf(b) = "BUILDING_MANAGER"
<1>1. ASSUME NEW ops, NEW u, LoggedBy(ops, u),
             u = b.user \/ RoleOf(b) = "BUILDING_MANAGER",
             \A e : e.action \in ops => Announces(b.action, e)
      PROVE  \E n \in 1..Len(db.log) :
               /\ Announces(b.action, db.log[n])
               /\ db.log[n].by = b.user \/ RoleOf(b) = "BUILDING_MANAGER"
  BY <1>1 DEF LoggedBy
<1>2. Explained
  BY DEF CardInv, RequestInv
<1>3. CASE b.action = "applicant.confirm"
  <2>1. LoggedBy({"SUBMIT_REVIEW", "RESUBMIT_REVIEW"}, b.user)
    BY <1>2, <1>3 DEF TargetStatuses, InCharge, Explained
  <2>2. \A e : e.action \in {"SUBMIT_REVIEW", "RESUBMIT_REVIEW"} => Announces(b.action, e)
    BY <1>3 DEF Announces
  <2>3. QED BY <1>1, <2>1, <2>2
<1>4. CASE b.action = "building_manager.confirm_reject"
  <2>1. \E u : LoggedBy({"REJECT"}, u)
    BY <1>2, <1>4 DEF TargetStatuses, Explained
  <2>2. \A e : e.action \in {"REJECT"} => Announces(b.action, e)
    BY <1>4 DEF Announces
  <2>3. RoleOf(b) = "BUILDING_MANAGER"
    BY <1>4, ButtonFields, RoleHasAction DEF CardRoles, ActionsOf
  <2>4. QED BY <1>1, <2>1, <2>2, <2>3
<1>5. CASE b.action = "building_manager.confirm_submit_purchaser"
  <2>1. \E u : LoggedBy({"SUBMIT_PURCHASER"}, u)
    BY <1>2, <1>5 DEF TargetStatuses, Explained
  <2>2. \A e : e.action \in {"SUBMIT_PURCHASER"} => Announces(b.action, e)
    BY <1>5 DEF Announces
  <2>3. RoleOf(b) = "BUILDING_MANAGER"
    BY <1>5, ButtonFields, RoleHasAction DEF CardRoles, ActionsOf
  <2>4. QED BY <1>1, <2>1, <2>2, <2>3
<1>6. CASE b.action = "purchaser.confirm_submit_warehouse"
  <2>1. LoggedBy({"SUBMIT_WAREHOUSE"}, b.user)
    BY <1>6 DEF TargetStatuses, InCharge
  <2>2. \A e : e.action \in {"SUBMIT_WAREHOUSE"} => Announces(b.action, e)
    BY <1>6 DEF Announces
  <2>3. QED BY <1>1, <2>1, <2>2
<1>7. CASE b.action = "warehouse.confirm_complete"
  <2>1. LoggedBy({"COMPLETE"}, b.user)
    BY <1>7 DEF TargetStatuses, InCharge
  <2>2. \A e : e.action \in {"COMPLETE"} => Announces(b.action, e)
    BY <1>7 DEF Announces
  <2>3. QED BY <1>1, <2>1, <2>2
<1>8. QED BY <1>3, <1>4, <1>5, <1>6, <1>7 DEF TargetStatuses

\* A card that announces a formal step tells the truth, also after a second look
\* (_transition_after_retry and the duplicate answers of the role services).
THEOREM AnnouncementsAreTrue == CardSpec => []AnnouncedStepsHappened
<1>1. CardInv => AnnouncedStepsHappened
  <2> SUFFICES ASSUME CardInv, NEW s \in Slots, AnnouncesStep(s)
               PROVE  \E n \in 1..Len(db.log) :
                        /\ Announces(press[s].button.action, db.log[n])
                        /\ \/ db.log[n].by = press[s].button.user
                           \/ /\ press[s].stage = "refused"
                              /\ RoleOf(press[s].button) = "BUILDING_MANAGER"
    BY DEF AnnouncedStepsHappened
  <2>1. press[s] # None /\ TargetStatuses(press[s].button) # {} /\ IsDone(s)
    BY DEF AnnouncesStep
  <2>2. GoodPress(press[s]) /\ press[s].button \in Button
    BY <2>1, PressTyped DEF CardInv, ButtonsInv
  <2>3. CASE press[s].stage = "done"
    BY <2>1, <2>2, <2>3 DEF GoodPress, HasStep
  <2>4. CASE press[s].stage = "refused" /\ db.status \in TargetStatuses(press[s].button)
    BY <2>2, <2>4, SecondLook DEF GoodPress
  <2>5. QED BY <2>1, <2>3, <2>4 DEF IsDone
<1>2. QED BY <1>1, CardInvariant, PTL

\* What the Agent prepared by looking at the detail is a promise: pressed while the
\* request is the one the card shows, the four buttons that confirm an approval,
\* start a purchase, hand over to the warehouse or complete the request are accepted
\* by the backend.  The two confirmations that are prepared without a look at status
\* or handler, of the applicant and of a rejection, are not among them: for those
\* it is false (EveryConfirmationIsHonoured).
THEOREM PromisesAreKept == CardSpec => []ConfirmationsAreHonoured
<1>1. CardInv => ConfirmationsAreHonoured
  <2> SUFFICES ASSUME CardInv, NEW b \in buttons, b.seen = db, db.version < MaxVersion,
                      b.action \in {"building_manager.confirm_submit_purchaser",
                                    "purchaser.start_purchase",
                                    "purchaser.confirm_submit_warehouse",
                                    "warehouse.confirm_complete"},
                      b.user = db.handler
               PROVE  Confirms(b)
    BY DEF ConfirmationsAreHonoured
  <2>1. Good(b) /\ HandlerFitsStatus /\ TypeOK /\ Asks
    BY DEF CardInv, ButtonsInv, RequestInv, Custody
  <2>2. b.token \notin UsedTokens(db)
    <3>1. db # None
      BY <2>1, CardAssumption DEF TypeOK
    <3>2. QED BY <2>1, <3>1 DEF Good, Carries
  <2>3. CASE b.action = "building_manager.confirm_submit_purchaser"
    <3>1. db.status = "PENDING_REVIEW" /\ b.next \in Candidates("PURCHASER")
      BY <2>1, <2>3 DEF Good, Prepared
    <3>2. ValidHandler(b.user, "BUILDING_MANAGER")
      BY <2>1, <3>1 DEF HandlerFitsStatus
    <3>3. CanTransition(db, b.user, "SUBMIT_PURCHASER", "PENDING_PURCHASE", b.next, b.token)
      BY <2>2, <3>1, <3>2 DEF CanTransition, TransitionRules, ValidActor, ValidHandler,
         BelongsToBuilding, FreshToken, NextHandler, Candidates, CompareAndSwap
    <3>4. QED BY <2>3, <3>3 DEF Confirms
  <2>4. CASE b.action = "purchaser.start_purchase"
    <3>1. db.status = "PENDING_PURCHASE"
      BY <2>1, <2>4 DEF Good, Prepared
    <3>2. ValidHandler(b.user, "PURCHASER")
      BY <2>1, <3>1 DEF HandlerFitsStatus
    <3>3. CanTransition(db, b.user, "START_PURCHASE", "PURCHASING", db.handler, b.token)
      BY <2>2, <3>1, <3>2 DEF CanTransition, TransitionRules, ValidActor, ValidHandler,
         FreshToken, NextHandler, CompareAndSwap
    <3>4. QED BY <2>4, <3>3 DEF Confirms
  <2>5. CASE b.action = "purchaser.confirm_submit_warehouse"
    <3>1. /\ db.status = "PURCHASING" /\ Present(db.executions) = Present(db.items)
          /\ IF RequiresWarehouse(db) = {} THEN b.next = None
             ELSE b.next \in Candidates("WAREHOUSE_MANAGER")
      BY <2>1, <2>5 DEF Good, Prepared
    <3>2. ValidHandler(b.user, "PURCHASER")
      BY <2>1, <3>1 DEF HandlerFitsStatus
    <3>3. Present(db.items) # {} /\ AllActiveItemsExecuted(db)
      BY <2>1, <3>1 DEF Asks, AllActiveItemsExecuted
    <3>4. CASE RequiresWarehouse(db) = {}
      <4>1. CanTransition(db, b.user, "SUBMIT_WAREHOUSE", "COMPLETED", b.next, b.token)
        BY <2>2, <3>1, <3>2, <3>4 DEF CanTransition, TransitionRules, ValidActor, ValidHandler,
           FreshToken, CompareAndSwap
      <4>2. QED BY <2>5, <3>3, <3>4, <4>1 DEF Confirms
    <3>5. CASE RequiresWarehouse(db) # {}
      <4>1. CanTransition(db, b.user, "SUBMIT_WAREHOUSE", "PENDING_WAREHOUSE", b.next, b.token)
        BY <2>2, <3>1, <3>2, <3>5 DEF CanTransition, TransitionRules, ValidActor, ValidHandler,
           FreshToken, NextHandler, Candidates, CompareAndSwap
      <4>2. QED BY <2>5, <3>3, <3>5, <4>1 DEF Confirms
    <3>6. QED BY <3>4, <3>5
  <2>6. CASE b.action = "warehouse.confirm_complete"
    <3>1. db.status = "PENDING_WAREHOUSE" /\ AllWarehouseItemsFulfilled(db)
      BY <2>1, <2>6 DEF Good, Prepared
    <3>2. ValidHandler(b.user, "WAREHOUSE_MANAGER")
      BY <2>1, <3>1 DEF HandlerFitsStatus
    <3>3. CanTransition(db, b.user, "COMPLETE", "COMPLETED", None, b.token)
      BY <2>2, <3>1, <3>2 DEF CanTransition, TransitionRules, ValidActor, ValidHandler,
         FreshToken, CompareAndSwap
    <3>4. QED BY <2>6, <3>1, <3>3 DEF Confirms
  <2>7. QED BY <2>3, <2>4, <2>5, <2>6
<1>2. QED BY <1>1, CardInvariant, PTL

-----------------------------------------------------------------------------
(* A card leads on *)

\* The detail of the applicant prepares the submission, once there is an item.
LEMMA ApplicantLeadsOn ==
  ASSUME TypeOK, HandlerFitsStatus, db.status \in {"DRAFT", "REJECTED"}
  PROVE  \/ \E b \in Detail("APPLICANT", db.handler, db) :
              b.action = "applicant.prepare" /\ ApplicantPrepares(db, b)
         \/ /\ Present(db.items) = {}
            /\ \E b \in Detail("APPLICANT", db.handler, db) : b.action = "applicant.add_item"
<1>1. {"applicant.add_item", "applicant.prepare"} \subseteq CardActions
  BY DEF CardActions, CardRoles, ActionsOf
<1>2. /\ db.handler = db.applicant /\ db.handler \in Employees
      /\ "APPLICANT" \in RolesOf[db.handler]
  BY RowFields DEF HandlerFitsStatus, TypeOK
<1>3. PICK a : a = Versioned("applicant.add_item", db.handler, db)
  OBVIOUS
<1>4. PICK m : m = Versioned("applicant.prepare", db.handler, db)
  OBVIOUS
<1>5. PICK r \in BOOLEAN : r = (db.status = "REJECTED")
  OBVIOUS
<1>6. PICK b : b = [m EXCEPT !.resubmit = r]
  OBVIOUS
<1>7. a.action = "applicant.add_item"
  BY <1>1, <1>2, <1>3, BaseFields
<1>8. b.action = "applicant.prepare" /\ b.user = db.handler /\ b.resubmit = r
  <2>1. m \in Button /\ m.action = "applicant.prepare" /\ m.user = db.handler
    BY <1>1, <1>2, <1>4, BaseFields
  <2>2. QED BY <1>6, <2>1 DEF Button
<1>9. a \in ApplicantDetail(db.handler, db)
  BY <1>3 DEF ApplicantDetail
<1>10. b \in ApplicantDetail(db.handler, db)
  BY <1>4, <1>5, <1>6 DEF ApplicantDetail
<1>11. Present(db.items) # {} => ApplicantPrepares(db, b)
  BY <1>2, <1>5, <1>8 DEF ApplicantPrepares, MayAct
<1>12. Detail("APPLICANT", db.handler, db) = ApplicantDetail(db.handler, db)
  BY DEF Detail
<1>13. QED BY <1>7, <1>8, <1>9, <1>10, <1>11, <1>12

\* The detail of the building manager prepares the approval, or saves the lines
\* that are missing for it.
LEMMA ManagerLeadsOn ==
  ASSUME TypeOK, HandlerFitsStatus, db.status = "PENDING_REVIEW"
  PROVE  \/ \E b \in Detail("BUILDING_MANAGER", db.handler, db) :
              /\ b.action = "building_manager.prepare_submit_purchaser"
              /\ ManagerPrepares(db, b)
         \/ /\ ReviewedItems(db) # Present(db.items)
            /\ \E b \in Detail("BUILDING_MANAGER", db.handler, db) :
                 b.action = "building_manager.save_review_items"
<1>1. {"building_manager.save_review_items", "building_manager.prepare_submit_purchaser"}
        \subseteq CardActions
  BY DEF CardActions, CardRoles, ActionsOf
<1>2. db.handler \in Employees /\ "BUILDING_MANAGER" \in RolesOf[db.handler]
  BY ConstantsAssumption DEF HandlerFitsStatus, ValidHandler
<1>3. PICK a : a = Versioned("building_manager.save_review_items", db.handler, db)
  OBVIOUS
<1>4. PICK b : b = Plain("building_manager.prepare_submit_purchaser", db.handler)
  OBVIOUS
<1>5. /\ a.action = "building_manager.save_review_items"
      /\ b.action = "building_manager.prepare_submit_purchaser" /\ b.user = db.handler
  BY <1>1, <1>2, <1>3, <1>4, BaseFields
<1>6. a \in ManagerDetail(db.handler, db) /\ b \in ManagerDetail(db.handler, db)
  BY <1>3, <1>4 DEF ManagerDetail
<1>7. ReviewedItems(db) = Present(db.items) => ManagerPrepares(db, b)
  BY <1>2, <1>5 DEF ManagerPrepares, MayAct
<1>8. Detail("BUILDING_MANAGER", db.handler, db) = ManagerDetail(db.handler, db)
  BY DEF Detail
<1>9. QED BY <1>5, <1>6, <1>7, <1>8

\* The detail of the purchaser takes the request over, and then opens an item
\* that is not bought yet or prepares the hand-over.
LEMMA PurchaserLeadsOn ==
  ASSUME TypeOK, HandlerFitsStatus, PurchasesMatchItems
  PROVE  LET detail == Detail("PURCHASER", db.handler, db) IN
         /\ db.status = "PENDING_PURCHASE" => \E b \in detail : b.action = "purchaser.start_purchase"
         /\ db.status = "PURCHASING" =>
              \/ \E b \in detail :
                   b.action = "purchaser.prepare_submit_warehouse" /\ PurchaserPrepares(db, b)
              \/ \E b \in detail : b.action = "purchaser.open_purchase_item"
<1>1. {"purchaser.start_purchase", "purchaser.prepare_submit_warehouse",
       "purchaser.open_purchase_item"} \subseteq CardActions
  BY DEF CardActions, CardRoles, ActionsOf
<1>2. Detail("PURCHASER", db.handler, db) = PurchaserDetail(db.handler, db)
  BY DEF Detail
<1>3. db.status \in {"PENDING_PURCHASE", "PURCHASING"} =>
        db.handler \in Employees /\ "PURCHASER" \in RolesOf[db.handler]
  BY ConstantsAssumption DEF HandlerFitsStatus, ValidHandler
<1>4. ASSUME db.status = "PENDING_PURCHASE"
      PROVE  \E b \in PurchaserDetail(db.handler, db) : b.action = "purchaser.start_purchase"
  <2>1. PICK m : m = Versioned("purchaser.start_purchase", db.handler, db)
    OBVIOUS
  <2>2. PICK t : t = NewToken
    OBVIOUS
  <2>3. PICK b : b = [m EXCEPT !.token = t]
    OBVIOUS
  <2>4. m \in Button /\ m.action = "purchaser.start_purchase"
    BY <1>1, <1>3, <1>4, <2>1, BaseFields
  <2>5. b.action = "purchaser.start_purchase"
    BY <2>3, <2>4 DEF Button
  <2>6. b \in PurchaserDetail(db.handler, db)
    BY <1>4, <2>1, <2>2, <2>3 DEF PurchaserDetail
  <2>7. QED BY <2>5, <2>6
<1>5. ASSUME db.status = "PURCHASING", Present(db.executions) = Present(db.items)
      PROVE  \E b \in PurchaserDetail(db.handler, db) :
               b.action = "purchaser.prepare_submit_warehouse" /\ PurchaserPrepares(db, b)
  <2>1. PICK b : b = Plain("purchaser.prepare_submit_warehouse", db.handler)
    OBVIOUS
  <2>2. b.action = "purchaser.prepare_submit_warehouse" /\ b.user = db.handler
    BY <1>1, <1>3, <1>5, <2>1, BaseFields
  <2>3. b \in PurchaserDetail(db.handler, db)
    BY <1>5, <2>1 DEF PurchaserDetail
  <2>4. PurchaserPrepares(db, b)
    BY <1>3, <1>5, <2>2 DEF PurchaserPrepares, MayAct
  <2>5. QED BY <2>2, <2>3, <2>4
<1>6. ASSUME db.status = "PURCHASING", Present(db.executions) # Present(db.items)
      PROVE  \E b \in PurchaserDetail(db.handler, db) : b.action = "purchaser.open_purchase_item"
  <2>1. Present(db.executions) \subseteq Present(db.items)
    BY DEF PurchasesMatchItems, Present
  <2>2. PICK i \in Present(db.items) \ Present(db.executions) : TRUE
    BY <1>6, <2>1
  <2>3. PICK m : m = Plain("purchaser.open_purchase_item", db.handler)
    OBVIOUS
  <2>4. PICK b : b = [m EXCEPT !.item = i]
    OBVIOUS
  <2>5. m \in Button /\ m.action = "purchaser.open_purchase_item"
    BY <1>1, <1>3, <1>6, <2>3, BaseFields
  <2>6. b.action = "purchaser.open_purchase_item"
    BY <2>4, <2>5 DEF Button
  <2>7. b \in PurchaserDetail(db.handler, db)
    BY <1>6, <2>2, <2>3, <2>4 DEF PurchaserDetail
  <2>8. QED BY <2>6, <2>7
<1>7. QED BY <1>2, <1>4, <1>5, <1>6

\* The detail of the warehouse manager appends a receipt that is missing, or
\* prepares the completion.
LEMMA WarehouseLeadsOn ==
  ASSUME TypeOK, HandlerFitsStatus, PurchasesMatchItems, db.status = "PENDING_WAREHOUSE"
  PROVE  LET detail == Detail("WAREHOUSE_MANAGER", db.handler, db) IN
         \/ \E b \in detail : b.action = "warehouse.prepare_complete" /\ WarehousePrepares(db, b)
         \/ \E b \in detail : b.action = "warehouse.append_receipt"
<1>1. {"warehouse.prepare_complete", "warehouse.append_receipt"} \subseteq CardActions
  BY DEF CardActions, CardRoles, ActionsOf
<1>2. Detail("WAREHOUSE_MANAGER", db.handler, db) = WarehouseDetail(db.handler, db)
  BY DEF Detail
<1>3. db.handler \in Employees /\ "WAREHOUSE_MANAGER" \in RolesOf[db.handler]
  BY ConstantsAssumption DEF HandlerFitsStatus, ValidHandler
<1>4. \A i \in Present(db.items) : db.executions[i] # None
  BY DEF PurchasesMatchItems, Present
<1>5. CASE \A i \in RequiresWarehouse(db) : Received(db, i)
  <2>1. PICK b : b = Plain("warehouse.prepare_complete", db.handler)
    OBVIOUS
  <2>2. b.action = "warehouse.prepare_complete" /\ b.user = db.handler
    BY <1>1, <1>3, <2>1, BaseFields
  <2>3. b \in WarehouseDetail(db.handler, db)
    BY <2>1 DEF WarehouseDetail
  <2>4. WarehousePrepares(db, b)
    BY <1>3, <1>4, <1>5, <2>2 DEF WarehousePrepares, MayAct
  <2>5. QED BY <1>2, <2>2, <2>3, <2>4
<1>6. ASSUME NEW i \in RequiresWarehouse(db), ~Received(db, i)
      PROVE  \E b \in WarehouseDetail(db.handler, db) : b.action = "warehouse.append_receipt"
  <2>1. db.executions[i] # None
    BY <1>4 DEF RequiresWarehouse
  <2>2. PICK m : m = Versioned("warehouse.append_receipt", db.handler, db)
    OBVIOUS
  <2>3. PICK t : t = ItemTokens[i]
    OBVIOUS
  <2>4. PICK b : b = [m EXCEPT !.item = i, !.token = t]
    OBVIOUS
  <2>5. m \in Button /\ m.action = "warehouse.append_receipt"
    BY <1>1, <1>3, <2>2, BaseFields
  <2>6. b.action = "warehouse.append_receipt"
    BY <2>4, <2>5 DEF Button
  <2>7. b \in WarehouseDetail(db.handler, db)
    BY <1>6, <2>1, <2>2, <2>3, <2>4 DEF WarehouseDetail
  <2>8. QED BY <2>6, <2>7
<1>7. QED BY <1>2, <1>5, <1>6

LEMMA LeadsOn ==
  ASSUME CardInv, ResubmittedRequestCanBeApproved
  PROVE  AdvanceIsOffered
<1>1. TypeOK /\ HandlerFitsStatus /\ PurchasesMatchItems /\ CompletionIsFulfilled
  BY DEF CardInv, RequestInv, Custody, Fulfilment
<1>2. db.status \in Statuses
  BY <1>1, RowFields DEF TypeOK
<1>3. db.status = "COMPLETED" => db.handler = None
  BY <1>1 DEF CompletionIsFulfilled
<1>4. QED BY <1>1, <1>2, <1>3, ApplicantLeadsOn, ManagerLeadsOn, PurchaserLeadsOn, WarehouseLeadsOn
          DEF AdvanceIsOffered, ResubmittedRequestCanBeApproved, Statuses

\* Whatever happened before, the detail card of the current handler leads on,
\* but for the review of a request resubmitted with fewer items (the prepare
\* actions of the role services against the checks of the backend's handlers).
THEOREM CardsLeadOn ==
  CardSpec => [](ResubmittedRequestCanBeApproved => AdvanceIsOffered)
BY LeadsOn, CardInvariant, PTL

\* For a request of one item there is no such review.
THEOREM SingleItemLeadsOn ==
  ASSUME \A i, j \in Items : i = j
  PROVE  CardSpec => []AdvanceIsOffered
<1>1. CardInv => ResubmittedRequestCanBeApproved
  <2>1. CardInv => Asks /\ ReviewedItems(db) \subseteq Items /\ Present(db.items) \subseteq Items
    BY DEF CardInv, RequestInv, ReviewedItems, Present
  <2>2. QED BY <2>1 DEF Asks, ResubmittedRequestCanBeApproved
<1>2. QED BY <1>1, LeadsOn, CardInvariant, PTL

\* The cards keep the promise the Agent is written against: what they call are
\* the handlers of the workflow, so RequirementFlow is implemented under cards too.
THEOREM CardsKeepFlow == CardSpec => KeepsFlow
<1>1. CardInit => Flow!FlowInit
  BY DEF CardInit, Init, Flow!FlowInit
<1>2. CardInv /\ [CardNext]_cardVars => [Flow!FlowNext]_<<db.status, db.version, db.handler>>
  <2> SUFFICES ASSUME CardInv, [CardNext]_cardVars, db' # db
               PROVE  Flow!FlowNext
    OBVIOUS
  <2>1. PICK s \in Slots : Change(s)
    BY DEF cardVars, CardNext, Open, Prepare, Refresh, KeepLastItem, Start, Conflict, Fail, Answer
  <2>2. Custody
    BY DEF CardInv, RequestInv
  <2>3. Handle(db, press[s].button.user, Token) /\ press[s].button.user \in Employees
    BY <2>1, PressHandles DEF Change
  <2>4. QED BY <2>2, <2>3, HandleCustody, StepKeepsFlow DEF Custody
<1>3. QED BY <1>1, <1>2, CardInvariant, PTL DEF CardSpec, KeepsFlow, Flow!FlowSpec
=============================================================================
