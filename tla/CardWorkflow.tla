---------------------------- MODULE CardWorkflow ----------------------------
(***************************************************************************)
(* The role cards on Feishu (application/applicant, building_manager,      *)
(* purchaser and warehouse) over the procurement workflow of the backend.  *)
(*                                                                         *)
(* A card shows a request as it was when the card was built and its        *)
(* buttons carry what a later press needs: the version, the action token,  *)
(* the employee chosen.  Cards stay in the chat, so a button may be        *)
(* pressed at any time and again, also while another press is running.     *)
(* One press is several calls to the backend (read the detail, change the  *)
(* request, read it again for the answer): the request may change between  *)
(* two of them, a call may fail, and the answer of a call may be lost      *)
(* after it took effect.                                                   *)
(*                                                                         *)
(* Role bindings are constants, so the candidates for the next handler     *)
(* never change and the checks of the candidate chosen always hold.        *)
(***************************************************************************)
EXTENDS ProcurementWorkflow

CONSTANTS
    Slots,          \* the presses that can be running at once
    Prices,         \* what the price in a review form can be: "given" or "null"
    MaxButtons      \* bound on the buttons on old cards that will be pressed

VARIABLES
    buttons,        \* the buttons on the cards in the chats
    press           \* the running presses

cardVars == <<db, buttons, press>>

-----------------------------------------------------------------------------
(* Cards: the buttons of each, with what they carry *)

CardRoles == {"APPLICANT", "BUILDING_MANAGER", "PURCHASER", "WAREHOUSE_MANAGER"}

\* The actions of each router, by the prefix of their id
ActionsOf(role) ==
  CASE role = "APPLICANT" ->
         {"applicant.add_item", "applicant.remove_item", "applicant.prepare",
          "applicant.confirm_handler", "applicant.confirm"}
    [] role = "BUILDING_MANAGER" ->
         {"building_manager.save_review_items", "building_manager.save_review_fields",
          "building_manager.prepare_reject", "building_manager.confirm_reject",
          "building_manager.prepare_submit_purchaser", "building_manager.confirm_submit_purchaser"}
    [] role = "PURCHASER" ->
         {"purchaser.start_purchase", "purchaser.open_purchase_item", "purchaser.save_purchase_item",
          "purchaser.save_purchase_fields", "purchaser.prepare_submit_warehouse",
          "purchaser.confirm_submit_warehouse"}
    [] role = "WAREHOUSE_MANAGER" ->
         {"warehouse.append_receipt", "warehouse.save_fields", "warehouse.prepare_complete",
          "warehouse.confirm_complete"}

CardActions == UNION {ActionsOf(role) : role \in CardRoles}

RoleOf(b) == CHOOSE role \in CardRoles : b.action \in ActionsOf(role)

\* ActionButton.value: seen is the detail the card was built from when the button
\* carries its version, None when it does not.
Button == [action : CardActions, user : Employees, seen : Rows \cup {None},
           resubmit : BOOLEAN, item : Items \cup {None}, next : Employees \cup {None},
           token : Token \cup {None}]

\* A running press: its call is not made yet, or done, or refused.
Pressing == [button : Button, stage : {"call", "done", "refused"}]

\* NULL is neither a row nor a token nor a press.
ASSUME CardAssumption ==
  /\ IsFiniteSet(Slots) /\ Items # {} /\ MaxButtons \in Nat /\ Prices \subseteq {"given", "null"}
  /\ None \notin Rows /\ None \notin Token /\ None \notin Pressing

Plain(action, u) ==
  [action |-> action, user |-> u, seen |-> None, resubmit |-> FALSE,
   item |-> None, next |-> None, token |-> None]

Versioned(action, u, d) == [Plain(action, u) EXCEPT !.seen = d]

TokensOnCards ==
  {b.token : b \in buttons} \cup {press[s].button.token : s \in {x \in Slots : press[x] # None}}

\* uuid4: numbers no call and no card has used
FreshNumbers ==
  {n \in 1..(Len(db.log) + MaxButtons + Cardinality(Slots) + Cardinality(Items)) :
     \A t \in UsedTokens(db) \cup (TokensOnCards \ {None}) : t.n # n}

NewToken ==
  [legacy |-> FALSE, n |-> CHOOSE n \in FreshNumbers : TRUE]

\* One token for each item of a card
ItemTokens ==
  LET f == CHOOSE g \in [Items -> FreshNumbers] : \A i, j \in Items : g[i] = g[j] => i = j
  IN  [i \in Items |-> [legacy |-> FALSE, n |-> f[i]]]

\* list_handler_candidates
Candidates(role) == {e \in Employees : ValidHandler(e, role)}

\* _allowed_actions: the current handler, in the role the status calls for
MayAct(d, u, role) == d.handler = u /\ role \in RolesOf[u]

\* can_view_request
CanView(d, u) ==
  \/ u \in {d.applicant, d.handler}
  \/ "ADMIN" \in RolesOf[u]
  \/ "BUILDING_MANAGER" \in RolesOf[u] /\ u \in BuildingStaff
  \/ \E n \in 1..Len(d.log) : d.log[n].by = u

ApplicantDetail(u, d) ==
  IF d.status \notin {"DRAFT", "REJECTED"} THEN {}
  ELSE {Versioned("applicant.add_item", u, d),
        [Versioned("applicant.prepare", u, d) EXCEPT !.resubmit = d.status = "REJECTED"]}
         \cup {[Versioned("applicant.remove_item", u, d) EXCEPT !.item = i] : i \in Present(d.items)}

HandlerSelection(u, resubmit) ==
  {[Plain("applicant.confirm_handler", u) EXCEPT !.resubmit = resubmit, !.next = e] :
     e \in Candidates("BUILDING_MANAGER")}

ApplicantConfirmation(u, d, next, resubmit) ==
  {[Versioned("applicant.confirm", u, d) EXCEPT
      !.resubmit = resubmit, !.next = next, !.token = NewToken]}

ManagerDetail(u, d) ==
  {Plain("building_manager.prepare_submit_purchaser", u)} \cup
  (IF d.status # "PENDING_REVIEW" THEN {}
   ELSE {Versioned("building_manager.save_review_items", u, d),
         Versioned("building_manager.save_review_fields", u, d),
         Plain("building_manager.prepare_reject", u)})

RejectConfirmation(u, d) ==
  {[Versioned("building_manager.confirm_reject", u, d) EXCEPT !.token = NewToken]}

PurchaserConfirmation(u, d, next) ==
  {[Versioned("building_manager.confirm_submit_purchaser", u, d) EXCEPT
      !.next = next, !.token = NewToken]}

PurchaserDetail(u, d) ==
  CASE d.status = "PENDING_PURCHASE" ->
         {[Versioned("purchaser.start_purchase", u, d) EXCEPT !.token = NewToken]}
    [] d.status = "PURCHASING" ->
         {Plain("purchaser.prepare_submit_warehouse", u)}
           \cup {[Plain("purchaser.open_purchase_item", u) EXCEPT !.item = i] :
                   i \in Present(d.items) \ Present(d.executions)}
           \cup (IF Cardinality(Present(d.items)) > 1 THEN {}
                 ELSE {Versioned("purchaser.save_purchase_fields", u, d)})
    [] OTHER -> {}

PurchaseItemForm(u, d, i) ==
  {[Versioned("purchaser.save_purchase_item", u, d) EXCEPT !.item = i, !.token = NewToken]}

WarehouseConfirmation(u, d, next) ==
  {[Versioned("purchaser.confirm_submit_warehouse", u, d) EXCEPT
      !.next = next, !.token = NewToken]}

\* item_is_complete, for an item that goes to the warehouse
Received(d, i) == d.executions[i] # None /\ d.received[i] = d.executions[i].qty

WarehouseDetail(u, d) ==
  {Versioned("warehouse.save_fields", u, d), Plain("warehouse.prepare_complete", u)}
    \cup {[Versioned("warehouse.append_receipt", u, d) EXCEPT !.item = i, !.token = ItemTokens[i]] :
            i \in {j \in RequiresWarehouse(d) : d.executions[j] # None /\ ~Received(d, j)}}

CompleteConfirmation(u, d) ==
  {[Versioned("warehouse.confirm_complete", u, d) EXCEPT !.token = NewToken]}

Detail(role, u, d) ==
  CASE role = "APPLICANT"         -> ApplicantDetail(u, d)
    [] role = "BUILDING_MANAGER"  -> ManagerDetail(u, d)
    [] role = "PURCHASER"         -> PurchaserDetail(u, d)
    [] role = "WAREHOUSE_MANAGER" -> WarehouseDetail(u, d)

OwnDetail(b) == Detail(RoleOf(b), b.user, db)

-----------------------------------------------------------------------------
(* The answer of a press that only reads and prepares the next card.  The    *)
(* form of the card may name the employee e.                                  *)

\* A bug: a rejected request is not prepared again.
PreparesDraftOnly(d, b) == d.status = "DRAFT" /\ MayAct(d, b.user, "APPLICANT")

ApplicantPrepares(d, b) ==
  /\ d.status = IF b.resubmit THEN "REJECTED" ELSE "DRAFT"
  /\ MayAct(d, b.user, "APPLICANT")
  /\ Present(d.items) # {}

\* map_requirement_detail: review_items holds the lines of every round.
ReviewedItems(d) == UNION {Present(d.reviews[n].items) : n \in 1..Len(d.reviews)}

ManagerPrepares(d, b) ==
  /\ d.status = "PENDING_REVIEW"
  /\ MayAct(d, b.user, "BUILDING_MANAGER")
  /\ ReviewedItems(d) = Present(d.items)

\* A bug: the executions are not looked at.
PreparesUnbought(d, b) == d.status = "PURCHASING" /\ MayAct(d, b.user, "PURCHASER")

PurchaserPrepares(d, b) ==
  /\ d.status = "PURCHASING"
  /\ MayAct(d, b.user, "PURCHASER")
  /\ Present(d.executions) = Present(d.items)

WarehousePrepares(d, b) ==
  /\ d.status = "PENDING_WAREHOUSE"
  /\ MayAct(d, b.user, "WAREHOUSE_MANAGER")
  /\ \A i \in Present(d.items) : d.executions[i] # None
  /\ \A i \in RequiresWarehouse(d) : Received(d, i)

PreparedCard(d, b, e) ==
  CASE b.action = "applicant.prepare" /\ ApplicantPrepares(d, b) ->
         HandlerSelection(b.user, b.resubmit)
    [] b.action = "applicant.confirm_handler" ->
         ApplicantConfirmation(b.user, d, b.next, b.resubmit)
    [] b.action = "building_manager.prepare_reject" -> RejectConfirmation(b.user, d)
    [] b.action = "building_manager.prepare_submit_purchaser" /\ ManagerPrepares(d, b) ->
         PurchaserConfirmation(b.user, d, e)
    [] b.action = "purchaser.open_purchase_item" -> PurchaseItemForm(b.user, d, b.item)
    [] b.action = "purchaser.prepare_submit_warehouse" /\ PurchaserPrepares(d, b) ->
         WarehouseConfirmation(b.user, d, IF RequiresWarehouse(d) = {} THEN None ELSE e)
    [] b.action = "warehouse.prepare_complete" /\ WarehousePrepares(d, b) ->
         CompleteConfirmation(b.user, d)
    [] OTHER -> Detail(RoleOf(b), b.user, d)

\* The role the prepared step hands the request to.
NextRole(b) == IF RoleOf(b) = "PURCHASER" THEN "WAREHOUSE_MANAGER" ELSE "PURCHASER"

PrepareActions ==
  {"applicant.prepare", "applicant.confirm_handler", "building_manager.prepare_reject",
   "building_manager.prepare_submit_purchaser", "purchaser.open_purchase_item",
   "purchaser.prepare_submit_warehouse", "warehouse.prepare_complete"}

-----------------------------------------------------------------------------
(* The call of a press that changes the request, with the version its button  *)
(* carries                                                                    *)

\* The actions that read the detail and compare its version before they call
ReadFirst ==
  {"applicant.add_item", "applicant.remove_item", "building_manager.save_review_items",
   "building_manager.confirm_submit_purchaser", "purchaser.start_purchase",
   "purchaser.save_purchase_item", "purchaser.save_purchase_fields",
   "purchaser.confirm_submit_warehouse", "warehouse.append_receipt", "warehouse.save_fields",
   "warehouse.confirm_complete"}

CallActions ==
  ReadFirst \cup {"applicant.prepare", "applicant.confirm",
                  "building_manager.save_review_fields", "building_manager.confirm_reject"}

\* A bug: the latest version is sent instead of the one on the button.
LatestVersion(b) == TRUE

\* expected_version
ExpectedVersion(b) == db.version = b.seen.version

ApplicantCall(b) ==
  \/ /\ b.action = "applicant.add_item"
     /\ \E i \in Items \ Present(db.items), item \in Item :
          ReplaceRequestItems(db, b.user, [db.items EXCEPT ![i] = item])
  \/ /\ b.action = "applicant.remove_item"
     /\ ReplaceRequestItems(db, b.user, [db.items EXCEPT ![b.item] = None])
  \/ /\ b.action = "applicant.prepare"
     /\ \E name \in Names \cup {None}, qty \in Quantities :
          SaveApplicantFields(db, b.user, {"name", "qty"}, name, qty)
  \/ /\ b.action = "applicant.confirm"
     /\ SubmitReview(db, b.user, IF b.resubmit THEN "RESUBMIT_REVIEW" ELSE "SUBMIT_REVIEW",
                     b.next, b.token)

\* _synchronize_supplier_reference: the form sends an id only with a name
FormProposals ==
  [name : {"given"}, id : {"given", "null"}] \cup [name : {"omitted", "null"}, id : {"null"}]

ManagerCall(b) ==
  \/ /\ b.action = "building_manager.save_review_items"
     /\ \E price \in Prices :
          SaveReviewItems(db, b.user, Present(db.items),
                          IF price = "given" THEN Present(db.items) ELSE {})
  \/ /\ b.action = "building_manager.save_review_fields"
     /\ \E price \in Prices, proposal \in FormProposals \cap Proposals :
          SaveReviewFields(db, b.user, price, proposal)
  \/ /\ b.action = "building_manager.confirm_reject"
     /\ Reject(db, b.user, db.applicant, b.token)
  \/ /\ b.action = "building_manager.confirm_submit_purchaser"
     /\ SubmitPurchaser(db, b.user, b.next, b.token)

PurchaserCall(b) ==
  \/ /\ b.action = "purchaser.start_purchase"
     /\ StartPurchase(db, b.user, db.handler, b.token)
  \/ /\ b.action = "purchaser.save_purchase_item"
     /\ SavePurchaseItem(db, b.user, b.item, FALSE, b.token)
  \/ /\ b.action = "purchaser.save_purchase_fields"
     /\ \E i \in Items : SavePurchaseFields(db, b.user, i, TRUE)
  \/ /\ b.action = "purchaser.confirm_submit_warehouse"
     /\ SubmitWarehouse(db, b.user, b.next, b.token)

WarehouseCall(b) ==
  \/ /\ b.action = "warehouse.append_receipt"
     /\ \E q \in Quantities : AppendReceipt(db, b.user, b.item, q, b.token)
  \/ /\ b.action = "warehouse.save_fields"
     /\ \E i \in Items, q \in Quantities, remark \in BOOLEAN :
          SaveWarehouseFields(db, b.user, i, q, remark)
  \/ /\ b.action = "warehouse.confirm_complete"
     /\ Complete(db, b.user, None, b.token)

Call(b) ==
  /\ ExpectedVersion(b)
  /\ ApplicantCall(b) \/ ManagerCall(b) \/ PurchaserCall(b) \/ WarehouseCall(b)

\* The backend looks at the caller and the status before it looks at the token
\* and the version: only then does it answer DUPLICATE_OPERATION or
\* CONCURRENT_MODIFICATION, and only the cards of these actions handle it.
RefusalIsHandled(b) ==
  LET manages(role) == RequireCurrentHandler(db, b.user, role)
      sent == b.token # None /\ b.token \in UsedTokens(db)
  IN
  CASE b.action = "applicant.prepare" ->
         ApplicantCanEdit(db, b.user) \/ ManagerCanEdit(db, b.user)
    [] b.action = "building_manager.save_review_fields" ->
         /\ manages("BUILDING_MANAGER")
         /\ db.status = "PENDING_REVIEW"
         /\ Cardinality(Present(db.items)) = 1
    [] b.action \in {"building_manager.confirm_reject",
                     "building_manager.confirm_submit_purchaser"} -> manages("BUILDING_MANAGER")
    [] b.action = "purchaser.confirm_submit_warehouse" ->
         AllActiveItemsExecuted(db) /\ (sent \/ manages("PURCHASER"))
    [] b.action = "purchaser.start_purchase" -> sent \/ manages("PURCHASER")
    [] b.action = "warehouse.confirm_complete" ->
         AllWarehouseItemsFulfilled(db) /\ (sent \/ manages("WAREHOUSE_MANAGER"))
    [] b.action \in {"applicant.confirm", "warehouse.append_receipt"} -> TRUE
    [] OTHER -> FALSE

\* The status that a second look takes for success
TargetStatuses(b) ==
  CASE b.action = "applicant.confirm" -> {"PENDING_REVIEW"}
    [] b.action = "building_manager.confirm_reject" -> {"REJECTED"}
    [] b.action = "building_manager.confirm_submit_purchaser" -> {"PENDING_PURCHASE"}
    [] b.action = "purchaser.confirm_submit_warehouse" -> {"PENDING_WAREHOUSE", "COMPLETED"}
    [] b.action = "warehouse.confirm_complete" -> {"COMPLETED"}
    [] OTHER -> {}

-----------------------------------------------------------------------------
(* Steps *)

Idle(s) == press[s] = None

\* A card is sent.  Which of the buttons around will ever be pressed is decided
\* here: MaxButtons at most.
Show(card) ==
  \E kept \in SUBSET (buttons \cup card) :
    /\ IsFiniteSet(kept) /\ Cardinality(kept) <= MaxButtons
    /\ buttons' = kept

\* open, open_requirement: from a list, a notification or another card
Open(u, role) ==
  /\ role \in RolesOf[u]
  /\ CanView(db, u)
  /\ Show(Detail(role, u, db))
  /\ UNCHANGED <<db, press>>

Prepare(b) ==
  /\ b.action \in PrepareActions
  /\ \E e \in Candidates(NextRole(b)) : Show(PreparedCard(db, b, e))
  /\ UNCHANGED <<db, press>>

\* The detail read first is not the one the button was made from.
Refresh(b) ==
  /\ b.action \in ReadFirst
  /\ db.version # b.seen.version
  /\ Show(OwnDetail(b))
  /\ UNCHANGED <<db, press>>

\* remove_item of the only item
KeepLastItem(b) ==
  /\ b.action = "applicant.remove_item"
  /\ Present(db.items) = {b.item}
  /\ Show(OwnDetail(b))
  /\ UNCHANGED <<db, press>>

Start(s, b) ==
  /\ Idle(s)
  /\ b.action \in CallActions
  /\ b.action \in ReadFirst => db.version = b.seen.version
  /\ b.action = "applicant.remove_item" => Present(db.items) # {b.item}
  /\ press' = [press EXCEPT ![s] = [button |-> b, stage |-> "call"]]
  /\ UNCHANGED <<db, buttons>>

\* After the call only the answer is left, which reads the request again.
Called(b, result) ==
  [button |-> [b EXCEPT !.seen = None, !.token = None], stage |-> result]

\* The request is changed; the answer of the call arrives or is lost.
Change(s) ==
  /\ press[s] # None
  /\ press[s].stage = "call"
  /\ Call(press[s].button)
  /\ \/ press' = [press EXCEPT ![s] = Called(@.button, "done")]
     \/ press' = [press EXCEPT ![s] = None]
  /\ UNCHANGED buttons

\* The call comes too late.  An error that no card handles fails the event.
Conflict(s) ==
  /\ press[s] # None
  /\ press[s].stage = "call"
  /\ db.version # press[s].button.seen.version
  /\ press' = IF RefusalIsHandled(press[s].button)
              THEN [press EXCEPT ![s] = Called(@.button, "refused")] ELSE [press EXCEPT ![s] = None]
  /\ UNCHANGED <<db, buttons>>

\* Any call may be refused for another reason or not get through.
Fail(s) ==
  /\ press[s] # None
  /\ press' = [press EXCEPT ![s] = None]
  /\ UNCHANGED <<db, buttons>>

\* A bug: a conflict is taken for a duplicate.
AnyAnswerIsDone(s) == press[s].stage \in {"done", "refused"}

\* The result card: the step of the press counts as done.
IsDone(s) ==
  \/ press[s].stage = "done"
  \/ press[s].stage = "refused" /\ db.status \in TargetStatuses(press[s].button)

\* The answer of a confirmation that counts as done is its result card.
AnnouncesStep(s) ==
  press[s] # None /\ IsDone(s) /\ TargetStatuses(press[s].button) # {}

\* What the user sees after the call: the result card of a confirmation, the
\* handlers to choose from after the form was saved, or the detail.
AnswerCard(s) ==
  LET b == press[s].button IN
  CASE press[s].stage = "done" /\ b.action = "applicant.prepare" -> PreparedCard(db, b, None)
    [] AnnouncesStep(s) -> {}
    [] OTHER -> OwnDetail(b)

Answer(s) ==
  /\ press[s] # None
  /\ press[s].stage \in {"done", "refused"}
  /\ Show(AnswerCard(s))
  /\ press' = [press EXCEPT ![s] = None]
  /\ UNCHANGED db

CardInit ==
  /\ Init
  /\ buttons = {}
  /\ press = [s \in Slots |-> None]

CardNext ==
  \/ \E u \in Employees, role \in CardRoles : Open(u, role)
  \/ \E b \in buttons : Prepare(b) \/ Refresh(b) \/ KeepLastItem(b)
  \/ \E s \in Slots, b \in buttons : Start(s, b)
  \/ \E s \in Slots : Change(s) \/ Conflict(s) \/ Fail(s) \/ Answer(s)

CardSpec == CardInit /\ [][CardNext]_cardVars

-----------------------------------------------------------------------------
(* Properties *)

Pressed == {press[s].button : s \in {x \in Slots : press[x] # None}}

CardTypeOK ==
  /\ TypeOK
  /\ buttons \subseteq Button
  /\ press \in [Slots -> Pressing \cup {None}]

\* A press acts on what its card showed: whenever a card changes the request,
\* the items, reviews, executions and receipts are those the card was built
\* from, however old the card, and whoever else pressed a button in between
\* (expected_version is taken from the card, not from the latest detail).
ActsOnWhatWasShown ==
  [][db' # db => \E b \in Pressed : b.seen = db /\ b.user = db.handler]_cardVars

Announces(action, entry) ==
  CASE action = "applicant.confirm" -> entry.action \in {"SUBMIT_REVIEW", "RESUBMIT_REVIEW"}
    [] action = "building_manager.confirm_reject" -> entry.action = "REJECT"
    [] action = "building_manager.confirm_submit_purchaser" -> entry.action = "SUBMIT_PURCHASER"
    [] action = "purchaser.confirm_submit_warehouse" -> entry.action = "SUBMIT_WAREHOUSE"
    [] action = "warehouse.confirm_complete" -> entry.action = "COMPLETE"

\* A card that announces a formal step tells the truth: the step is in the
\* operation log of the request, also when the answer comes from a second look
\* after a duplicate or a conflict.  It is the step of the user who pressed, but
\* for a building manager whose call was refused: another manager may have taken
\* the step since.
AnnouncedStepsHappened ==
  \A s \in Slots :
    AnnouncesStep(s) =>
      \E n \in 1..Len(db.log) :
        /\ Announces(press[s].button.action, db.log[n])
        /\ \/ db.log[n].by = press[s].button.user
           \/ press[s].stage = "refused" /\ RoleOf(press[s].button) = "BUILDING_MANAGER"

\* The backend takes the step that one of the four buttons asks for.
Confirms(b) ==
  CASE b.action = "building_manager.confirm_submit_purchaser" ->
         CanTransition(db, b.user, "SUBMIT_PURCHASER", "PENDING_PURCHASE", b.next, b.token)
    [] b.action = "purchaser.start_purchase" ->
         CanTransition(db, b.user, "START_PURCHASE", "PURCHASING", db.handler, b.token)
    [] b.action = "purchaser.confirm_submit_warehouse" ->
         /\ Present(db.items) # {} /\ AllActiveItemsExecuted(db)
         /\ CanTransition(db, b.user, "SUBMIT_WAREHOUSE",
              IF RequiresWarehouse(db) = {} THEN "COMPLETED" ELSE "PENDING_WAREHOUSE",
              b.next, b.token)
    [] b.action = "warehouse.confirm_complete" ->
         /\ AllWarehouseItemsFulfilled(db)
         /\ CanTransition(db, b.user, "COMPLETE", "COMPLETED", None, b.token)

\* Four buttons are a promise, start_purchase and the confirmations of the approval,
\* of the hand-over to the warehouse and of the completion: as long as the request is
\* the one the card shows, the backend accepts the step for the current handler.
\* The checks that prepare these cards are as strict as those of the handlers, and a
\* token is never offered twice.  applicant.confirm and building_manager.confirm_reject
\* are no such promise: EveryConfirmationIsHonoured says what is missing.
ConfirmationsAreHonoured ==
  \A b \in buttons :
    (/\ b.seen = db /\ db.version < MaxVersion
     /\ b.action \in {"building_manager.confirm_submit_purchaser", "purchaser.start_purchase",
                      "purchaser.confirm_submit_warehouse", "warehouse.confirm_complete"}
     /\ b.user = db.handler)
    => Confirms(b)

\* A card leads on: whatever happened before, the detail card of the current
\* handler has a button that takes the request to its next step or, when
\* something is missing for it, one that supplies it.  For a request of one item:
\* with more, it needs ResubmittedRequestCanBeApproved, which does not hold.
AdvanceIsOffered ==
  LET u == db.handler
      offers(role, action) == \E b \in Detail(role, u, db) : b.action = action
      prepares(role, action, Prepares(_, _)) ==
        \E b \in Detail(role, u, db) : b.action = action /\ Prepares(db, b)
  IN
  CASE db.status \in {"DRAFT", "REJECTED"} ->
         \/ prepares("APPLICANT", "applicant.prepare", ApplicantPrepares)
         \/ Present(db.items) = {} /\ offers("APPLICANT", "applicant.add_item")
    [] db.status = "PENDING_REVIEW" ->
         \/ prepares("BUILDING_MANAGER", "building_manager.prepare_submit_purchaser", ManagerPrepares)
         \/ /\ offers("BUILDING_MANAGER", "building_manager.save_review_items")
            /\ ReviewedItems(db) \subseteq Present(db.items)
    [] db.status = "PENDING_PURCHASE" -> offers("PURCHASER", "purchaser.start_purchase")
    [] db.status = "PURCHASING" ->
         \/ prepares("PURCHASER", "purchaser.prepare_submit_warehouse", PurchaserPrepares)
         \/ offers("PURCHASER", "purchaser.open_purchase_item")
    [] db.status = "PENDING_WAREHOUSE" ->
         \/ prepares("WAREHOUSE_MANAGER", "warehouse.prepare_complete", WarehousePrepares)
         \/ offers("WAREHOUSE_MANAGER", "warehouse.append_receipt")
    [] OTHER -> u = None

-----------------------------------------------------------------------------
(* What the documents say, or a user expects, and the code does not do *)

\* A rejected request is changed, submitted again and approved: the review can
\* always be completed, whatever the applicant changed after the rejection.
ResubmittedRequestCanBeApproved ==
  db.status = "PENDING_REVIEW" => ReviewedItems(db) \subseteq Present(db.items)

\* Every confirmation is a promise, also those of the submission and the rejection:
\* they are offered only where the step can be taken.  Their cards are prepared
\* without a look at the status and the handler (confirm_handler, prepare_reject), so
\* that an old selection or an old detail leads to a confirmation of a step that the
\* status no longer allows.
EveryConfirmationIsHonoured ==
  /\ ConfirmationsAreHonoured
  /\ \A b \in buttons :
       (b.seen = db /\ db.version < MaxVersion) =>
         CASE b.action = "applicant.confirm" ->
                CanTransition(db, b.user, IF b.resubmit THEN "RESUBMIT_REVIEW" ELSE "SUBMIT_REVIEW",
                              "PENDING_REVIEW", b.next, b.token)
           [] b.action = "building_manager.confirm_reject" ->
                CanTransition(db, b.user, "REJECT", "REJECTED", db.applicant, b.token)
           [] OTHER -> TRUE

=============================================================================
