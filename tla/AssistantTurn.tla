---------------------------- MODULE AssistantTurn ----------------------------
(***************************************************************************)
(* One conversation with the assistant (application/assistant, and         *)
(* application/fault_guidance): the turns it takes on the messages of one  *)
(* employee, one after the other, while he also works on the cards.        *)
(*                                                                         *)
(* What a turn knows is in three places: the session the backend keeps     *)
(* (adapters/backend, get_agent_state and update_agent_state), the fault   *)
(* state in Redis, and the requests themselves.  Each step of a turn is    *)
(* one call that changes one of them; any of these calls can fail, which   *)
(* ends the turn where it is.  What the language model decides is free.    *)
(*                                                                         *)
(* A list of items is a set of kinds.  Every other field of a request is   *)
(* written with its items or not at all; of what the session collects the  *)
(* model keeps the unit price.                                             *)
(***************************************************************************)
EXTENDS Integers, FiniteSets

CONSTANTS
    Items,
    Assets,
    Drafts,             \* ids of the requests this employee may create, 1..n
    Orders,             \* requests of others that he works on, in any of his roles
    Prices,
    Roles,              \* his roles
    MaxCalls,           \* max_total_tool_calls
    None

ASSUME AssistantAssumption ==
  /\ Drafts \cap Orders = {} /\ None \notin Drafts \cup Orders
  /\ MaxCalls \in Nat \ {0}

VARIABLES
    session,    \* the session of the conversation, None when there is none
    fault,      \* the fault state of the conversation, None when there is none
    drafts,     \* the requests he created: their items, and whether they can be edited
    orders,     \* the unit price saved for each order
    turn,       \* the turn that is running
    told        \* history: the prices he gave for each order

assistantVars == <<session, fault, drafts, orders, turn, told>>

-----------------------------------------------------------------------------
\* AgentSessionStateUpdate(): purchase_request_id, task.request_draft and
\* collected_data["actual_unit_price"]
NewSession == [request |-> None, draft |-> {}, price |-> None]

\* FaultState()
NewFault == [asset |-> None, items |-> {}]

\* What the sessions and the fault states can be
SessionState == [request : Drafts \cup Orders \cup {None}, draft : SUBSET Items,
                 price : Prices \cup {None}]

FaultState == [asset : Assets \cup {None}, items : SUBSET Items]

\* None is neither.
ASSUME StateAssumption == None \notin SessionState /\ None \notin FaultState

AssistantInit ==
  /\ session = None
  /\ fault = None
  /\ drafts = [d \in Drafts |-> None]
  /\ orders = [o \in Orders |-> None]
  /\ turn = None
  /\ told = [o \in Orders |-> {}]

\* SessionReferenceStore.save and AgentTaskStateService.save start from what is
\* there, or from nothing when the session is lost.
Current == IF session = None THEN NewSession ELSE session

FreeDrafts == {d \in Drafts : drafts[d] = None /\ \A e \in 1..(d - 1) : drafts[e] # None}

Editable(d) == d \in Drafts /\ drafts[d] # None /\ drafts[d].open

HeldItems(f) == IF f = None THEN {} ELSE f.items

-----------------------------------------------------------------------------
(* The cards and time *)

\* The applicant edits the items of a draft on its card, or submits it.
CardEdits(d) ==
  /\ Editable(d)
  /\ \E S \in (SUBSET Items) \ {{}} : drafts' = [drafts EXCEPT ![d].items = S]
  /\ UNCHANGED <<session, fault, orders, turn, told>>

CardSubmits(d) ==
  /\ Editable(d)
  /\ drafts[d].items # {}
  /\ drafts' = [drafts EXCEPT ![d].open = FALSE]
  /\ UNCHANGED <<session, fault, orders, turn, told>>

\* The purchaser saves a price on the card.
CardPrices(o) ==
  /\ \E p \in Prices :
       /\ orders' = [orders EXCEPT ![o] = p]
       /\ told' = [told EXCEPT ![o] = @ \cup {p}]
  /\ UNCHANGED <<session, fault, drafts, turn>>

\* The session expires, and there is no snapshot: the assistant takes none.
SessionExpires ==
  /\ session # None
  /\ session' = None
  /\ UNCHANGED <<fault, drafts, orders, turn, told>>

FaultExpires ==
  /\ fault # None
  /\ fault' = None
  /\ UNCHANGED <<session, drafts, orders, turn, told>>

-----------------------------------------------------------------------------
(* A turn begins: AssistantService.handle *)

\* What a message is, before anything is asked of the model: the command that
\* starts the guidance, a message with its prefix, a cancellation, a change of role
\* or anything else.  While the guidance is active every message is its own.
IsFaultTurn(text) == text \in {"start", "fault"} \/ fault # None

\* GroundingPolicy: a question about facts (factual: what its words say) is not
\* answered before a tool that knows them has been called.
MustLookUp(text, factual) == text = "other" /\ ~IsFaultTurn(text) /\ factual

\* The state read is the one the turn works with to its end; the agent is given the
\* request that is active in it.
BeginTurn ==
  /\ turn = None
  /\ Roles # {}
  /\ \E text \in {"start", "fault", "cancel", "role", "other"}, factual \in BOOLEAN :
       /\ IsFaultTurn(text) => "APPLICANT" \in Roles
       /\ turn' = [text |-> text,
                   step |-> IF text = "start" THEN "start"
                            ELSE IF IsFaultTurn(text) THEN "fault"
                            ELSE IF text = "role" THEN "role" ELSE "think",
                   session |-> IF IsFaultTurn(text) \/ text = "role" THEN session ELSE None,
                   active |-> IF session = None THEN None ELSE session.request,
                   fault |-> IF fault = None THEN NewFault ELSE fault,
                   before |-> HeldItems(fault),
                   calls |-> 0, mutated |-> FALSE,
                   unproved |-> MustLookUp(text, factual),
                   request |-> None, items |-> {}, price |-> None, collected |-> None,
                   read |-> None, tool |-> None, wrote |-> {}]
  /\ UNCHANGED <<session, fault, drafts, orders, told>>

At(step) == turn # None /\ turn.step = step

EndTurn == turn' = None

Continue(t, step) == turn' = [t EXCEPT !.step = step]

\* A call fails, the model answers nonsense, a limit is reached, or the process
\* dies: the turn is over, with what it has done so far.
FailTurn ==
  /\ turn # None
  /\ EndTurn
  /\ UNCHANGED <<session, fault, drafts, orders, told>>

\* _save_focused_role writes back the state read at the beginning.
SwitchRole ==
  /\ At("role")
  /\ session' = IF turn.session = None THEN NewSession ELSE turn.session
  /\ EndTurn
  /\ UNCHANGED <<fault, drafts, orders, told>>

-----------------------------------------------------------------------------
(* Fault guidance: FaultGuidanceService.handle_message *)

\* start
StartGuidance ==
  /\ At("start")
  /\ fault' = NewFault
  /\ EndTurn
  /\ UNCHANGED <<session, drafts, orders, told>>

\* A cancellation or a reset, which come with or without the prefix
CancelGuidance ==
  /\ At("fault")
  /\ turn.text \in {"cancel", "fault"}
  /\ fault' = None
  /\ turn' = [turn EXCEPT !.text = "cancel", !.step = "reply"]
  /\ UNCHANGED <<session, drafts, orders, told>>

\* AssetResolver: the one asset the message names, if it names just one
NamedAsset == Assets \cup {None}

\* Another asset than before starts over.
ResolveAsset ==
  /\ At("fault")
  /\ turn.text # "cancel"
  /\ \E a \in NamedAsset :
       LET changed == a # None /\ turn.fault.asset \notin {None, a}
           known   == IF changed THEN [asset |-> a, items |-> {}]
                      ELSE IF a # None THEN [turn.fault EXCEPT !.asset = a] ELSE turn.fault
       IN  /\ turn' = [turn EXCEPT !.fault = known, !.step = "decide",
                                   !.text = IF changed THEN "new asset" ELSE @]
           /\ fault' = IF changed THEN None ELSE fault
  /\ UNCHANGED <<session, drafts, orders, told>>

\* The model's decision, and the candidates that come with it and are valid;
\* no valid candidate is {}.
Decisions == [action : {"ANSWER", "PROPOSE_ITEM", "DIRECT_TO_PROCUREMENT"}, items : SUBSET Items]

\* A bug: the candidates of this very message are ordered.
DirectAtOnce(decision) ==
  decision.action = "DIRECT_TO_PROCUREMENT" /\ (turn.fault.items # {} \/ decision.items # {})

\* _handle_direct: only what was kept from an earlier message is ordered.
GoesToProcurement(decision) ==
  decision.action = "DIRECT_TO_PROCUREMENT" /\ turn.fault.items # {}

\* A bug: the fault state is deleted before the draft is there.
DeletesFirst == <<"delete", "create", "fill", "reply">>

\* _handle_direct, create_from_fault
HandOver == <<"create", "fill", "delete", "reply">>

StepAfter(step) == HandOver[1 + (CHOOSE n \in DOMAIN HandOver : HandOver[n] = step)]

\* ANSWER and ASK keep the state; PROPOSE_ITEM, and DIRECT_TO_PROCUREMENT when
\* nothing was proposed before, keep the new candidates if these are valid.
Decide ==
  /\ At("decide")
  /\ \E decision \in Decisions :
       LET items == IF turn.fault.items = {} THEN decision.items ELSE turn.fault.items
           kept  == IF decision.action # "ANSWER" /\ decision.items # {} THEN decision.items
                    ELSE turn.fault.items
       IN
       IF GoesToProcurement(decision)
       THEN /\ turn' = [turn EXCEPT !.step = HandOver[1], !.items = items]
            /\ UNCHANGED fault
       ELSE /\ fault' = [turn.fault EXCEPT !.items = kept]
            /\ Continue(turn, "reply")
  /\ UNCHANGED <<session, drafts, orders, told>>

\* create_requirement
CreateFaultDraft ==
  /\ At("create") /\ turn.tool = None
  /\ \E d \in FreeDrafts :
       /\ drafts' = [drafts EXCEPT ![d] = [items |-> {}, open |-> TRUE]]
       /\ turn' = [turn EXCEPT !.step = StepAfter("create"), !.request = d, !.wrote = @ \cup {d}]
  /\ UNCHANGED <<session, fault, orders, told>>

\* update_applicant_fields and replace_request_items, each with the version just read
FillFaultDraft ==
  /\ At("fill")
  /\ Editable(turn.request)
  /\ drafts' = [drafts EXCEPT ![turn.request].items = turn.items]
  /\ Continue(turn, StepAfter("fill"))
  /\ UNCHANGED <<session, fault, orders, told>>

DeleteFault ==
  /\ At("delete")
  /\ fault' = None
  /\ Continue(turn, StepAfter("delete"))
  /\ UNCHANGED <<session, drafts, orders, told>>

\* The reply is stored.  Only then does the session learn of a new draft.
ReplyToFault ==
  /\ At("reply")
  /\ IF turn.request = None THEN EndTurn ELSE Continue(turn, "remember")
  /\ UNCHANGED <<session, fault, drafts, orders, told>>

\* _save_purchase_request writes back the state read at the beginning.
RememberFaultDraft ==
  /\ At("remember")
  /\ session' = [(IF turn.session = None THEN NewSession ELSE turn.session)
                   EXCEPT !.request = turn.request]
  /\ EndTurn
  /\ UNCHANGED <<fault, drafts, orders, told>>

-----------------------------------------------------------------------------
(* The agent calls tools: AssistantRuntime.run *)

\* The tools that fill in what someone else asked for
RecordTools == {"apply_supplier_profile", "update_review_draft", "update_warehouse_draft"}

Mutating == RecordTools \cup
  {"update_multi_item_draft", "update_applicant_draft", "update_purchase_draft"}

\* None is not the name of a tool.
ASSUME ToolAssumption == None \notin Mutating

\* CapabilityPolicy: a tool that none of his roles may call ends the turn.
AllowedRoles(tool) ==
  CASE tool \in {"update_purchase_draft", "apply_supplier_profile"} -> {"PURCHASER"}
    [] tool = "update_review_draft" -> {"BUILDING_MANAGER"}
    [] tool = "update_warehouse_draft" -> {"WAREHOUSE_MANAGER"}
    [] tool = "get_supplier_profile" -> {"BUILDING_MANAGER", "PURCHASER"}
    [] tool = "recommend_products" -> {"APPLICANT", "BUILDING_MANAGER", "PURCHASER"}
    [] tool = "search_purchase_requests" -> Roles
    [] OTHER -> {"APPLICANT"}

\* A bug: a mutating call counts when it has succeeded, at the end of the turn.
CallsUncounted(tool) == [turn EXCEPT !.calls = @ + 1, !.tool = tool]

\* mutation_seen is set before the call, whatever comes of it.
CallsTool(tool) ==
  [turn EXCEPT !.calls = @ + 1, !.tool = tool, !.mutated = @ \/ tool \in Mutating]

\* A second mutating call of a turn is answered MUTATION_LIMIT_EXCEEDED.
MayCall(tool) ==
  /\ At("think")
  /\ turn.calls < MaxCalls
  /\ AllowedRoles(tool) \cap Roles # {}
  /\ tool \in Mutating => ~turn.mutated

\* The tool has answered and the loop goes on.  A result that is presented to the
\* user ends the turn after the rest of its batch, like any other end.
ToolDone(t) == [t EXCEPT !.step = "think", !.request = None, !.items = {}, !.price = None,
                         !.collected = None, !.read = None, !.tool = None]

\* A mutating tool that refuses its arguments, or asks for more, has changed nothing.
RefuseCall ==
  /\ \E tool \in Mutating : MayCall(tool) /\ turn' = ToolDone(CallsTool(tool))
  /\ UNCHANGED <<session, fault, drafts, orders, told>>

\* The turn ends with an answer, not before the facts it needs are looked up.
Answer ==
  /\ At("think")
  /\ ~turn.unproved
  /\ EndTurn
  /\ UNCHANGED <<session, fault, drafts, orders, told>>

\* A search with more than one match forgets the active request.
SearchRequests ==
  /\ MayCall("search_purchase_requests")
  /\ \E matches \in {"none", "one", "many"} :
       session' = IF matches = "many" THEN [Current EXCEPT !.request = None] ELSE session
  /\ turn' = ToolDone([CallsTool("search_purchase_requests") EXCEPT !.unproved = FALSE])
  /\ UNCHANGED <<fault, drafts, orders, told>>

\* What can be recommended for: an item of a request, or a request he reviews
Recommendable == Orders \cup {d \in Drafts : drafts[d] # None /\ drafts[d].items # {}}

\* recommend_products and recommend_suppliers make the request they are about the
\* active one.
Recommend ==
  /\ MayCall("recommend_products")
  /\ \E r \in Recommendable : session' = [Current EXCEPT !.request = r]
  /\ turn' = ToolDone([CallsTool("recommend_products") EXCEPT !.unproved = FALSE])
  /\ UNCHANGED <<fault, drafts, orders, told>>

\* get_supplier_profile, when more than one supplier has the name: the active request
\* becomes the one the model named, unread, or none.  The other reads, and one that
\* finds its supplier, leave the session as it is.
QuerySupplier ==
  /\ MayCall("get_supplier_profile")
  /\ session' \in {session} \cup
       {[Current EXCEPT !.request = r] : r \in {None} \cup Orders \cup {d \in Drafts : drafts[d] # None}}
  /\ turn' = ToolDone([CallsTool("get_supplier_profile") EXCEPT !.unproved = FALSE])
  /\ UNCHANGED <<fault, drafts, orders, told>>

\* The request a drafting tool works on: a new one, one that is named, or the one
\* that was active when the turn began.
Targets == {None, turn.active} \cup {d \in Drafts : drafts[d] # None}

\* _apply_items: REPLACE, ADD, UPDATE, REMOVE and HEADER on the items of the session,
\* which need not be those of the request
Edited(previous) == ((SUBSET Items) \ {{}}) \cup {previous \ {i} : i \in previous} \cup {previous}

CallDraftTool ==
  \E tool \in {"update_multi_item_draft", "update_applicant_draft"} :
    /\ MayCall(tool)
    /\ \E target \in Targets,
          items \in IF tool = "update_multi_item_draft" THEN Edited(Current.draft) ELSE {{}} :
         turn' = [CallsTool(tool) EXCEPT !.request = target, !.items = items, !.read = session,
                                         !.step = IF target = None THEN "create" ELSE "write"]
    /\ UNCHANGED <<session, fault, drafts, orders, told>>

CreateDraft ==
  /\ At("create") /\ turn.tool # None
  /\ \E d \in FreeDrafts :
       /\ drafts' = [drafts EXCEPT ![d] = [items |-> {}, open |-> TRUE]]
       /\ turn' = [turn EXCEPT !.step = "write", !.request = d, !.wrote = @ \cup {d}]
  /\ UNCHANGED <<session, fault, orders, told>>

\* The items of the session that the tool read
DraftItems(s) == IF s = None THEN {} ELSE s.draft

\* UpdateMultiItemDraftTool: HEADER leaves the items alone, anything else replaces
\* them.  Without items it refuses, and the request stays as it was created.
WriteItems ==
  /\ At("write") /\ turn.tool = "update_multi_item_draft"
  /\ Editable(turn.request)
  /\ \/ turn.items = {} /\ turn' = ToolDone(turn) /\ UNCHANGED drafts
     \/ /\ \/ turn.items # {} /\ drafts' = [drafts EXCEPT ![turn.request].items = turn.items]
           \/ turn.items = DraftItems(turn.read) /\ UNCHANGED drafts
        /\ turn' = [turn EXCEPT !.step = "save", !.wrote = @ \cup {turn.request}]
  /\ UNCHANGED <<session, fault, orders, told>>

\* UpdatePurchaseDraftTool: the fields of the header, which are also those of the
\* only item; a selection that does not exist is refused after the creation.
WriteFields ==
  /\ At("write") /\ turn.tool = "update_applicant_draft"
  /\ Editable(turn.request)
  /\ \/ turn' = ToolDone(turn) /\ UNCHANGED drafts
     \/ /\ \E S \in {drafts[turn.request].items}
                    \cup {{i} : i \in {x \in Items : Cardinality(drafts[turn.request].items) <= 1}} :
             drafts' = [drafts EXCEPT ![turn.request].items = S]
        /\ turn' = [turn EXCEPT !.step = "save", !.wrote = @ \cup {turn.request}]
  /\ UNCHANGED <<session, fault, orders, told>>

\* AgentTaskStateService.save writes over what the tool read at its start,
\* SessionReferenceStore.save over what is there now.
SaveDraftSession ==
  /\ At("save") /\ turn.tool \in {"update_multi_item_draft", "update_applicant_draft"}
  /\ session' = IF turn.tool = "update_multi_item_draft"
                THEN [(IF turn.read = None THEN NewSession ELSE turn.read)
                        EXCEPT !.request = turn.request, !.draft = turn.items]
                ELSE [Current EXCEPT !.request = turn.request]
  /\ turn' = ToolDone(turn)
  /\ UNCHANGED <<fault, drafts, orders, told>>

-----------------------------------------------------------------------------
(* The tools of the purchaser, the building manager and the warehouse manager *)

\* What the session collected while this was its request
CollectedPrice(o) == IF session # None /\ session.request = o THEN session.price ELSE None

\* UpdatePurchaseExecutionDraftTool: the price of the message counts before the one
\* that was collected, and this before the one the order has; with none the tool
\* asks for it.  Only the first two are collected, and only in a session there is.
CallPriceTool ==
  \E o \in Orders, said \in Prices \cup {None} :
    LET collected == IF said # None THEN said ELSE CollectedPrice(o)
        price     == IF collected # None THEN collected ELSE orders[o]
    IN
    /\ MayCall("update_purchase_draft")
    /\ told' = [told EXCEPT ![o] = @ \cup ({said} \ {None})]
    /\ IF price = None
       THEN /\ session' = [Current EXCEPT !.request = o]
            /\ turn' = ToolDone(CallsTool("update_purchase_draft"))
       ELSE /\ turn' = [CallsTool("update_purchase_draft") EXCEPT
                          !.request = o, !.price = price, !.step = "write",
                          !.collected = IF session = None THEN None ELSE collected]
            /\ UNCHANGED session
    /\ UNCHANGED <<fault, drafts, orders>>

WritePrice ==
  /\ At("write") /\ turn.tool = "update_purchase_draft"
  /\ orders' = [orders EXCEPT ![turn.request] = turn.price]
  /\ turn' = [turn EXCEPT !.step = "save", !.wrote = @ \cup {turn.request}]
  /\ UNCHANGED <<session, fault, drafts, told>>

\* What was collected is merged into what the session has collected before, of
\* whichever order that was.
SavePriceSession ==
  /\ At("save") /\ turn.tool = "update_purchase_draft"
  /\ session' = [Current EXCEPT !.request = turn.request,
                                !.price = IF turn.collected # None THEN turn.collected ELSE @]
  /\ turn' = ToolDone(turn)
  /\ UNCHANGED <<fault, drafts, orders, told>>

\* FillSelectedSupplierProfileTool, UpdateReviewDraftTool and
\* UpdateWarehouseReceiptDraftTool write fields that no price depends on: the
\* selected supplier, the review and its suggestion, what was received.
CallRecordTool ==
  \E tool \in RecordTools, o \in Orders :
    /\ MayCall(tool)
    /\ turn' = [CallsTool(tool) EXCEPT !.request = o, !.step = "write"]
    /\ UNCHANGED <<session, fault, drafts, orders, told>>

WriteRecord ==
  /\ At("write") /\ turn.tool \in RecordTools
  /\ turn' = [turn EXCEPT !.step = "save", !.wrote = @ \cup {turn.request}]
  /\ UNCHANGED <<session, fault, drafts, orders, told>>

\* The request becomes the active one.
SaveRecordSession ==
  /\ At("save") /\ turn.tool \in RecordTools
  /\ session' = [Current EXCEPT !.request = turn.request]
  /\ turn' = ToolDone(turn)
  /\ UNCHANGED <<fault, drafts, orders, told>>

-----------------------------------------------------------------------------
Around ==
  \/ SessionExpires \/ FaultExpires
  \/ \E d \in Drafts : CardEdits(d) \/ CardSubmits(d)
  \/ \E o \in Orders : CardPrices(o)

FaultStep ==
  \/ StartGuidance \/ CancelGuidance \/ ResolveAsset \/ Decide
  \/ CreateFaultDraft \/ FillFaultDraft \/ DeleteFault
  \/ ReplyToFault \/ RememberFaultDraft

ToolStep ==
  \/ RefuseCall \/ SearchRequests \/ Recommend \/ QuerySupplier
  \/ CallDraftTool \/ CreateDraft \/ WriteItems \/ WriteFields \/ SaveDraftSession
  \/ CallPriceTool \/ WritePrice \/ SavePriceSession
  \/ CallRecordTool \/ WriteRecord \/ SaveRecordSession

AssistantNext == Around \/ BeginTurn \/ SwitchRole \/ Answer \/ FailTurn \/ FaultStep \/ ToolStep

AssistantSpec == AssistantInit /\ [][AssistantNext]_assistantVars

-----------------------------------------------------------------------------
(* Properties *)

\* A turn changes at most one request, whatever tools the model calls and however
\* they fail half-way: a call that created a request and was then refused is not
\* followed by another that creates the next one.
OneRequestPerTurn == turn # None => Cardinality(turn.wrote) <= 1

\* The guidance never orders what the user has not been asked about: what it fills
\* a draft with was among its candidates before the message that ordered it.
OrderedAfterProposal ==
  [][\A d \in Drafts :
       (At("fill") /\ drafts' # drafts /\ turn' # turn /\ turn.request = d) =>
         turn.before # {} /\ drafts'[d].items = turn.before]_assistantVars

\* The candidates of a guidance are not lost by a hand-over that fails half-way: a
\* turn gives them up for new ones, because the user started over or
\* named another asset, or when a draft with items is there.
CandidatesSurvive ==
  [][(HeldItems(fault) # {} /\ turn' # turn /\ HeldItems(fault') = {}) =>
       \/ turn.text \in {"start", "cancel"}
       \/ turn'.text \in {"cancel", "new asset"}
       \/ turn.request # None /\ drafts[turn.request].items # {}]_assistantVars

-----------------------------------------------------------------------------
(* What the documents say and the code does not do *)

\* docs/assistant-session.md: collected data is what is not yet in the backend, and
\* after a save what counts is the backend's answer.  So the price of an order is one
\* that was given for it.
PriceIsItsOwn == \A o \in Orders : orders[o] # None => orders[o] \in told[o]
=============================================================================
