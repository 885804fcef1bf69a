------------------------- MODULE AssistantTurnProofs -------------------------
(***************************************************************************)
(* Proofs about AssistantTurn, for every value of its constants: a turn    *)
(* writes one request at most, the guidance orders nothing that was not    *)
(* proposed, and its candidates outlive a hand-over that fails half-way.   *)
(***************************************************************************)
EXTENDS AssistantTurn, FiniteSetTheorems, TLAPS

-----------------------------------------------------------------------------
(* The invariant.  A turn is a program counter and what it has read; the     *)
(* invariant says for each step what the steps before it have established.   *)

Requests == Drafts \cup Orders \cup {None}

Draft == [items : SUBSET Items, open : BOOLEAN]

Tools == Mutating \cup
  {"search_purchase_requests", "recommend_products", "get_supplier_profile"}

TurnRecord ==
  [text : {"start", "fault", "cancel", "role", "other", "new asset"},
   step : {"start", "fault", "role", "think", "decide", "create", "fill", "delete", "reply",
           "remember", "write", "save"},
   session : SessionState \cup {None}, active : Requests,
   fault : FaultState, before : SUBSET Items,
   calls : Nat, mutated : BOOLEAN, unproved : BOOLEAN,
   request : Requests, items : SUBSET Items, price : Prices \cup {None},
   collected : Prices \cup {None}, read : SessionState \cup {None},
   tool : Tools \cup {None}, wrote : SUBSET Requests]

Types ==
  /\ session \in SessionState \cup {None}
  /\ fault \in FaultState \cup {None}
  /\ drafts \in [Drafts -> Draft \cup {None}]
  /\ orders \in [Orders -> Prices \cup {None}]
  /\ turn \in TurnRecord \cup {None}

\* What t has written is the request it works on.  Before its first mutating
\* call it has written nothing; after it, mutation_seen keeps the next one out.
WritesOne(t) ==
  /\ t.step \in {"start", "fault", "role", "decide", "create"} => t.wrote = {}
  /\ t.step \in {"fill", "delete", "reply", "remember", "write", "save"} => t.wrote \subseteq {t.request}
  /\ t.step \in {"start", "fault", "role", "decide"} => t.request = None
  /\ t.step \in {"start", "fault", "role", "decide", "fill", "delete", "reply", "remember"} => t.tool = None
  /\ t.step = "think" => t.mutated \/ t.wrote = {}
  /\ t.tool # None => t.mutated
  /\ t.step \in {"write", "save"} => t.tool # None
  /\ \E r \in Requests : t.wrote \subseteq {r}

\* The guidance, where the fault state is f and the requests are ds: what it
\* orders was proposed before this message, and the fault state still holds it
\* until the request has its items.
Guided(t, f, ds) ==
  /\ t.step = "start" => t.text = "start"
  /\ t.step = "fault" => t.fault.items = t.before
  /\ t.step = "decide" => t.fault.items \in {{}, t.before}
  /\ t.step \in {"fault", "decide"} =>
       t.text = "new asset" \/ HeldItems(f) \in {{}, t.fault.items}
  /\ (t.step = "create" /\ t.tool = None) \/ t.step = "fill" =>
       t.items = t.before /\ t.before # {}
  /\ t.step \in {"fill", "delete"} => t.request \in Drafts
  /\ t.step = "delete" => ds[t.request].items # {}

AssistantInv ==
  /\ Types
  /\ turn # None => WritesOne(turn) /\ Guided(turn, fault, drafts)

LEMMA InitAssistantInv == AssistantInit => AssistantInv
  BY DEF AssistantInit, AssistantInv, Types

\* The order of a hand-over: the candidates go last.
LEMMA HandOverOrder ==
  /\ HandOver[1] = "create" /\ StepAfter("create") = "fill"
  /\ StepAfter("fill") = "delete" /\ StepAfter("delete") = "reply"
<1>1. /\ DOMAIN HandOver = 1..4
      /\ HandOver[1] = "create" /\ HandOver[2] = "fill" /\ HandOver[3] = "delete" /\ HandOver[4] = "reply"
  BY DEF HandOver
<1>2. /\ (CHOOSE n \in DOMAIN HandOver : HandOver[n] = "create") = 1
      /\ (CHOOSE n \in DOMAIN HandOver : HandOver[n] = "fill") = 2
      /\ (CHOOSE n \in DOMAIN HandOver : HandOver[n] = "delete") = 3
  BY <1>1
<1>3. QED BY <1>1, <1>2 DEF StepAfter

LEMMA CurrentTyped ==
  ASSUME Types
  PROVE  /\ Current \in SessionState
         /\ \A r \in Requests : [Current EXCEPT !.request = r] \in SessionState
<1>1. Current \in SessionState
  BY DEF Types, Current, NewSession, SessionState
<1>2. QED BY <1>1 DEF SessionState, Requests

\* A turn that ends leaves the invariant to the types.
LEMMA EndKeeps == ASSUME Types', EndTurn PROVE AssistantInv'
  BY DEF EndTurn, AssistantInv

\* A turn that goes on as t.
LEMMA TurnKeeps ==
  ASSUME NEW t \in TurnRecord, turn' = t,
         session' \in SessionState \cup {None}, fault' \in FaultState \cup {None},
         drafts' \in [Drafts -> Draft \cup {None}], orders' \in [Orders -> Prices \cup {None}],
         WritesOne(t), Guided(t, fault', drafts')
  PROVE  AssistantInv'
  BY DEF AssistantInv, Types

-----------------------------------------------------------------------------
(* One lemma for each part of the next-state relation *)

LEMMA AroundKeeps == AssistantInv /\ Around => AssistantInv'
<1> SUFFICES ASSUME AssistantInv, Around PROVE AssistantInv'
  OBVIOUS
<1>1. /\ turn' = turn /\ session' \in SessionState \cup {None} /\ fault' \in {fault, None}
      /\ orders' \in [Orders -> Prices \cup {None}]
  BY DEF Around, SessionExpires, FaultExpires, CardEdits, CardSubmits, CardPrices, AssistantInv, Types
<1>2. /\ drafts' \in [Drafts -> Draft \cup {None}]
      /\ \A d \in Drafts : drafts[d].items # {} => drafts'[d].items # {}
  <2>1. CASE UNCHANGED drafts
    BY <2>1 DEF AssistantInv, Types
  <2>2. ASSUME NEW d \in Drafts, CardEdits(d)
        PROVE  /\ drafts' \in [Drafts -> Draft \cup {None}]
               /\ \A e \in Drafts : drafts[e].items # {} => drafts'[e].items # {}
    <3>1. PICK S \in SUBSET Items : S # {} /\ drafts' = [drafts EXCEPT ![d].items = S]
      BY <2>2 DEF CardEdits
    <3>2. drafts[d] \in Draft
      BY <2>2 DEF CardEdits, Editable, AssistantInv, Types
    <3>3. PICK row : row = [drafts[d] EXCEPT !.items = S]
      OBVIOUS
    <3>4. row \in Draft /\ row.items = S
      BY <3>1, <3>2, <3>3 DEF Draft
    <3>5. drafts' = [drafts EXCEPT ![d] = row]
      BY <3>1, <3>3
    <3>6. QED BY <3>1, <3>4, <3>5 DEF AssistantInv, Types
  <2>3. ASSUME NEW d \in Drafts, CardSubmits(d)
        PROVE  /\ drafts' \in [Drafts -> Draft \cup {None}]
               /\ \A e \in Drafts : drafts[e].items # {} => drafts'[e].items # {}
    <3>1. drafts' = [drafts EXCEPT ![d].open = FALSE]
      BY <2>3 DEF CardSubmits
    <3>2. drafts[d] \in Draft
      BY <2>3 DEF CardSubmits, Editable, AssistantInv, Types
    <3>3. /\ [drafts[d] EXCEPT !.open = FALSE] \in Draft
          /\ [drafts[d] EXCEPT !.open = FALSE].items = drafts[d].items
      BY <3>2 DEF Draft
    <3>4. QED BY <3>1, <3>3 DEF AssistantInv, Types
  <2>4. QED BY <2>1, <2>2, <2>3 DEF Around, SessionExpires, FaultExpires, CardPrices
<1>3. Types'
  BY <1>1, <1>2 DEF AssistantInv, Types
<1>4. ASSUME turn # None PROVE Guided(turn, fault', drafts')
  <2>1. Guided(turn, fault, drafts)
    BY <1>4 DEF AssistantInv
  <2>2. HeldItems(fault') \in {{}, HeldItems(fault)}
    BY <1>1 DEF HeldItems
  <2>3. QED BY <1>2, <2>1, <2>2 DEF Guided
<1>5. QED BY <1>1, <1>3, <1>4 DEF AssistantInv

LEMMA BeginKeeps == AssistantInv /\ BeginTurn => AssistantInv'
<1> SUFFICES ASSUME AssistantInv, BeginTurn PROVE AssistantInv'
  OBVIOUS
<1>1. PICK text \in {"start", "fault", "cancel", "role", "other"}, factual \in BOOLEAN :
        /\ IsFaultTurn(text) => "APPLICANT" \in Roles
        /\ turn' = [text |-> text,
                   step |-> IF text = "start" THEN "start"
                            ELSE IF IsFaultTurn(text) THEN "fault"
                            ELSE IF text = "role" THEN "role" ELSE "think",
                   session |-> IF IsFaultTurn(text) \/ text = "role" THEN session ELSE None,
                   active |-> IF session = None THEN None ELSE session.request,
                   fault |-> IF fault = None THEN NewFault ELSE fault,
                   before |-> HeldItems(fault),
                   calls |-> 0, mutated |-> FALSE,
                   unproved |-> MustLookUp(text, factual),
                   request |-> None, items |-> {}, price |-> None, collected |-> None,
                   read |-> None, tool |-> None, wrote |-> {}]
  BY DEF BeginTurn
<1> DEFINE known == IF fault = None THEN NewFault ELSE fault
<1>2. known \in FaultState /\ HeldItems(fault) = known.items
  BY DEF AssistantInv, Types, NewFault, FaultState, HeldItems
<1>3. (IF session = None THEN None ELSE session.request) \in Requests
  BY DEF AssistantInv, Types, SessionState, Requests
<1>4. MustLookUp(text, factual) \in BOOLEAN /\ HeldItems(fault) \in SUBSET Items
  BY <1>2 DEF MustLookUp, FaultState
<1>5. PICK t : t = turn'
  OBVIOUS
<1> HIDE DEF known
<1>6. t \in TurnRecord
  BY <1>1, <1>2, <1>3, <1>4, <1>5 DEF TurnRecord, AssistantInv, Types, Requests, known
<1>7. /\ t.step \in {"start", "fault", "role", "think"} /\ t.text = text
      /\ t.step = "start" => text = "start"
      /\ t.fault = known /\ t.before = HeldItems(fault)
      /\ t.request = None /\ t.tool = None /\ t.wrote = {}
  BY <1>1, <1>5 DEF known
<1>8. WritesOne(t)
  BY <1>7 DEF WritesOne, Requests
<1>9. Guided(t, fault, drafts)
  BY <1>2, <1>7 DEF Guided
<1>10. QED BY <1>5, <1>6, <1>8, <1>9, TurnKeeps DEF BeginTurn, AssistantInv, Types

\* The steps that end a turn.
LEMMA EndsKeep ==
  ASSUME AssistantInv,
         \/ FailTurn \/ SwitchRole \/ Answer \/ StartGuidance
         \/ RememberFaultDraft \/ (ReplyToFault /\ turn.request = None)
  PROVE  AssistantInv'
<1>1. /\ EndTurn /\ UNCHANGED <<drafts, orders>> /\ fault' \in {fault, NewFault}
  BY DEF FailTurn, SwitchRole, Answer, StartGuidance, RememberFaultDraft, ReplyToFault
<1>2. NewFault \in FaultState
  BY DEF NewFault, FaultState
<1>3. session' \in SessionState \cup {None}
  <2>1. NewSession \in SessionState
    BY DEF NewSession, SessionState
  <2>2. CASE SwitchRole
    BY <2>1, <2>2 DEF SwitchRole, At, AssistantInv, Types, TurnRecord
  <2>3. CASE RememberFaultDraft
    <3>1. PICK s : s = IF turn.session = None THEN NewSession ELSE turn.session
      OBVIOUS
    <3>2. s \in SessionState /\ turn.request \in Requests
      BY <2>1, <2>3, <3>1 DEF RememberFaultDraft, At, AssistantInv, Types, TurnRecord
    <3>3. session' = [s EXCEPT !.request = turn.request]
      BY <2>3, <3>1 DEF RememberFaultDraft
    <3>4. QED BY <3>2, <3>3 DEF SessionState, Requests
  <2>4. CASE FailTurn \/ Answer \/ StartGuidance \/ ReplyToFault
    BY <2>4 DEF FailTurn, Answer, StartGuidance, ReplyToFault, AssistantInv, Types
  <2>5. QED BY <2>2, <2>3, <2>4
<1>4. Types'
  BY <1>1, <1>2, <1>3 DEF EndTurn, AssistantInv, Types
<1>5. QED BY <1>1, <1>4, EndKeeps

\* The steps of the guidance before it hands over.
LEMMA GuidanceKeeps ==
  ASSUME AssistantInv, CancelGuidance \/ ResolveAsset \/ Decide
  PROVE  AssistantInv'
<1>1. /\ turn \in TurnRecord /\ turn # None /\ WritesOne(turn) /\ Guided(turn, fault, drafts)
      /\ UNCHANGED <<session, drafts, orders>>
      /\ turn.fault \in FaultState /\ turn.fault.items \in SUBSET Items
  BY DEF CancelGuidance, ResolveAsset, Decide, At, AssistantInv, Types, TurnRecord, FaultState
<1>2. CASE CancelGuidance
  <2>1. PICK t : t = [turn EXCEPT !.text = "cancel", !.step = "reply"]
    OBVIOUS
  <2>2. /\ t \in TurnRecord /\ t.step = "reply" /\ t.text = "cancel"
        /\ t.tool = turn.tool /\ t.wrote = turn.wrote
    BY <1>1, <2>1 DEF TurnRecord
  <2>3. turn.step = "fault" /\ turn' = t /\ fault' = None
    BY <1>2, <2>1 DEF CancelGuidance, At
  <2>4. WritesOne(t) /\ Guided(t, fault', drafts')
    BY <1>1, <2>2, <2>3 DEF WritesOne, Guided, Requests
  <2>5. QED BY <1>1, <2>2, <2>3, <2>4, TurnKeeps DEF AssistantInv, Types
<1>3. CASE ResolveAsset
  <2>1. PICK a, changed, known :
          /\ a \in NamedAsset /\ changed \in BOOLEAN
          /\ changed = (a # None /\ turn.fault.asset \notin {None, a})
          /\ known = IF changed THEN [asset |-> a, items |-> {}]
                     ELSE IF a # None THEN [turn.fault EXCEPT !.asset = a] ELSE turn.fault
          /\ turn' = [turn EXCEPT !.fault = known, !.step = "decide",
                                  !.text = IF changed THEN "new asset" ELSE @]
          /\ fault' = IF changed THEN None ELSE fault
    BY <1>3 DEF ResolveAsset
  <2>2. /\ known \in FaultState
        /\ known.items = IF changed THEN {} ELSE turn.fault.items
    BY <1>1, <2>1 DEF FaultState, NamedAsset
  <2>3. PICK text : text = IF changed THEN "new asset" ELSE turn.text
    OBVIOUS
  <2>4. PICK t : t = [turn EXCEPT !.fault = known, !.step = "decide", !.text = text]
    OBVIOUS
  <2>5. /\ turn' = t /\ t \in TurnRecord /\ t.step = "decide" /\ t.fault = known
        /\ t.before = turn.before /\ t.text = text
        /\ t.request = turn.request /\ t.tool = turn.tool /\ t.wrote = turn.wrote
    <3>1. t \in TurnRecord
      <4>1. turn \in TurnRecord
        BY <1>1
      <4>2. text \in {"start", "fault", "cancel", "role", "other", "new asset"}
        BY <2>3, <4>1 DEF TurnRecord
      <4>3. QED BY <2>2, <2>4, <4>1, <4>2 DEF TurnRecord
    <3>2. /\ t.step = "decide" /\ t.fault = known /\ t.before = turn.before /\ t.text = text
          /\ t.request = turn.request /\ t.tool = turn.tool /\ t.wrote = turn.wrote
      BY <1>1, <2>4 DEF TurnRecord
    <3>3. QED BY <2>1, <2>3, <2>4, <3>1, <3>2
  <2>6. turn.step = "fault"
    BY <1>3 DEF ResolveAsset, At
  <2>7. WritesOne(t)
    BY <1>1, <2>5, <2>6 DEF WritesOne, Requests
  <2>8. Guided(t, fault', drafts')
    <3>1. CASE changed
      BY <2>2, <2>3, <2>5, <3>1 DEF Guided
    <3>2. CASE ~changed
      <4>1. fault' = fault /\ known.items = turn.fault.items /\ t.text = turn.text
        BY <2>1, <2>2, <2>3, <2>5, <3>2
      <4>2. QED BY <1>1, <2>5, <2>6, <4>1 DEF Guided
    <3>3. QED BY <2>1, <3>1, <3>2
  <2>9. fault' \in FaultState \cup {None}
    BY <2>1 DEF AssistantInv, Types
  <2>10. QED BY <1>1, <2>5, <2>7, <2>8, <2>9, TurnKeeps DEF AssistantInv, Types
<1>4. CASE Decide
  <2>1. PICK decision, items, kept :
          /\ decision \in Decisions
          /\ items = IF turn.fault.items = {} THEN decision.items ELSE turn.fault.items
          /\ kept = IF decision.action # "ANSWER" /\ decision.items # {} THEN decision.items
                    ELSE turn.fault.items
          /\ \/ /\ GoesToProcurement(decision)
                /\ turn' = [turn EXCEPT !.step = HandOver[1], !.items = items]
                /\ fault' = fault
             \/ /\ ~GoesToProcurement(decision)
                /\ fault' = [turn.fault EXCEPT !.items = kept]
                /\ Continue(turn, "reply")
    BY <1>4 DEF Decide
  <2>2. items \in SUBSET Items /\ kept \in SUBSET Items /\ turn.step = "decide"
    BY <1>1, <1>4, <2>1 DEF Decisions, Decide, At
  <2>3. PICK t : t = turn'
    OBVIOUS
  <2>4. CASE GoesToProcurement(decision)
    <3>1. /\ t = [turn EXCEPT !.step = "create", !.items = items] /\ fault' = fault
          /\ turn.fault.items # {}
      BY <2>1, <2>3, <2>4, HandOverOrder DEF GoesToProcurement
    <3>2. /\ t \in TurnRecord /\ t.step = "create" /\ t.items = items /\ t.before = turn.before
          /\ t.request = turn.request /\ t.tool = turn.tool /\ t.wrote = turn.wrote
      BY <1>1, <2>2, <3>1 DEF TurnRecord
    <3>3. items = turn.before /\ turn.before # {}
      BY <1>1, <2>1, <2>2, <3>1 DEF Guided
    <3>4. WritesOne(t) /\ Guided(t, fault', drafts')
      BY <1>1, <2>2, <3>2, <3>3 DEF WritesOne, Guided, Requests
    <3>5. QED BY <1>1, <2>3, <3>1, <3>2, <3>4, TurnKeeps DEF AssistantInv, Types
  <2>5. CASE ~GoesToProcurement(decision)
    <3>1. t = [turn EXCEPT !.step = "reply"] /\ fault' = [turn.fault EXCEPT !.items = kept]
      BY <2>1, <2>3, <2>5 DEF Continue
    <3>2. /\ t \in TurnRecord /\ t.step = "reply"
          /\ t.request = turn.request /\ t.tool = turn.tool /\ t.wrote = turn.wrote
      BY <1>1, <3>1 DEF TurnRecord
    <3>3. fault' \in FaultState
      BY <1>1, <2>2, <3>1 DEF FaultState
    <3>4. WritesOne(t) /\ Guided(t, fault', drafts')
      BY <1>1, <2>2, <3>2 DEF WritesOne, Guided, Requests
    <3>5. QED BY <1>1, <2>3, <3>2, <3>3, <3>4, TurnKeeps DEF AssistantInv, Types
  <2>6. QED BY <2>4, <2>5
<1>5. QED BY <1>2, <1>3, <1>4

\* A request that is created, and one that gets its items.
LEMMA DraftsTyped ==
  ASSUME Types, NEW d \in Drafts
  PROVE  /\ [drafts EXCEPT ![d] = [items |-> {}, open |-> TRUE]] \in [Drafts -> Draft \cup {None}]
         /\ drafts[d] # None => \A S \in SUBSET Items :
              /\ [drafts EXCEPT ![d].items = S] \in [Drafts -> Draft \cup {None}]
              /\ [drafts EXCEPT ![d].items = S][d].items = S
<1>1. [items |-> {}, open |-> TRUE] \in Draft
  BY DEF Draft
<1>2. ASSUME drafts[d] # None, NEW S \in SUBSET Items
      PROVE  /\ [drafts EXCEPT ![d].items = S] \in [Drafts -> Draft \cup {None}]
             /\ [drafts EXCEPT ![d].items = S][d].items = S
  <2>1. PICK row : row = [drafts[d] EXCEPT !.items = S]
    OBVIOUS
  <2>2. row \in Draft /\ row.items = S
    BY <1>2, <2>1 DEF Types, Draft
  <2>3. [drafts EXCEPT ![d].items = S] = [drafts EXCEPT ![d] = row]
    BY <2>1
  <2>4. QED BY <2>2, <2>3 DEF Types
<1>3. QED BY <1>1, <1>2 DEF Types

\* The hand-over.
LEMMA HandOverKeeps ==
  ASSUME AssistantInv,
         \/ CreateFaultDraft \/ FillFaultDraft \/ DeleteFault
         \/ (ReplyToFault /\ turn.request # None)
  PROVE  AssistantInv'
<1>1. /\ turn \in TurnRecord /\ turn # None /\ WritesOne(turn) /\ Guided(turn, fault, drafts)
      /\ UNCHANGED <<session, orders>> /\ turn.items \in SUBSET Items
  BY DEF CreateFaultDraft, FillFaultDraft, DeleteFault, ReplyToFault, At, AssistantInv, Types, TurnRecord
<1>2. CASE CreateFaultDraft
  <2>1. PICK d \in Drafts :
          /\ drafts' = [drafts EXCEPT ![d] = [items |-> {}, open |-> TRUE]]
          /\ turn' = [turn EXCEPT !.step = "fill", !.request = d, !.wrote = @ \cup {d}]
          /\ fault' = fault /\ turn.step = "create" /\ turn.tool = None
    BY <1>2, HandOverOrder DEF CreateFaultDraft, FreeDrafts, At
  <2>2. PICK t : t = [turn EXCEPT !.step = "fill", !.request = d, !.wrote = {d}]
    OBVIOUS
  <2>3. /\ t \in TurnRecord /\ t.step = "fill" /\ t.request = d /\ t.tool = None
        /\ t.items = turn.items /\ t.before = turn.before /\ t.wrote = {d}
    <3>1. d \in Requests /\ {d} \in SUBSET Requests
      BY DEF Requests
    <3>2. t \in TurnRecord
      BY <1>1, <2>2, <3>1 DEF TurnRecord
    <3>3. /\ t.step = "fill" /\ t.request = d /\ t.tool = turn.tool
          /\ t.items = turn.items /\ t.before = turn.before /\ t.wrote = {d}
      BY <1>1, <2>2 DEF TurnRecord
    <3>4. QED BY <2>1, <3>2, <3>3
  <2>4. WritesOne(t) /\ turn' = t
    BY <1>1, <2>1, <2>2, <2>3 DEF WritesOne, Requests
  <2>5. Guided(t, fault', drafts')
    BY <1>1, <2>1, <2>3 DEF Guided
  <2>6. QED BY <1>1, <2>1, <2>2, <2>3, <2>4, <2>5, TurnKeeps, DraftsTyped DEF AssistantInv, Types
<1>3. CASE FillFaultDraft
  <2>1. PICK d \in Drafts : /\ d = turn.request /\ drafts[d] # None
                            /\ drafts' = [drafts EXCEPT ![d].items = turn.items]
                            /\ turn' = [turn EXCEPT !.step = "delete"]
                            /\ fault' = fault /\ turn.step = "fill"
    BY <1>3, HandOverOrder DEF FillFaultDraft, Editable, Continue, At
  <2>2. PICK t : t = turn'
    OBVIOUS
  <2>3. /\ t \in TurnRecord /\ t.step = "delete" /\ t.request = d /\ t.tool = turn.tool
        /\ t.wrote = turn.wrote
    BY <1>1, <2>1, <2>2 DEF TurnRecord
  <2>4. drafts' \in [Drafts -> Draft \cup {None}] /\ drafts'[d].items = turn.items
    BY <1>1, <2>1, DraftsTyped DEF AssistantInv
  <2>5. WritesOne(t) /\ Guided(t, fault', drafts')
    BY <1>1, <2>1, <2>3, <2>4 DEF WritesOne, Guided
  <2>6. QED BY <1>1, <2>1, <2>2, <2>3, <2>4, <2>5, TurnKeeps DEF AssistantInv, Types
<1>4. CASE DeleteFault \/ (ReplyToFault /\ turn.request # None)
  <2>1. PICK step \in {"reply", "remember"} :
          /\ turn' = [turn EXCEPT !.step = step] /\ UNCHANGED drafts /\ fault' \in {fault, None}
          /\ turn.step \in {"delete", "reply"}
    BY <1>4, HandOverOrder DEF DeleteFault, ReplyToFault, Continue, At
  <2>2. PICK t : t = turn'
    OBVIOUS
  <2>3. /\ t \in TurnRecord /\ t.step = step /\ t.request = turn.request /\ t.tool = turn.tool
        /\ t.wrote = turn.wrote
    BY <1>1, <2>1, <2>2 DEF TurnRecord
  <2>4. WritesOne(t) /\ Guided(t, fault', drafts')
    BY <1>1, <2>1, <2>3 DEF WritesOne, Guided
  <2>5. QED BY <1>1, <2>1, <2>2, <2>3, <2>4, TurnKeeps DEF AssistantInv, Types
<1>5. QED BY <1>2, <1>3, <1>4

-----------------------------------------------------------------------------
(* The tools                                                                 *)

LEMMA ToolDoneFacts ==
  ASSUME NEW t \in TurnRecord
  PROVE  /\ ToolDone(t) \in TurnRecord
         /\ ToolDone(t).step = "think" /\ ToolDone(t).tool = None
         /\ ToolDone(t).wrote = t.wrote /\ ToolDone(t).mutated = t.mutated
  BY DEF ToolDone, TurnRecord, Requests

LEMMA CallsToolFacts ==
  ASSUME turn \in TurnRecord, NEW tool \in Tools
  PROVE  /\ CallsTool(tool) \in TurnRecord
         /\ CallsTool(tool).tool = tool
         /\ CallsTool(tool).wrote = turn.wrote
         /\ turn.mutated \/ tool \in Mutating => CallsTool(tool).mutated
<1>1. PICK seen \in BOOLEAN : seen = (turn.mutated \/ tool \in Mutating)
  BY DEF TurnRecord
<1>2. CallsTool(tool) = [turn EXCEPT !.calls = turn.calls + 1, !.tool = tool, !.mutated = seen]
  BY <1>1 DEF CallsTool
<1>3. PICK t : t = CallsTool(tool)
  OBVIOUS
<1>4. PICK calls \in Nat : calls = turn.calls + 1
  <2>1. turn.calls \in Nat
    BY DEF TurnRecord
  <2>2. QED BY <2>1
<1>5. t \in TurnRecord
  BY <1>2, <1>3, <1>4 DEF TurnRecord
<1>6. t.tool = tool /\ t.wrote = turn.wrote /\ t.mutated = seen
  BY <1>2, <1>3 DEF TurnRecord
<1>7. QED BY <1>1, <1>3, <1>5, <1>6

\* The loop goes on, with what is written so far.
LEMMA ThinkKeeps ==
  ASSUME AssistantInv, turn # None, NEW t \in TurnRecord, turn' = t,
         session' \in SessionState \cup {None}, UNCHANGED fault,
         drafts' \in [Drafts -> Draft \cup {None}], orders' \in [Orders -> Prices \cup {None}],
         t.step = "think", t.tool = None, t.wrote = turn.wrote, t.mutated \/ t.wrote = {}
  PROVE  AssistantInv'
<1>1. WritesOne(t)
  BY DEF AssistantInv, WritesOne
<1>2. Guided(t, fault', drafts')
  BY DEF Guided
<1>3. QED BY <1>1, <1>2, TurnKeeps DEF AssistantInv, Types

\* A mutating tool is called: it is the first of its turn.
LEMMA CallKeeps ==
  ASSUME AssistantInv, NEW tool \in Mutating, MayCall(tool), NEW t \in TurnRecord, turn' = t,
         session' \in SessionState \cup {None}, UNCHANGED <<fault, drafts, orders>>,
         t.step \in {"create", "write"}, t.tool = tool, t.mutated, t.wrote = turn.wrote
  PROVE  AssistantInv'
<1>1. turn.wrote = {} /\ tool # None
  BY ToolAssumption DEF MayCall, At, AssistantInv, WritesOne
<1>2. WritesOne(t)
  BY <1>1 DEF WritesOne, Requests
<1>3. Guided(t, fault', drafts')
  BY <1>1 DEF Guided
<1>4. QED BY <1>2, <1>3, TurnKeeps DEF AssistantInv, Types

\* A tool writes its request.
LEMMA WriteKeeps ==
  ASSUME AssistantInv, turn # None, turn.step = "write",
         NEW t, t = [turn EXCEPT !.step = "save", !.wrote = @ \cup {turn.request}], turn' = t,
         UNCHANGED <<session, fault>>,
         drafts' \in [Drafts -> Draft \cup {None}], orders' \in [Orders -> Prices \cup {None}]
  PROVE  AssistantInv'
<1>1. PICK wrote : wrote = turn.wrote \cup {turn.request}
  OBVIOUS
<1>2. turn \in TurnRecord /\ WritesOne(turn) /\ turn.request \in Requests
  BY DEF AssistantInv, Types, TurnRecord
<1>3. wrote = {turn.request}
  BY <1>1, <1>2 DEF WritesOne
<1>4. t = [turn EXCEPT !.step = "save", !.wrote = wrote] /\ wrote \in SUBSET Requests
  BY <1>1, <1>2, <1>3
<1>5. t \in TurnRecord
  BY <1>2, <1>4 DEF TurnRecord
<1>6. /\ t.step = "save" /\ t.wrote = {turn.request}
      /\ t.request = turn.request /\ t.tool = turn.tool /\ t.mutated = turn.mutated
  BY <1>2, <1>3, <1>4 DEF TurnRecord
<1>7. WritesOne(t)
  BY <1>2, <1>6 DEF WritesOne
<1>8. Guided(t, fault', drafts')
  BY <1>6 DEF Guided
<1>9. QED BY <1>5, <1>7, <1>8, TurnKeeps DEF AssistantInv, Types

\* A tool is done, after its write or without one.
LEMMA DoneKeeps ==
  ASSUME AssistantInv, turn # None, turn.step \in {"write", "save"}, turn' = ToolDone(turn),
         session' \in SessionState \cup {None}, UNCHANGED <<fault, drafts, orders>>
  PROVE  AssistantInv'
<1>1. turn \in TurnRecord /\ turn.mutated
  BY DEF AssistantInv, Types, WritesOne
<1>2. QED BY <1>1, ToolDoneFacts, ThinkKeeps DEF AssistantInv, Types

LEMMA LookUpKeeps ==
  ASSUME AssistantInv, RefuseCall \/ SearchRequests \/ Recommend \/ QuerySupplier
  PROVE  AssistantInv'
<1>1. /\ turn \in TurnRecord /\ turn # None /\ turn.step = "think"
      /\ turn.mutated \/ turn.wrote = {}
      /\ UNCHANGED <<fault, drafts, orders>>
  BY DEF RefuseCall, SearchRequests, Recommend, QuerySupplier, MayCall, At, AssistantInv, Types, WritesOne
<1>2. session' \in SessionState \cup {None}
  <2>1. /\ Current \in SessionState
        /\ \A r \in Requests : [Current EXCEPT !.request = r] \in SessionState
    BY CurrentTyped DEF AssistantInv
  <2>2. Recommendable \subseteq Requests /\ None \in Requests /\ Orders \subseteq Requests /\ Drafts \subseteq Requests
    BY DEF Recommendable, Requests
  <2>3. session \in SessionState \cup {None}
    BY DEF AssistantInv, Types
  <2>4. QED BY <2>1, <2>2, <2>3 DEF RefuseCall, SearchRequests, Recommend, QuerySupplier
<1>3. PICK t \in TurnRecord :
        /\ turn' = ToolDone(t) /\ t.wrote = turn.wrote /\ (turn.mutated => t.mutated)
        /\ t.mutated \/ t.wrote = {}
  <2>1. CASE RefuseCall
    <3>1. PICK tool \in Mutating : turn' = ToolDone(CallsTool(tool))
      BY <2>1 DEF RefuseCall
    <3>2. QED BY <1>1, <3>1, CallsToolFacts DEF Tools
  <2>2. CASE SearchRequests \/ Recommend \/ QuerySupplier
    <3>1. PICK tool \in Tools : turn' = ToolDone([CallsTool(tool) EXCEPT !.unproved = FALSE])
      BY <2>2 DEF SearchRequests, Recommend, QuerySupplier, Tools
    <3>2. PICK t : t = CallsTool(tool)
      OBVIOUS
    <3>3. t \in TurnRecord /\ t.wrote = turn.wrote /\ (turn.mutated => t.mutated)
      BY <1>1, <3>2, CallsToolFacts
    <3>4. PICK u : u = [t EXCEPT !.unproved = FALSE]
      OBVIOUS
    <3>5. u \in TurnRecord /\ u.wrote = t.wrote /\ u.mutated = t.mutated
      BY <3>3, <3>4 DEF TurnRecord
    <3>6. QED BY <1>1, <3>1, <3>2, <3>3, <3>4, <3>5
  <2>3. QED BY <2>1, <2>2
<1>4. QED BY <1>1, <1>2, <1>3, ToolDoneFacts, ThinkKeeps DEF AssistantInv, Types

LEMMA CallToolKeeps ==
  ASSUME AssistantInv, CallDraftTool \/ CallPriceTool \/ CallRecordTool
  PROVE  AssistantInv'
<1>1. turn \in TurnRecord /\ turn # None /\ turn.active \in Requests
  BY DEF CallDraftTool, CallPriceTool, CallRecordTool, MayCall, At, AssistantInv, Types, TurnRecord
<1>2. /\ Current \in SessionState
      /\ \A r \in Requests : [Current EXCEPT !.request = r] \in SessionState
  BY CurrentTyped DEF AssistantInv
<1>3. Mutating \subseteq Tools
  BY DEF Tools
<1>4. CASE CallDraftTool
  <2>1. PICK tool \in {"update_multi_item_draft", "update_applicant_draft"} :
          /\ MayCall(tool)
          /\ \E target \in Targets,
                items \in IF tool = "update_multi_item_draft" THEN Edited(Current.draft) ELSE {{}} :
               turn' = [CallsTool(tool) EXCEPT !.request = target, !.items = items, !.read = session,
                                               !.step = IF target = None THEN "create" ELSE "write"]
          /\ UNCHANGED <<session, fault, drafts, orders, told>>
    BY <1>4 DEF CallDraftTool
  <2>2. Edited(Current.draft) \subseteq SUBSET Items
    BY <1>2 DEF Edited, SessionState
  <2>3. PICK target \in Requests, items \in SUBSET Items, step \in {"create", "write"} :
          turn' = [CallsTool(tool) EXCEPT !.request = target, !.items = items, !.read = session,
                                          !.step = step]
    BY <1>1, <2>1, <2>2 DEF Targets, Requests
  <2>4. PICK t : t = CallsTool(tool)
    OBVIOUS
  <2>5. tool \in Mutating
    BY <2>1 DEF Mutating
  <2>6. t \in TurnRecord /\ t.tool = tool /\ t.wrote = turn.wrote /\ t.mutated
    BY <1>1, <1>3, <2>4, <2>5, CallsToolFacts
  <2>7. PICK u : u = [t EXCEPT !.request = target, !.items = items, !.read = session, !.step = step]
    OBVIOUS
  <2>8. /\ u \in TurnRecord /\ u.tool = tool /\ u.wrote = turn.wrote /\ u.mutated /\ u.step = step
    BY <2>6, <2>7 DEF TurnRecord, AssistantInv, Types
  <2>9. QED BY <2>1, <2>3, <2>4, <2>5, <2>7, <2>8, CallKeeps DEF AssistantInv, Types
<1>5. CASE CallPriceTool
  <2> DEFINE tool == "update_purchase_draft"
  <2>0. PICK o \in Orders, said \in Prices \cup {None} :
          LET collected == IF said # None THEN said ELSE CollectedPrice(o)
              price     == IF collected # None THEN collected ELSE orders[o]
          IN
          /\ MayCall(tool)
          /\ told' = [told EXCEPT ![o] = @ \cup ({said} \ {None})]
          /\ IF price = None
             THEN /\ session' = [Current EXCEPT !.request = o]
                  /\ turn' = ToolDone(CallsTool(tool))
             ELSE /\ turn' = [CallsTool(tool) EXCEPT
                                !.request = o, !.price = price, !.step = "write",
                                !.collected = IF session = None THEN None ELSE collected]
                  /\ UNCHANGED session
          /\ UNCHANGED <<fault, drafts, orders>>
    BY <1>5 DEF CallPriceTool
  <2> DEFINE collected == IF said # None THEN said ELSE CollectedPrice(o)
             price == IF collected # None THEN collected ELSE orders[o]
  <2>1. /\ MayCall(tool)
        /\ price = None => /\ session' = [Current EXCEPT !.request = o]
                            /\ turn' = ToolDone(CallsTool(tool))
        /\ price # None => /\ turn' = [CallsTool(tool) EXCEPT
                                !.request = o, !.price = price, !.step = "write",
                                !.collected = IF session = None THEN None ELSE collected]
                            /\ UNCHANGED session
        /\ UNCHANGED <<fault, drafts, orders>>
    BY <2>0
  <2>2. /\ collected \in Prices \cup {None} /\ price \in Prices \cup {None}
        /\ o \in Requests /\ tool \in Mutating
    BY DEF CollectedPrice, SessionState, AssistantInv, Types, Requests, Mutating
  <2> HIDE DEF collected, price
  <2>3. PICK t : t = CallsTool(tool)
    OBVIOUS
  <2>4. t \in TurnRecord /\ t.tool = tool /\ t.wrote = turn.wrote /\ t.mutated
    BY <1>1, <1>3, <2>2, <2>3, CallsToolFacts
  <2>5. CASE price = None
    <3>1. turn' = ToolDone(t) /\ session' \in SessionState
      BY <1>2, <2>1, <2>2, <2>3, <2>5
    <3>2. QED BY <1>1, <2>1, <2>4, <3>1, ToolDoneFacts, ThinkKeeps DEF AssistantInv, Types
  <2>6. CASE price # None
    <3>1. PICK kept \in Prices \cup {None} :
            turn' = [t EXCEPT !.request = o, !.price = price, !.step = "write", !.collected = kept]
      BY <2>1, <2>2, <2>3, <2>6
    <3>2. PICK u : u = [t EXCEPT !.request = o, !.price = price, !.step = "write", !.collected = kept]
      OBVIOUS
    <3>3. u \in TurnRecord /\ u.tool = tool /\ u.wrote = turn.wrote /\ u.mutated /\ u.step = "write"
      BY <2>2, <2>4, <3>2 DEF TurnRecord
    <3>4. QED BY <2>1, <2>2, <2>6, <3>1, <3>2, <3>3, CallKeeps DEF AssistantInv, Types
  <2>7. QED BY <2>5, <2>6
<1>6. CASE CallRecordTool
  <2>1. PICK tool \in RecordTools, o \in Orders :
          /\ MayCall(tool)
          /\ turn' = [CallsTool(tool) EXCEPT !.request = o, !.step = "write"]
          /\ UNCHANGED <<session, fault, drafts, orders, told>>
    BY <1>6 DEF CallRecordTool
  <2>2. tool \in Mutating /\ o \in Requests
    BY <2>1 DEF Mutating, Requests
  <2>3. PICK t : t = CallsTool(tool)
    OBVIOUS
  <2>4. t \in TurnRecord /\ t.tool = tool /\ t.wrote = turn.wrote /\ t.mutated
    BY <1>1, <1>3, <2>2, <2>3, CallsToolFacts
  <2>5. PICK u : u = [t EXCEPT !.request = o, !.step = "write"]
    OBVIOUS
  <2>6. u \in TurnRecord /\ u.tool = tool /\ u.wrote = turn.wrote /\ u.mutated /\ u.step = "write"
    BY <2>2, <2>4, <2>5 DEF TurnRecord
  <2>7. QED BY <2>1, <2>2, <2>3, <2>5, <2>6, CallKeeps DEF AssistantInv, Types
<1>7. QED BY <1>4, <1>5, <1>6

LEMMA CreateDraftKeeps == AssistantInv /\ CreateDraft => AssistantInv'
<1> SUFFICES ASSUME AssistantInv, CreateDraft PROVE AssistantInv'
  OBVIOUS
<1>1. /\ turn \in TurnRecord /\ turn # None /\ WritesOne(turn)
      /\ turn.step = "create" /\ turn.tool # None
      /\ UNCHANGED <<session, fault, orders>>
  BY DEF CreateDraft, At, AssistantInv, Types
<1>2. PICK d \in Drafts :
        /\ drafts' = [drafts EXCEPT ![d] = [items |-> {}, open |-> TRUE]]
        /\ turn' = [turn EXCEPT !.step = "write", !.request = d, !.wrote = @ \cup {d}]
  BY DEF CreateDraft, FreeDrafts
<1>3. PICK t : t = [turn EXCEPT !.step = "write", !.request = d, !.wrote = {d}]
  OBVIOUS
<1>4. d \in Requests /\ {d} \in SUBSET Requests
  BY DEF Requests
<1>5. t \in TurnRecord
  <2>1. turn \in TurnRecord
    BY <1>1
  <2>2. QED BY <1>3, <1>4, <2>1 DEF TurnRecord
<1>6. /\ t.step = "write" /\ t.request = d /\ t.tool = turn.tool /\ t.wrote = {d}
      /\ t.mutated = turn.mutated
  BY <1>1, <1>3 DEF TurnRecord
<1>7. turn' = t
  BY <1>1, <1>2, <1>3 DEF WritesOne
<1>8. WritesOne(t)
  BY <1>1, <1>4, <1>6 DEF WritesOne
<1>9. Guided(t, fault', drafts')
  BY <1>6 DEF Guided
<1>10. QED BY <1>1, <1>2, <1>5, <1>7, <1>8, <1>9, TurnKeeps, DraftsTyped DEF AssistantInv, Types

LEMMA WriteToolKeeps ==
  ASSUME AssistantInv, WriteItems \/ WriteFields \/ WritePrice \/ WriteRecord
  PROVE  AssistantInv'
<1>1. /\ turn \in TurnRecord /\ turn # None /\ turn.step = "write"
      /\ turn.items \in SUBSET Items /\ turn.price \in Prices \cup {None}
      /\ UNCHANGED <<session, fault>>
  BY DEF WriteItems, WriteFields, WritePrice, WriteRecord, At, AssistantInv, Types, TurnRecord
<1>2. PICK t : t = [turn EXCEPT !.step = "save", !.wrote = @ \cup {turn.request}]
  OBVIOUS
<1>3. orders' \in [Orders -> Prices \cup {None}]
  BY <1>1 DEF WriteItems, WriteFields, WritePrice, WriteRecord, AssistantInv, Types
<1>4. ASSUME Editable(turn.request), NEW S \in SUBSET Items,
             drafts' = [drafts EXCEPT ![turn.request].items = S]
      PROVE  drafts' \in [Drafts -> Draft \cup {None}]
  BY <1>4, DraftsTyped DEF Editable, AssistantInv
<1>5. drafts' \in [Drafts -> Draft \cup {None}]
  <2>1. CASE WriteItems
    <3>1. \/ UNCHANGED drafts
          \/ Editable(turn.request) /\ drafts' = [drafts EXCEPT ![turn.request].items = turn.items]
      BY <2>1 DEF WriteItems
    <3>2. QED BY <1>1, <1>4, <3>1 DEF AssistantInv, Types
  <2>2. CASE WriteFields
    <3> DEFINE single == {x \in Items : Cardinality(drafts[turn.request].items) <= 1}
               choices == {drafts[turn.request].items} \cup {{i} : i \in single}
    <3>1. /\ Editable(turn.request)
          /\ \/ turn' = ToolDone(turn) /\ UNCHANGED drafts
             \/ /\ \E S \in choices : drafts' = [drafts EXCEPT ![turn.request].items = S]
                /\ turn' = [turn EXCEPT !.step = "save", !.wrote = @ \cup {turn.request}]
      BY <2>2 DEF WriteFields
    <3>2. single \subseteq Items
      OBVIOUS
    <3>3. drafts[turn.request].items \in SUBSET Items
      BY <3>1 DEF Editable, AssistantInv, Types, Draft
    <3> HIDE DEF single
    <3>4. choices \subseteq SUBSET Items
      BY <3>2, <3>3
    <3> HIDE DEF choices
    <3>5. QED BY <1>4, <3>1, <3>4 DEF AssistantInv, Types
  <2>3. CASE WritePrice \/ WriteRecord
    BY <2>3 DEF WritePrice, WriteRecord, AssistantInv, Types
  <2>4. QED BY <2>1, <2>2, <2>3
<1>6. turn' = t \/ (turn' = ToolDone(turn) /\ UNCHANGED <<drafts, orders>>)
  BY <1>2 DEF WriteItems, WriteFields, WritePrice, WriteRecord
<1>7. CASE turn' = t
  BY <1>1, <1>2, <1>3, <1>5, <1>7, WriteKeeps
<1>8. CASE turn' = ToolDone(turn) /\ UNCHANGED <<drafts, orders>>
  BY <1>1, <1>8, DoneKeeps DEF AssistantInv, Types
<1>9. QED BY <1>6, <1>7, <1>8

LEMMA SaveToolKeeps ==
  ASSUME AssistantInv, SaveDraftSession \/ SavePriceSession \/ SaveRecordSession
  PROVE  AssistantInv'
<1>1. /\ turn \in TurnRecord /\ turn # None /\ turn.step = "save" /\ turn' = ToolDone(turn)
      /\ UNCHANGED <<fault, drafts, orders>>
  BY DEF SaveDraftSession, SavePriceSession, SaveRecordSession, At, AssistantInv, Types
<1>2. /\ turn.request \in Requests /\ turn.items \in SUBSET Items
      /\ turn.collected \in Prices \cup {None} /\ turn.read \in SessionState \cup {None}
  BY <1>1 DEF TurnRecord
<1>3. /\ Current \in SessionState /\ NewSession \in SessionState
      /\ [Current EXCEPT !.request = turn.request] \in SessionState
  BY <1>2, CurrentTyped DEF AssistantInv, NewSession, SessionState
<1>4. session' \in SessionState
  <2>1. CASE SaveDraftSession
    <3>1. PICK s \in SessionState : s = IF turn.read = None THEN NewSession ELSE turn.read
      BY <1>2, <1>3
    <3>2. [s EXCEPT !.request = turn.request, !.draft = turn.items] \in SessionState
      BY <1>2 DEF SessionState, Requests
    <3>3. QED BY <1>3, <2>1, <3>1, <3>2 DEF SaveDraftSession
  <2>2. CASE SavePriceSession
    <3>1. PICK s \in SessionState : s = Current
      BY <1>3
    <3>2. PICK price \in Prices \cup {None} :
            price = IF turn.collected # None THEN turn.collected ELSE s.price
      BY <1>2 DEF SessionState
    <3>3. session' = [s EXCEPT !.request = turn.request, !.price = price]
      BY <2>2, <3>1, <3>2 DEF SavePriceSession
    <3>4. QED BY <1>2, <3>3 DEF SessionState, Requests
  <2>3. CASE SaveRecordSession
    BY <1>3, <2>3 DEF SaveRecordSession
  <2>4. QED BY <2>1, <2>2, <2>3
<1>5. QED BY <1>1, <1>4, DoneKeeps

LEMMA AssistantInductive == AssistantInv /\ [AssistantNext]_assistantVars => AssistantInv'
<1> SUFFICES ASSUME AssistantInv, [AssistantNext]_assistantVars PROVE AssistantInv'
  OBVIOUS
<1>1. CASE Around
  BY <1>1, AroundKeeps
<1>2. CASE BeginTurn
  BY <1>2, BeginKeeps
<1>3. CASE SwitchRole \/ Answer \/ FailTurn
  BY <1>3, EndsKeep
<1>4. CASE FaultStep
  BY <1>4, EndsKeep, GuidanceKeeps, HandOverKeeps DEF FaultStep
<1>5. CASE ToolStep
  BY <1>5, LookUpKeeps, CallToolKeeps, CreateDraftKeeps, WriteToolKeeps, SaveToolKeeps DEF ToolStep
<1>6. CASE UNCHANGED assistantVars
  BY <1>6 DEF assistantVars, AssistantInv, Types
<1>7. QED BY <1>1, <1>2, <1>3, <1>4, <1>5, <1>6 DEF AssistantNext

LEMMA AssistantInvHolds == AssistantSpec => []AssistantInv
  BY InitAssistantInv, AssistantInductive, PTL DEF AssistantSpec

-----------------------------------------------------------------------------
(* The theorems                                                              *)

\* A turn of AssistantRuntime.run or of FaultGuidanceService writes one request
\* at most: mutation_seen is set before the call, whatever becomes of it.
THEOREM TurnWritesOneRequest == AssistantSpec => []OneRequestPerTurn
<1>1. AssistantInv => OneRequestPerTurn
  <2> SUFFICES ASSUME AssistantInv, turn # None PROVE Cardinality(turn.wrote) <= 1
    BY DEF OneRequestPerTurn
  <2>1. PICK r : turn.wrote = {} \/ turn.wrote = {r}
    BY DEF AssistantInv, WritesOne
  <2>2. QED BY <2>1, FS_EmptySet, FS_Singleton
<1>2. QED BY <1>1, AssistantInvHolds, PTL

\* _handle_direct fills the draft of a hand-over with the candidates that an
\* earlier message left in the fault state.
THEOREM OrdersWhatWasProposed == AssistantSpec => OrderedAfterProposal
<1>1. AssistantInv /\ [AssistantNext]_assistantVars =>
        [\A d \in Drafts :
           (At("fill") /\ drafts' # drafts /\ turn' # turn /\ turn.request = d) =>
             turn.before # {} /\ drafts'[d].items = turn.before]_assistantVars
  <2> SUFFICES ASSUME AssistantInv, AssistantNext, NEW d \in Drafts,
                      At("fill"), drafts' # drafts, turn' # turn, turn.request = d
               PROVE  turn.before # {} /\ drafts'[d].items = turn.before
    BY DEF assistantVars
  <2>1. FillFaultDraft
    BY DEF AssistantNext, Around, SessionExpires, FaultExpires, CardEdits, CardSubmits, CardPrices,
       BeginTurn, SwitchRole, Answer, FailTurn, FaultStep, StartGuidance, CancelGuidance,
       ResolveAsset, Decide, CreateFaultDraft, DeleteFault, ReplyToFault, RememberFaultDraft,
       ToolStep, RefuseCall, SearchRequests, Recommend, QuerySupplier, CallDraftTool, CreateDraft,
       WriteItems, WriteFields, SaveDraftSession, CallPriceTool, WritePrice, SavePriceSession,
       CallRecordTool, WriteRecord, SaveRecordSession, MayCall, At
  <2>2. turn.items = turn.before /\ turn.before # {} /\ turn.items \in SUBSET Items
    BY DEF At, AssistantInv, Types, TurnRecord, Guided
  <2>3. drafts[d] # None /\ drafts' = [drafts EXCEPT ![d].items = turn.items]
    BY <2>1 DEF FillFaultDraft, Editable
  <2>4. QED BY <2>2, <2>3, DraftsTyped DEF AssistantInv
<1>2. QED BY <1>1, AssistantInvHolds, PTL DEF AssistantSpec, OrderedAfterProposal

\* The candidates stay in the fault state until the request they are for has its
\* items: create_from_fault comes before the deletion.
THEOREM CandidatesOutliveHandOver == AssistantSpec => CandidatesSurvive
<1>1. AssistantInv /\ [AssistantNext]_assistantVars =>
        [(HeldItems(fault) # {} /\ turn' # turn /\ HeldItems(fault') = {}) =>
           \/ turn.text \in {"start", "cancel"}
           \/ turn'.text \in {"cancel", "new asset"}
           \/ turn.request # None /\ drafts[turn.request].items # {}]_assistantVars
  <2> SUFFICES ASSUME AssistantInv, AssistantNext,
                      HeldItems(fault) # {}, turn' # turn, HeldItems(fault') = {}
               PROVE  \/ turn.text \in {"start", "cancel"}
                      \/ turn'.text \in {"cancel", "new asset"}
                      \/ turn.request # None /\ drafts[turn.request].items # {}
    BY DEF assistantVars
  <2>1. StartGuidance \/ CancelGuidance \/ ResolveAsset \/ Decide \/ DeleteFault
    BY DEF AssistantNext, Around, SessionExpires, FaultExpires, CardEdits, CardSubmits, CardPrices,
       BeginTurn, SwitchRole, Answer, FailTurn, FaultStep,
       CreateFaultDraft, FillFaultDraft, ReplyToFault, RememberFaultDraft,
       ToolStep, RefuseCall, SearchRequests, Recommend, QuerySupplier, CallDraftTool, CreateDraft,
       WriteItems, WriteFields, SaveDraftSession, CallPriceTool, WritePrice, SavePriceSession,
       CallRecordTool, WriteRecord, SaveRecordSession
  <2>2. turn \in TurnRecord /\ turn # None /\ Guided(turn, fault, drafts)
    BY <2>1 DEF StartGuidance, CancelGuidance, ResolveAsset, Decide, DeleteFault, At, AssistantInv, Types
  <2>3. CASE StartGuidance
    BY <2>2, <2>3 DEF StartGuidance, At, Guided
  <2>4. CASE CancelGuidance
    BY <2>2, <2>4 DEF CancelGuidance, TurnRecord
  <2>5. CASE ResolveAsset
    <3>1. PICK changed \in BOOLEAN : \E known :
            /\ turn' = [turn EXCEPT !.fault = known, !.step = "decide",
                                    !.text = IF changed THEN "new asset" ELSE @]
            /\ fault' = IF changed THEN None ELSE fault
      BY <2>5 DEF ResolveAsset
    <3>2. changed
      BY <3>1
    <3>3. QED BY <2>2, <3>1, <3>2 DEF TurnRecord
  <2>6. CASE Decide
    <3>1. PICK decision, kept :
            /\ decision \in Decisions
            /\ kept = IF decision.action # "ANSWER" /\ decision.items # {} THEN decision.items
                      ELSE turn.fault.items
            /\ \/ fault' = fault
               \/ fault' = [turn.fault EXCEPT !.items = kept] /\ Continue(turn, "reply")
      BY <2>6 DEF Decide
    <3>2. fault' = [turn.fault EXCEPT !.items = kept] /\ turn' = [turn EXCEPT !.step = "reply"]
      BY <3>1 DEF Continue
    <3>3. turn.fault \in FaultState /\ kept \in SUBSET Items
      BY <2>2, <3>1 DEF TurnRecord, FaultState, Decisions
    <3>4. fault' \in FaultState /\ fault'.items = kept
      BY <3>2, <3>3 DEF FaultState
    <3>5. kept = {} /\ turn.fault.items = {}
      BY <3>1, <3>4, StateAssumption DEF HeldItems
    <3>6. turn.text = "new asset"
      BY <2>2, <2>6, <3>5 DEF Decide, At, Guided
    <3>7. QED BY <2>2, <3>2, <3>6 DEF TurnRecord
  <2>7. CASE DeleteFault
    BY <2>2, <2>7, AssistantAssumption DEF DeleteFault, At, Guided
  <2>8. QED BY <2>1, <2>3, <2>4, <2>5, <2>6, <2>7
<1>2. QED BY <1>1, AssistantInvHolds, PTL DEF AssistantSpec, CandidatesSurvive
=============================================================================
