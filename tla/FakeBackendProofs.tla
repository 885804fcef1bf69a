-------------------------- MODULE FakeBackendProofs --------------------------
(***************************************************************************)
(* Proofs about FakeBackend, for every value of its constants: the fake    *)
(* implements RequirementFlow, and a step it lists in allowed_actions is   *)
(* one its status and its fields allow.                                    *)
(***************************************************************************)
EXTENDS FakeBackend, TLAPS

-----------------------------------------------------------------------------
(* The requirement keeps its type.  Methods write it with copies that change *)
(* some fields, so the type is what says that the others stay.               *)

Statuses == {"DRAFT", "PENDING_REVIEW", "REJECTED", "PENDING_PURCHASE", "PURCHASING",
             "PENDING_WAREHOUSE", "COMPLETED"}

Steps == {"UPDATE_APPLICANT_FIELDS", "SUBMIT_REVIEW", "RESUBMIT_REVIEW",
          "UPDATE_REVIEW_FIELDS", "REJECT", "SUBMIT_PURCHASER", "UPDATE_PURCHASE_FIELDS",
          "SUBMIT_WAREHOUSE", "UPDATE_WAREHOUSE_FIELDS", "COMPLETE"}

Requirement ==
  [status : Statuses, version : Nat, handler : Users \cup Candidates \cup {None},
   complete : BOOLEAN, form : BOOLEAN, review : {"NONE", "DRAFT", "COMPLETED"},
   purchase : BOOLEAN, warehouse : BOOLEAN, allowed : SUBSET Steps,
   items : [Items -> [qty : Quantities, warehouse : BOOLEAN] \cup {None}],
   reviewed : SUBSET Items, executions : [Items -> Quantities \cup {None}],
   received : [Items -> Nat]]

\* A requirement lists only formal steps that its status and its fields allow.
Listed(d) ==
  /\ "SUBMIT_REVIEW" \in d.allowed => d.status = "DRAFT" /\ d.complete
  /\ "RESUBMIT_REVIEW" \in d.allowed => d.status = "REJECTED" /\ d.complete
  /\ "REJECT" \in d.allowed => d.status = "PENDING_REVIEW"
  /\ "SUBMIT_PURCHASER" \in d.allowed => d.status = "PENDING_REVIEW" /\ d.complete
  /\ "SUBMIT_WAREHOUSE" \in d.allowed => d.status = "PURCHASING" /\ d.complete
  /\ "COMPLETE" \in d.allowed => d.status = "PENDING_WAREHOUSE" /\ d.complete

Fine(d) == d \in Requirement /\ Listed(d)

FakeInv == Fine(detail)

LEMMA FakeInitially == FakeInit => FakeInv
<1> SUFFICES ASSUME FakeInit PROVE FakeInv
  OBVIOUS
<1>1. /\ detail \in Requirement
      /\ detail.allowed = {"UPDATE_APPLICANT_FIELDS"}
  BY DEF FakeInit, Requirement, Statuses, Steps
<1>2. QED BY <1>1 DEF FakeInv, Fine, Listed

\* A method that saves: status and handler stay.
LEMMA SaveKeeps ==
  ASSUME FakeInv, NEW d, Fine(d), Saved(d),
         d.status = detail.status, d.handler = detail.handler
  PROVE  FakeInv' /\ Flow!FlowNext
<1>1. /\ detail' = [d EXCEPT !.version = detail.version + 1]
      /\ d \in Requirement /\ detail.version \in Nat
  BY DEF FakeInv, Fine, Saved, Requirement
<1>2. /\ detail' \in Requirement /\ detail'.version = detail.version + 1
      /\ detail'.status = d.status /\ detail'.handler = d.handler
      /\ detail'.allowed = d.allowed /\ detail'.complete = d.complete
  BY <1>1 DEF Requirement
<1>3. FakeInv'
  BY <1>2 DEF FakeInv, Fine, Listed
<1>4. QED BY <1>2, <1>3 DEF Flow!FlowNext, Flow!Save

\* A formal step along an edge of the flow
LEMMA MoveKeeps ==
  ASSUME FakeInv, NEW d, Fine(d), Saved(d),
         <<detail.status, d.status>> \in Flow!Edges,
         d.status \in Flow!Held => d.handler # None,
         d.status = "PURCHASING" => d.handler = detail.handler,
         d.status = "COMPLETED" => d.handler = None
  PROVE  FakeInv' /\ Flow!FlowNext
<1>1. /\ detail' = [d EXCEPT !.version = detail.version + 1]
      /\ d \in Requirement /\ detail.version \in Nat
  BY DEF FakeInv, Fine, Saved, Requirement
<1>2. /\ detail' \in Requirement /\ detail'.version = detail.version + 1
      /\ detail'.status = d.status /\ detail'.handler = d.handler
      /\ detail'.allowed = d.allowed /\ detail'.complete = d.complete
  BY <1>1 DEF Requirement
<1>3. FakeInv'
  BY <1>2 DEF FakeInv, Fine, Listed
<1>4. QED BY <1>2, <1>3 DEF Flow!FlowNext, Flow!Move

-----------------------------------------------------------------------------
(* The applicant *)

LEMMA ApplicantKeeps ==
  ASSUME FakeInv, NEW v, ApplicantCall(v)
  PROVE  FakeInv' /\ Flow!FlowNext
<1>1. ASSUME NEW complete \in BOOLEAN, UpdateApplicantFields(v, complete)
      PROVE  FakeInv' /\ Flow!FlowNext
  <2> DEFINE d == [detail EXCEPT
         !.form = complete, !.complete = complete,
         !.allowed = {"UPDATE_APPLICANT_FIELDS"} \cup
           (IF ~complete THEN {}
            ELSE IF detail.status = "REJECTED" THEN {"RESUBMIT_REVIEW"} ELSE {"SUBMIT_REVIEW"})]
  <2>1. Saved(d) /\ detail \in Requirement /\ Listed(detail) /\ detail.status \in {"DRAFT", "REJECTED"}
    BY <1>1 DEF UpdateApplicantFields, FakeInv, Fine
  <2>2. d \in Requirement /\ d.status = detail.status /\ d.handler = detail.handler
        /\ d.complete = complete
        /\ d.allowed = {"UPDATE_APPLICANT_FIELDS"} \cup
             (IF ~complete THEN {}
              ELSE IF detail.status = "REJECTED" THEN {"RESUBMIT_REVIEW"} ELSE {"SUBMIT_REVIEW"})
    BY <2>1 DEF Requirement, Statuses, Steps
  <2> HIDE DEF d
  <2>3. Fine(d)
    BY <2>1, <2>2 DEF Fine, Listed
  <2>4. QED BY <2>1, <2>2, <2>3, SaveKeeps
<1>2. ASSUME NEW items \in [Items -> [qty : Quantities, warehouse : BOOLEAN] \cup {None}],
             ReplaceRequestItems(v, items)
      PROVE  FakeInv' /\ Flow!FlowNext
  <2> DEFINE d == [detail EXCEPT !.items = items]
  <2>1. Saved(d) /\ detail \in Requirement /\ Listed(detail)
    BY <1>2 DEF ReplaceRequestItems, FakeInv, Fine
  <2>2. d \in Requirement /\ d.status = detail.status /\ d.handler = detail.handler
        /\ d.allowed = detail.allowed /\ d.complete = detail.complete
    BY <2>1 DEF Requirement, Statuses, Steps
  <2> HIDE DEF d
  <2>3. Fine(d)
    BY <2>1, <2>2 DEF Fine, Listed
  <2>4. QED BY <2>1, <2>2, <2>3, SaveKeeps
<1>3. ASSUME NEW from \in {"DRAFT", "REJECTED"}, NEW next, NEW t,
             SubmitReview(v, from, next, t)
      PROVE  FakeInv' /\ Flow!FlowNext
  <2> DEFINE d == [detail EXCEPT !.status = "PENDING_REVIEW", !.handler = next, !.allowed = {}]
  <2>1. Saved(d) /\ detail \in Requirement /\ Listed(detail) /\ next \in Candidates
        /\ detail.status \in {"DRAFT", "REJECTED"}
    BY <1>3 DEF SubmitReview, FakeInv, Fine
  <2>2. d \in Requirement /\ d.status = "PENDING_REVIEW" /\ d.handler = next /\ d.allowed = {}
    BY <2>1 DEF Requirement, Statuses, Steps
  <2> HIDE DEF d
  <2>3. Fine(d)
    BY <2>1, <2>2 DEF Fine, Listed
  <2>4. QED BY <2>1, <2>2, <2>3, MoveKeeps, FakeAssumption DEF Flow!Edges, Flow!Held
<1>4. QED BY <1>1, <1>2, <1>3 DEF ApplicantCall

-----------------------------------------------------------------------------
(* The building manager *)

LEMMA ManagerKeeps ==
  ASSUME FakeInv, NEW v, ManagerCall(v)
  PROVE  FakeInv' /\ Flow!FlowNext
<1>1. ASSUME NEW items \in SUBSET Items, UpdateReviewItems(v, items)
      PROVE  FakeInv' /\ Flow!FlowNext
  <2> DEFINE d == [detail EXCEPT !.reviewed = items]
  <2>1. Saved(d) /\ detail \in Requirement /\ Listed(detail)
    BY <1>1 DEF UpdateReviewItems, FakeInv, Fine
  <2>2. d \in Requirement /\ d.status = detail.status /\ d.handler = detail.handler
        /\ d.allowed = detail.allowed /\ d.complete = detail.complete
    BY <2>1 DEF Requirement, Statuses, Steps
  <2> HIDE DEF d
  <2>3. Fine(d)
    BY <2>1, <2>2 DEF Fine, Listed
  <2>4. QED BY <2>1, <2>2, <2>3, SaveKeeps
<1>2. ASSUME NEW u, NEW complete \in BOOLEAN, UpdateReviewFields(v, u, complete)
      PROVE  FakeInv' /\ Flow!FlowNext
  <2> DEFINE d == [detail EXCEPT !.review = "DRAFT", !.complete = complete,
                                !.allowed = ReviewActions(complete)]
  <2>1. Saved(d) /\ detail \in Requirement /\ Listed(detail) /\ detail.status = "PENDING_REVIEW"
    BY <1>2 DEF UpdateReviewFields, FakeInv, Fine
  <2>2. d \in Requirement /\ d.status = detail.status /\ d.handler = detail.handler
        /\ d.complete = complete /\ d.allowed = ReviewActions(complete)
    BY <2>1 DEF Requirement, Statuses, Steps, ReviewActions
  <2> HIDE DEF d
  <2>3. Fine(d)
    BY <2>1, <2>2 DEF Fine, Listed, ReviewActions
  <2>4. QED BY <2>1, <2>2, <2>3, SaveKeeps
<1>3. ASSUME NEW u, NEW t, RejectRequirement(v, u, t)
      PROVE  FakeInv' /\ Flow!FlowNext
  <2> DEFINE d == [detail EXCEPT !.status = "REJECTED", !.handler = None,
                                !.review = "COMPLETED", !.allowed = {}]
  <2>1. Saved(d) /\ detail \in Requirement /\ Listed(detail) /\ detail.status = "PENDING_REVIEW"
    BY <1>3 DEF RejectRequirement, FakeInv, Fine
  <2>2. d \in Requirement /\ d.status = "REJECTED" /\ d.handler = None /\ d.allowed = {}
    BY <2>1 DEF Requirement, Statuses, Steps
  <2> HIDE DEF d
  <2>3. Fine(d)
    BY <2>1, <2>2 DEF Fine, Listed
  <2>4. QED BY <2>1, <2>2, <2>3, MoveKeeps DEF Flow!Edges, Flow!Held
<1>4. ASSUME NEW u, NEW next, NEW t, SubmitPurchaser(v, u, next, t)
      PROVE  FakeInv' /\ Flow!FlowNext
  <2> DEFINE d == [detail EXCEPT !.status = "PENDING_PURCHASE", !.handler = next,
                                !.review = "COMPLETED", !.allowed = {}]
  <2>1. Saved(d) /\ detail \in Requirement /\ Listed(detail)
        /\ detail.status = "PENDING_REVIEW" /\ next \in Candidates
    BY <1>4 DEF SubmitPurchaser, FakeInv, Fine
  <2>2. d \in Requirement /\ d.status = "PENDING_PURCHASE" /\ d.handler = next /\ d.allowed = {}
    BY <2>1 DEF Requirement, Statuses, Steps
  <2> HIDE DEF d
  <2>3. Fine(d)
    BY <2>1, <2>2 DEF Fine, Listed
  <2>4. QED BY <2>1, <2>2, <2>3, MoveKeeps, FakeAssumption DEF Flow!Edges, Flow!Held
<1>5. QED BY <1>1, <1>2, <1>3, <1>4 DEF ManagerCall

-----------------------------------------------------------------------------
(* The end, which two methods lead to *)

LEMMA FinishKeeps ==
  ASSUME FakeInv, Saved(Finished(detail)), <<detail.status, "COMPLETED">> \in Flow!Edges
  PROVE  FakeInv' /\ Flow!FlowNext
<1> DEFINE d == Finished(detail)
<1>1. d \in Requirement /\ d.status = "COMPLETED" /\ d.handler = None /\ d.allowed = {}
  BY DEF Finished, FakeInv, Fine, Requirement, Statuses
<1> HIDE DEF d
<1>2. Fine(d)
  BY <1>1 DEF Fine, Listed
<1>3. QED BY <1>1, <1>2, MoveKeeps DEF d, Flow!Held

-----------------------------------------------------------------------------
(* The purchaser *)

LEMMA PurchaserKeeps ==
  ASSUME FakeInv, NEW v, PurchaserCall(v)
  PROVE  FakeInv' /\ Flow!FlowNext
<1>1. ASSUME NEW i \in Items, NEW t, UpdatePurchaseItem(v, i, t)
      PROVE  FakeInv' /\ Flow!FlowNext
  <2> DEFINE d == [detail EXCEPT !.executions[i] = detail.items[i].qty]
  <2>1. Saved(d) /\ detail \in Requirement /\ Listed(detail) /\ detail.items[i] # None
    BY <1>1 DEF UpdatePurchaseItem, FakeInv, Fine
  <2>2. d \in Requirement /\ d.status = detail.status /\ d.handler = detail.handler
        /\ d.allowed = detail.allowed /\ d.complete = detail.complete
    BY <2>1 DEF Requirement, Statuses, Steps
  <2> HIDE DEF d
  <2>3. Fine(d)
    BY <2>1, <2>2 DEF Fine, Listed
  <2>4. QED BY <2>1, <2>2, <2>3, SaveKeeps
<1>2. ASSUME NEW u, NEW complete \in BOOLEAN, UpdatePurchaseFields(v, u, complete)
      PROVE  FakeInv' /\ Flow!FlowNext
  <2> DEFINE d == [detail EXCEPT
         !.purchase = complete, !.complete = complete,
         !.allowed = {"UPDATE_PURCHASE_FIELDS"} \cup
                     (IF complete THEN {"SUBMIT_WAREHOUSE"} ELSE {})]
  <2>1. Saved(d) /\ detail \in Requirement /\ Listed(detail) /\ detail.status = "PURCHASING"
    BY <1>2 DEF UpdatePurchaseFields, FakeInv, Fine
  <2>2. d \in Requirement /\ d.status = detail.status /\ d.handler = detail.handler
        /\ d.complete = complete
        /\ d.allowed = {"UPDATE_PURCHASE_FIELDS"} \cup (IF complete THEN {"SUBMIT_WAREHOUSE"} ELSE {})
    BY <2>1 DEF Requirement, Statuses, Steps
  <2> HIDE DEF d
  <2>3. Fine(d)
    BY <2>1, <2>2 DEF Fine, Listed
  <2>4. QED BY <2>1, <2>2, <2>3, SaveKeeps
<1>3. ASSUME NEW u \in Users, NEW t, StartPurchase(v, u, t)
      PROVE  FakeInv' /\ Flow!FlowNext
  <2> DEFINE d == [detail EXCEPT !.status = "PURCHASING", !.allowed = {"UPDATE_PURCHASE_FIELDS"}]
  <2>1. Saved(d) /\ detail \in Requirement /\ Listed(detail)
        /\ detail.status = "PENDING_PURCHASE" /\ detail.handler = u
    BY <1>3 DEF StartPurchase, FakeInv, Fine, RequirePurchaserAccess
  <2>2. d \in Requirement /\ d.status = "PURCHASING" /\ d.handler = detail.handler
        /\ d.allowed = {"UPDATE_PURCHASE_FIELDS"}
    BY <2>1 DEF Requirement, Statuses, Steps
  <2> HIDE DEF d
  <2>3. Fine(d)
    BY <2>1, <2>2 DEF Fine, Listed
  <2>4. QED BY <2>1, <2>2, <2>3, MoveKeeps, FakeAssumption DEF Flow!Edges, Flow!Held
<1>4. ASSUME NEW u, NEW next, NEW t, SubmitWarehouse(v, u, next, t)
      PROVE  FakeInv' /\ Flow!FlowNext
  <2> DEFINE onward == [detail EXCEPT !.status = "PENDING_WAREHOUSE", !.handler = next, !.allowed = {}]
  <2>1. /\ detail \in Requirement /\ detail.status = "PURCHASING"
        /\ Saved(Finished(detail)) \/ (Saved(onward) /\ next \in Candidates)
    BY <1>4 DEF SubmitWarehouse, FakeInv, Fine
  <2>2. CASE Saved(Finished(detail))
    BY <2>1, <2>2, FinishKeeps DEF Flow!Edges
  <2>3. CASE Saved(onward) /\ next \in Candidates
    <3>1. /\ onward \in Requirement
          /\ onward.status = "PENDING_WAREHOUSE" /\ onward.handler = next /\ onward.allowed = {}
      BY <2>1, <2>3 DEF Requirement, Statuses
    <3> HIDE DEF onward
    <3>2. Fine(onward)
      BY <3>1 DEF Fine, Listed
    <3>3. QED BY <2>1, <2>3, <3>1, <3>2, MoveKeeps, FakeAssumption DEF Flow!Edges, Flow!Held
  <2>4. QED BY <2>1, <2>2, <2>3
<1>5. QED BY <1>1, <1>2, <1>3, <1>4 DEF PurchaserCall

-----------------------------------------------------------------------------
(* The warehouse manager *)

LEMMA WarehouseKeeps ==
  ASSUME FakeInv, NEW v, WarehouseCall(v)
  PROVE  FakeInv' /\ Flow!FlowNext
<1>1. ASSUME NEW i \in Items, NEW q \in Quantities, AppendReceipt(v, i, q)
      PROVE  FakeInv' /\ Flow!FlowNext
  <2> DEFINE d == [detail EXCEPT !.received[i] = @ + q]
  <2>1. Saved(d) /\ detail \in Requirement /\ Listed(detail)
    BY <1>1 DEF AppendReceipt, FakeInv, Fine
  <2>2. d \in Requirement /\ d.status = detail.status /\ d.handler = detail.handler
        /\ d.allowed = detail.allowed /\ d.complete = detail.complete
    BY <2>1, FakeAssumption DEF Requirement, Statuses, Steps
  <2> HIDE DEF d
  <2>3. Fine(d)
    BY <2>1, <2>2 DEF Fine, Listed
  <2>4. QED BY <2>1, <2>2, <2>3, SaveKeeps
<1>2. ASSUME NEW u, NEW complete \in BOOLEAN, UpdateWarehouseFields(v, u, complete)
      PROVE  FakeInv' /\ Flow!FlowNext
  <2> DEFINE d == [detail EXCEPT
         !.warehouse = complete, !.complete = complete,
         !.allowed = {"UPDATE_WAREHOUSE_FIELDS"} \cup (IF complete THEN {"COMPLETE"} ELSE {})]
  <2>1. Saved(d) /\ detail \in Requirement /\ Listed(detail) /\ detail.status = "PENDING_WAREHOUSE"
    BY <1>2 DEF UpdateWarehouseFields, FakeInv, Fine
  <2>2. d \in Requirement /\ d.status = detail.status /\ d.handler = detail.handler
        /\ d.complete = complete
        /\ d.allowed = {"UPDATE_WAREHOUSE_FIELDS"} \cup (IF complete THEN {"COMPLETE"} ELSE {})
    BY <2>1 DEF Requirement, Statuses, Steps
  <2> HIDE DEF d
  <2>3. Fine(d)
    BY <2>1, <2>2 DEF Fine, Listed
  <2>4. QED BY <2>1, <2>2, <2>3, SaveKeeps
<1>3. ASSUME NEW u, NEW t, CompleteRequirement(v, u, t)
      PROVE  FakeInv' /\ Flow!FlowNext
  BY <1>3, FinishKeeps DEF CompleteRequirement, Flow!Edges
<1>4. QED BY <1>1, <1>2, <1>3 DEF WarehouseCall

LEMMA FakeInductive ==
  ASSUME FakeInv, [FakeNext]_fakeVars
  PROVE  FakeInv' /\ [Flow!FlowNext]_<<detail.status, detail.version, detail.handler>>
<1>1. CASE RequirementCall
  <2>1. PICK v \in 1..MaxVersion :
          ApplicantCall(v) \/ ManagerCall(v) \/ PurchaserCall(v) \/ WarehouseCall(v)
    BY <1>1 DEF RequirementCall
  <2>2. QED BY <2>1, ApplicantKeeps, ManagerKeeps, PurchaserKeeps, WarehouseKeeps
<1>2. CASE UNCHANGED detail
  BY <1>2 DEF FakeInv
<1>3. QED BY <1>1, <1>2 DEF FakeNext, SessionCall, requirementVars, fakeVars

-----------------------------------------------------------------------------
(* The theorems *)

\* A formal step that the fake lists in allowed_actions is one it accepts: status,
\* fields_complete and the list agree, whichever methods set them.
THEOREM FakeAcceptsWhatItAllows == FakeSpec => []AllowedStepsAreAccepted
<1>1. FakeInv => AllowedStepsAreAccepted
  BY DEF FakeInv, Fine, Listed, AllowedStepsAreAccepted
<1>2. QED BY <1>1, FakeInitially, FakeInductive, PTL DEF FakeSpec

\* FakeBackendClient keeps the promise the Agent is written against: it implements
\* RequirementFlow, as the backend does.
THEOREM FakeKeepsFlow == FakeSpec => KeepsFlow
<1>1. FakeInit => Flow!FlowInit
  BY DEF FakeInit, Flow!FlowInit
<1>2. QED BY <1>1, FakeInitially, FakeInductive, PTL DEF FakeSpec, KeepsFlow, Flow!FlowSpec
=============================================================================
