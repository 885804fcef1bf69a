--------------------- MODULE ProcurementWorkflowProofs ---------------------
(***************************************************************************)
(* Proofs about ProcurementWorkflow, for every value of its constants: the *)
(* rows keep their types, a completed request is a fulfilled one, the log  *)
(* and the outbox are the history of the custody, the workflow implements  *)
(* RequirementFlow, the approved scope is frozen, and the review rounds    *)
(* agree with the status.  The last part is about ProcurementTransactions: *)
(* although each handler reads an old view, the concurrent specification   *)
(* implements the one that runs them one at a time, so every invariant     *)
(* proved of the latter holds of the former.                               *)
(***************************************************************************)
EXTENDS ProcurementTransactions, FiniteSetTheorems, TLAPS

-----------------------------------------------------------------------------
(* Typing *)

LEMMA RowFields ==
  ASSUME NEW d \in Rows
  PROVE  /\ d.status \in Statuses /\ d.handler \in Employees \cup {None}
         /\ d.version \in Nat /\ d.version + 1 \in Nat
         /\ d.applicant \in Employees /\ d.form \in Form
         /\ d.items \in [Items -> Item \cup {None}] /\ d.reviews \in Seq(Review)
         /\ d.executions \in [Items -> Execution \cup {None}]
         /\ d.received \in [Items -> Nat]
         /\ d.log \in Seq(LogEntry) /\ d.outbox \in SUBSET Notification
  BY DEF Rows

LEMMA InitTyped == Init => TypeOK
<1> SUFFICES ASSUME NEW u \in Employees,
        db = [status |-> "DRAFT", handler |-> u, version |-> 0, applicant |-> u,
              form |-> [name |-> None, qty |-> None],
              items |-> [i \in Items |-> None], reviews |-> << >>,
              executions |-> [i \in Items |-> None], received |-> [i \in Items |-> 0],
              log |-> << >>, outbox |-> {}]
    PROVE  db \in Rows
  BY DEF Init, TypeOK
<1>1. [name |-> None, qty |-> None] \in Form
  BY DEF Form
<1>2. /\ [i \in Items |-> None] \in [Items -> Item \cup {None}]
      /\ [i \in Items |-> None] \in [Items -> Execution \cup {None}]
      /\ [i \in Items |-> 0] \in [Items -> Nat]
  OBVIOUS
<1>3. "DRAFT" \in Statuses
  BY DEF Statuses
<1>4. << >> \in Seq(Review) /\ << >> \in Seq(LogEntry)
  OBVIOUS
<1>5. QED BY <1>1, <1>2, <1>3, <1>4 DEF Rows

LEMMA ReplaceItemsTyped ==
  ASSUME TypeOK, NEW u \in Employees, NEW payload \in [Items -> Item \cup {None}],
         ReplaceRequestItems(db, u, payload)
  PROVE  TypeOK'
<1>1. ASSUME NEW n \in Nat PROVE [db EXCEPT !.items = payload, !.version = n] \in Rows
  BY DEF TypeOK, Rows
<1>2. QED BY <1>1, RowFields DEF ReplaceRequestItems, TypeOK

LEMMA ApplicantFieldsTyped ==
  ASSUME TypeOK, NEW u \in Employees, NEW supplied, NEW name \in Names \cup {None},
         NEW qty \in Quantities \cup {None}, SaveApplicantFields(db, u, supplied, name, qty)
  PROVE  TypeOK'
<1> DEFINE form == MergedForm(db.form, supplied, name, qty)
<1>1. form \in Form
  BY RowFields DEF TypeOK, Form, MergedForm
<1>2. ASSUME NEW n \in Nat, NEW items \in [Items -> Item \cup {None}]
      PROVE  [db EXCEPT !.form = form, !.version = n, !.items = items] \in Rows
  BY <1>1 DEF TypeOK, Rows
<1>3. CASE db' = [db EXCEPT !.form = form, !.version = @ + 1]
  <2>1. db' = [db EXCEPT !.form = form, !.version = db.version + 1, !.items = db.items]
    BY <1>3 DEF TypeOK, Rows
  <2>2. QED BY <1>2, <2>1, RowFields DEF TypeOK
<1>4. ASSUME NEW i \in Items, form.name # None, form.qty # None,
             db' = [db EXCEPT !.form = form, !.version = @ + 1,
                              !.items[i] = HeaderItem(db, form, i)]
      PROVE  TypeOK'
  <2>1. HeaderItem(db, form, i) \in Item
    BY <1>1, <1>4, RowFields DEF HeaderItem, Item, Form, TypeOK
  <2>2. [db.items EXCEPT ![i] = HeaderItem(db, form, i)] \in [Items -> Item \cup {None}]
    BY <2>1, RowFields DEF TypeOK
  <2>3. db' = [db EXCEPT !.form = form, !.version = db.version + 1,
                         !.items = [db.items EXCEPT ![i] = HeaderItem(db, form, i)]]
    BY <1>4
  <2>4. QED BY <1>2, <2>2, <2>3, RowFields DEF TypeOK
<1>5. QED BY <1>3, <1>4 DEF SaveApplicantFields

\* The tokens of a client, and of the single-item warehouse bridge.
LEMMA TokensTyped ==
  ASSUME TypeOK
  PROVE  ClientTokens(db) \subseteq Token /\ [legacy |-> TRUE, n |-> db.version] \in Token
<1>1. ASSUME NEW k \in 1..(Len(db.log) + 1) PROVE [legacy |-> FALSE, n |-> k] \in Token
  BY DEF Token
<1>2. ClientTokens(db) \subseteq Token
  BY <1>1 DEF ClientTokens
<1>3. QED BY <1>2, RowFields DEF TypeOK, Token

LEMMA LogTyped ==
  ASSUME TypeOK, NEW t \in Token, NEW u \in Employees, NEW from \in Statuses,
         NEW to \in Statuses, NEW assigned \in Employees \cup {None},
         NEW action \in Operations \cup {"PURCHASE_ITEM", "APPEND_RECEIPT"}
  PROVE  Append(db.log, Logged(t, action, u, from, to, assigned)) \in Seq(LogEntry)
<1>1. Logged(t, action, u, from, to, assigned) \in LogEntry
  BY DEF Logged, LogEntry
<1>2. QED BY <1>1, RowFields DEF TypeOK

LEMMA UpdateReviewsAndOutbox ==
  ASSUME NEW d \in Rows, NEW reviews \in Seq(Review), NEW outbox \in SUBSET Notification
  PROVE  /\ [d EXCEPT !.outbox = outbox] \in Rows
         /\ [d EXCEPT !.reviews = reviews] \in Rows
         /\ [d EXCEPT !.reviews = reviews, !.outbox = outbox] \in Rows
  BY DEF Rows

\* A transition writes the status, the handler and the log; its handler adds
\* reviews and notifications to the rows it leaves.
LEMMA TransitionTyped ==
  ASSUME TypeOK, NEW u \in Employees, NEW op \in Operations, NEW to \in Statuses,
         NEW next \in Employees \cup {None}, NEW t \in Token
  PROVE  /\ Transitioned(db, u, op, to, next, t) \in Rows
         /\ Transitioned(db, u, op, to, next, t).outbox = db.outbox
<1> DEFINE entry == Logged(t, op, u, TransitionRules[op].from, to, next)
<1>1. TransitionRules[op].from \in Statuses
  BY DEF Operations, TransitionRules, Statuses
<1>2. Append(db.log, entry) \in Seq(LogEntry)
  BY <1>1, LogTyped
<1> DEFINE log == Append(db.log, entry)
           n == db.version + 1
<1>3. Transitioned(db, u, op, to, next, t)
        = [db EXCEPT !.status = to, !.handler = next, !.version = n, !.log = log]
  BY DEF Transitioned
<1>4. n \in Nat
  BY RowFields DEF TypeOK
<1>5. log \in Seq(LogEntry)
  BY <1>2
<1> HIDE DEF n, log
<1>6. QED BY <1>3, <1>4, <1>5 DEF TypeOK, Rows

LEMMA AssignmentTyped ==
  ASSUME NEW event \in Events, NEW t \in Token, NEW next
  PROVE  AssignmentNotifications(event, t, next) \in SUBSET Notification
  BY ConstantsAssumption DEF AssignmentNotifications, Notification

LEMMA CompletionTyped ==
  ASSUME NEW p, NEW t \in Token
  PROVE  CompletionNotifications(db, p, t) \in SUBSET Notification
<1>1. ASSUME NEW e \in FeishuUsers
      PROVE  [event |-> "PROCUREMENT_COMPLETED", token |-> t, to |-> e] \in Notification
  BY ConstantsAssumption DEF Notification, Events
<1>2. QED BY <1>1 DEF CompletionNotifications

LEMMA SubmitReviewTyped ==
  ASSUME TypeOK, NEW u \in Employees, NEW op \in {"SUBMIT_REVIEW", "RESUBMIT_REVIEW"},
         NEW next \in Employees, NEW t \in Token, SubmitReview(db, u, op, next, t)
  PROVE  TypeOK'
<1> DEFINE d == Transitioned(db, u, op, "PENDING_REVIEW", next, t)
           new == AssignmentNotifications("REQUIREMENT_PENDING_REVIEW", t, next)
<1>1. op \in Operations /\ "PENDING_REVIEW" \in Statuses /\ "REQUIREMENT_PENDING_REVIEW" \in Events
  BY DEF Operations, TransitionRules, Statuses, Events
<1>2. d \in Rows /\ d.outbox = db.outbox
  BY <1>1, TransitionTyped
<1>3. d.outbox \cup new \in SUBSET Notification
  BY <1>1, <1>2, AssignmentTyped, RowFields DEF TypeOK
<1>4. db' = [d EXCEPT !.outbox = d.outbox \cup new]
  BY DEF SubmitReview
<1> HIDE DEF d, new
<1>5. QED BY <1>2, <1>3, <1>4, UpdateReviewsAndOutbox, RowFields DEF TypeOK

\* Reviews: whichever round is the active one, replacing it by a review keeps
\* the sequence of rounds typed.
LEMMA ExceptTyped ==
  ASSUME NEW S, NEW s \in Seq(S), NEW n, NEW x, n \in 1..Len(s) => x \in S
  PROVE  [s EXCEPT ![n] = x] \in Seq(S)
<1>1. CASE n \in 1..Len(s)
  BY <1>1
<1>2. CASE n \notin 1..Len(s)
  <2>1. [s EXCEPT ![n] = x] = s
    BY <1>2
  <2>2. QED BY <2>1
<1>3. QED BY <1>1, <1>2

LEMMA WithActiveReviewTyped ==
  ASSUME TypeOK, NEW u \in Employees
  PROVE  WithActiveReview(db, u) \in Seq(Review)
<1>1. NewReview(u) \in Review
  BY ConstantsAssumption DEF NewReview, Review, Estimate
<1>2. QED BY <1>1, RowFields DEF TypeOK, WithActiveReview

LEMMA EnsureSnapshotsTyped ==
  ASSUME TypeOK, NEW r \in Review
  PROVE  /\ EnsureSnapshots(db, r) \in Review
         /\ \A i \in Present(db.items) : EnsureSnapshots(db, r).items[i] \in ReviewItem
<1> DEFINE items == [i \in Items |->
      IF db.items[i] # None /\ r.items[i] = None THEN SnapshotOf(db.items[i]) ELSE r.items[i]]
<1>1. \A i \in Items : db.items[i] # None => SnapshotOf(db.items[i]) \in ReviewItem
  BY RowFields DEF TypeOK, Item, SnapshotOf, ReviewItem, Estimate
<1>2. r.items \in [Items -> ReviewItem \cup {None}]
  BY DEF Review
<1>3. /\ items \in [Items -> ReviewItem \cup {None}]
      /\ \A i \in Present(db.items) : items[i] \in ReviewItem
  BY <1>1, <1>2 DEF Present
<1>4. EnsureSnapshots(db, r) = [r EXCEPT !.items = items]
  BY DEF EnsureSnapshots
<1> HIDE DEF items
<1>5. [r EXCEPT !.items = items] \in Review /\ [r EXCEPT !.items = items].items = items
  BY <1>3 DEF Review
<1>6. QED BY <1>3, <1>4, <1>5

LEMMA DecidedReviewsTyped ==
  ASSUME TypeOK, NEW u \in Employees, NEW result \in {"APPROVED", "REJECTED"}
  PROVE  DecidedReviews(db, u, result) \in Seq(Review)
<1> DEFINE reviews == WithActiveReview(db, u)
           n == ActiveRound(reviews)
           decided == [EnsureSnapshots(db, reviews[n]) EXCEPT !.status = "COMPLETED", !.result = result]
<1>1. reviews \in Seq(Review)
  BY WithActiveReviewTyped
<1>2. n \in 1..Len(reviews) => EnsureSnapshots(db, reviews[n]) \in Review
  BY <1>1, EnsureSnapshotsTyped
<1>3. ASSUME NEW r \in Review
      PROVE  [r EXCEPT !.status = "COMPLETED", !.result = result] \in Review
  BY DEF Review
<1>4. n \in 1..Len(reviews) => decided \in Review
  BY <1>2, <1>3
<1>5. DecidedReviews(db, u, result) = [reviews EXCEPT ![n] = decided]
  BY DEF DecidedReviews
<1> HIDE DEF reviews, n, decided
<1>6. QED BY <1>1, <1>4, <1>5, ExceptTyped

\* The reviews after a handler that decides nothing: round n becomes r.
LEMMA ReviewsTyped ==
  ASSUME TypeOK, NEW u \in Employees, NEW n, NEW r,
         n \in 1..Len(WithActiveReview(db, u)) => r \in Review,
         db' = [db EXCEPT !.version = @ + 1, !.reviews = [WithActiveReview(db, u) EXCEPT ![n] = r]]
  PROVE  TypeOK'
<1>1. [WithActiveReview(db, u) EXCEPT ![n] = r] \in Seq(Review)
  BY WithActiveReviewTyped, ExceptTyped
<1>2. ASSUME NEW k \in Nat, NEW reviews \in Seq(Review)
      PROVE  [db EXCEPT !.version = k, !.reviews = reviews] \in Rows
  BY DEF TypeOK, Rows
<1>3. QED BY <1>1, <1>2, RowFields DEF TypeOK

LEMMA SaveReviewItemsTyped ==
  ASSUME TypeOK, NEW u \in Employees, NEW suggested, NEW priced,
         SaveReviewItems(db, u, suggested, priced)
  PROVE  TypeOK'
<1> DEFINE reviews == WithActiveReview(db, u)
           n == ActiveRound(reviews)
           ensured == EnsureSnapshots(db, reviews[n])
           items == [i \in Items |->
              IF i \in suggested
              THEN [ensured.items[i] EXCEPT !.estimate = IF i \in priced THEN db.items[i].qty ELSE 0]
              ELSE ensured.items[i]]
<1>1. ASSUME n \in 1..Len(reviews)
      PROVE  [ensured EXCEPT !.items = items] \in Review
  <2>1. reviews[n] \in Review
    BY <1>1, WithActiveReviewTyped
  <2>2. ensured \in Review /\ \A i \in Present(db.items) : ensured.items[i] \in ReviewItem
    BY <2>1, EnsureSnapshotsTyped
  <2>3. suggested = Present(db.items)
    BY DEF SaveReviewItems
  <2>4. \A i \in Present(db.items) : (IF i \in priced THEN db.items[i].qty ELSE 0) \in Estimate
    BY RowFields DEF TypeOK, Present, Item, Estimate
  <2>5. \A x \in ReviewItem, e \in Estimate : [x EXCEPT !.estimate = e] \in ReviewItem
    BY DEF ReviewItem
  <2> HIDE DEF ensured
  <2>6. ensured.items \in [Items -> ReviewItem \cup {None}]
    BY <2>2 DEF Review
  <2>7. items \in [Items -> ReviewItem \cup {None}]
    BY <2>2, <2>3, <2>4, <2>5, <2>6
  <2> HIDE DEF items
  <2>8. QED BY <2>2, <2>7 DEF Review
<1>2. db' = [db EXCEPT !.version = @ + 1,
                       !.reviews = [reviews EXCEPT ![n] = [ensured EXCEPT !.items = items]]]
  BY DEF SaveReviewItems
<1> HIDE DEF n, ensured, items
<1>3. QED BY <1>1, <1>2, ReviewsTyped

\* What a review says of its supplier after a save.
LEMMA SuppliersTyped ==
  ASSUME NEW r \in Review, NEW proposal \in SupplierProposal
  PROVE  NamedBy(r, proposal) \in BOOLEAN /\ LinkedBy(r, proposal) \in BOOLEAN
  BY DEF NamedBy, LinkedBy, SupplierProposal, Review

LEMMA SaveReviewFieldsTyped ==
  ASSUME TypeOK, NEW u \in Employees, NEW price, NEW proposal \in SupplierProposal,
         SaveReviewFields(db, u, price, proposal)
  PROVE  TypeOK'
<1> DEFINE reviews == WithActiveReview(db, u)
           n == ActiveRound(reviews)
           r == reviews[n]
           priced == IF price = "omitted" THEN r.priced ELSE price = "given"
           estimate(i) == IF priced THEN db.items[i].qty ELSE r.estimate
           line(i) == IF r.items[i] = None THEN SnapshotOf(db.items[i]) ELSE r.items[i]
           named == NamedBy(r, proposal)
           linked == LinkedBy(r, proposal)
           saved(i) == [r EXCEPT !.priced = priced, !.estimate = estimate(i),
                                 !.named = named, !.linked = linked,
                                 !.items[i] = [line(i) EXCEPT !.estimate = estimate(i)]]
<1>1. PICK i \in Items :
        /\ Present(db.items) = {i}
        /\ db' = [db EXCEPT !.version = @ + 1, !.reviews = [reviews EXCEPT ![n] = saved(i)]]
  BY DEF SaveReviewFields
<1>2. db.items[i] \in Item
  BY <1>1, RowFields DEF TypeOK, Present
<1>3. ASSUME n \in 1..Len(reviews)
      PROVE  saved(i) \in Review
  <2>1. r \in Review
    BY <1>3, WithActiveReviewTyped
  <2>2. priced \in BOOLEAN /\ named \in BOOLEAN /\ linked \in BOOLEAN
    BY <2>1, SuppliersTyped DEF Review
  <2>3. estimate(i) \in Estimate
    BY <1>2, <2>1 DEF Review, Item, Estimate
  <2>4. line(i) \in ReviewItem
    BY <1>2, <2>1 DEF Review, SnapshotOf, ReviewItem, Item, Estimate
  <2>5. [line(i) EXCEPT !.estimate = estimate(i)] \in ReviewItem
    BY <2>3, <2>4 DEF ReviewItem
  <2> DEFINE items == [r.items EXCEPT ![i] = [line(i) EXCEPT !.estimate = estimate(i)]]
  <2>6. items \in [Items -> ReviewItem \cup {None}]
    BY <2>1, <2>5 DEF Review
  <2>7. saved(i) = [r EXCEPT !.priced = priced, !.estimate = estimate(i),
                             !.named = named, !.linked = linked, !.items = items]
    OBVIOUS
  <2> HIDE DEF r, priced, named, linked, estimate, items
  <2>8. QED BY <2>1, <2>2, <2>3, <2>6, <2>7 DEF Review
<1> HIDE DEF n, saved
<1>4. QED BY <1>1, <1>3, ReviewsTyped

LEMMA RejectTyped ==
  ASSUME TypeOK, NEW u \in Employees, NEW next \in Employees, NEW t \in Token,
         Reject(db, u, next, t)
  PROVE  TypeOK'
<1> DEFINE d == Transitioned(db, u, "REJECT", "REJECTED", next, t)
<1>1. d \in Rows
  BY TransitionTyped DEF Operations, TransitionRules, Statuses
<1>2. DecidedReviews(db, u, "REJECTED") \in Seq(Review)
  BY DecidedReviewsTyped
<1>3. db' = [d EXCEPT !.reviews = DecidedReviews(db, u, "REJECTED")]
  BY DEF Reject
<1> HIDE DEF d
<1>4. QED BY <1>1, <1>2, <1>3, UpdateReviewsAndOutbox, RowFields DEF TypeOK

LEMMA SubmitPurchaserTyped ==
  ASSUME TypeOK, NEW u \in Employees, NEW next \in Employees, NEW t \in Token,
         SubmitPurchaser(db, u, next, t)
  PROVE  TypeOK'
<1> DEFINE d == Transitioned(db, u, "SUBMIT_PURCHASER", "PENDING_PURCHASE", next, t)
           reviews == DecidedReviews(db, u, "APPROVED")
           new == AssignmentNotifications("REQUIREMENT_PENDING_PURCHASE", t, next)
<1>1. d \in Rows /\ d.outbox = db.outbox
  BY TransitionTyped DEF Operations, TransitionRules, Statuses
<1>2. reviews \in Seq(Review)
  BY DecidedReviewsTyped
<1>3. d.outbox \cup new \in SUBSET Notification
  BY <1>1, AssignmentTyped, RowFields DEF TypeOK, Events
<1>4. db' = [d EXCEPT !.reviews = reviews, !.outbox = d.outbox \cup new]
  BY DEF SubmitPurchaser
<1> HIDE DEF d, reviews, new
<1>5. QED BY <1>1, <1>2, <1>3, <1>4, UpdateReviewsAndOutbox DEF TypeOK

LEMMA StartPurchaseTyped ==
  ASSUME TypeOK, NEW u \in Employees, NEW next \in Employees, NEW t \in Token,
         StartPurchase(db, u, next, t)
  PROVE  TypeOK'
  BY TransitionTyped DEF StartPurchase, TypeOK, Operations, TransitionRules, Statuses

\* The rounds once the last one has its supplier: nothing else of it changes.
LEMMA WithSupplierTyped ==
  ASSUME NEW reviews \in Seq(Review)
  PROVE  LET last == Len(reviews)
             filled == WithSupplier(reviews, last)
         IN  /\ filled \in Seq(Review) /\ Len(filled) = last
             /\ \A n \in 1..last : n # last => filled[n] = reviews[n]
             /\ last > 0 => filled[last] = [reviews[last] EXCEPT !.linked = TRUE]
<1> DEFINE last == Len(reviews)
           r == [reviews[last] EXCEPT !.linked = TRUE]
<1>1. last \in 1..Len(reviews) => r \in Review
  <2>1. ASSUME NEW x \in Review PROVE [x EXCEPT !.linked = TRUE] \in Review
    BY DEF Review
  <2>2. QED BY <2>1
<1>2. WithSupplier(reviews, last) = [reviews EXCEPT ![last] = r]
  BY DEF WithSupplier
<1> HIDE DEF r
<1>3. [reviews EXCEPT ![last] = r] \in Seq(Review)
  BY <1>1, ExceptTyped
<1>4. /\ Len([reviews EXCEPT ![last] = r]) = last
      /\ \A n \in 1..last : n # last => [reviews EXCEPT ![last] = r][n] = reviews[n]
      /\ last > 0 => [reviews EXCEPT ![last] = r][last] = r
  BY DEF last
<1>5. QED BY <1>2, <1>3, <1>4 DEF r

LEMMA RecordPurchaseTyped ==
  ASSUME TypeOK, NEW u \in Employees, NEW i \in Items, NEW byName,
         NEW log \in Seq(LogEntry), RecordPurchase(db, u, i, byName, log)
  PROVE  TypeOK'
<1> DEFINE execution == IF db.executions[i] = None
                        THEN [purchaser |-> u, qty |-> db.items[i].qty, total |-> db.items[i].qty]
                        ELSE [db.executions[i] EXCEPT !.total = db.items[i].qty]
           executions == [db.executions EXCEPT ![i] = execution]
           reviews == IF byName THEN WithSupplier(db.reviews, Len(db.reviews)) ELSE db.reviews
<1>1. db.items[i].qty \in Quantities
  BY RowFields DEF RecordPurchase, TypeOK, Item
<1>2. execution \in Execution
  <2>1. CASE db.executions[i] = None
    BY <1>1, <2>1 DEF Execution
  <2>2. CASE db.executions[i] # None
    <3>1. db.executions[i] \in Execution
      BY <2>2, RowFields DEF TypeOK
    <3>2. QED BY <1>1, <2>2, <3>1 DEF Execution
  <2>3. QED BY <2>1, <2>2
<1>3. executions \in [Items -> Execution \cup {None}]
  BY <1>2, RowFields DEF TypeOK
<1>4. reviews \in Seq(Review)
  BY RowFields, WithSupplierTyped DEF TypeOK
<1>5. db' = [db EXCEPT !.version = db.version + 1, !.log = log, !.reviews = reviews,
                       !.executions = executions]
  BY DEF RecordPurchase
<1> HIDE DEF executions, reviews
<1>6. ASSUME NEW n \in Nat
      PROVE  [db EXCEPT !.version = n, !.log = log, !.reviews = reviews,
                        !.executions = executions] \in Rows
  BY <1>3, <1>4 DEF TypeOK, Rows
<1>7. QED BY <1>5, <1>6, RowFields DEF TypeOK

LEMMA SubmitWarehouseTyped ==
  ASSUME TypeOK, NEW u \in Employees, NEW next \in Employees \cup {None}, NEW t \in Token,
         SubmitWarehouse(db, u, next, t)
  PROVE  TypeOK'
<1> DEFINE d(to) == Transitioned(db, u, "SUBMIT_WAREHOUSE", to, next, t)
<1>1. ASSUME NEW to \in {"PENDING_WAREHOUSE", "COMPLETED"}
      PROVE  d(to) \in Rows /\ d(to).outbox = db.outbox
  <2>1. "SUBMIT_WAREHOUSE" \in Operations /\ to \in Statuses
    BY DEF Operations, TransitionRules, Statuses
  <2>2. QED BY <2>1, TransitionTyped
<1>2. PICK to \in {"PENDING_WAREHOUSE", "COMPLETED"}, new \in SUBSET Notification :
        db' = [d(to) EXCEPT !.outbox = d(to).outbox \cup new]
  BY AssignmentTyped, CompletionTyped DEF SubmitWarehouse, Events
<1>3. d(to).outbox \cup new \in SUBSET Notification
  BY <1>1, <1>2, RowFields DEF TypeOK
<1> HIDE DEF d
<1>4. QED BY <1>1, <1>2, <1>3, UpdateReviewsAndOutbox, RowFields DEF TypeOK

LEMMA AppendReceiptTyped ==
  ASSUME TypeOK, NEW u \in Employees, NEW i \in Items, NEW q \in Quantities, NEW t \in Token,
         AppendReceipt(db, u, i, q, t)
  PROVE  TypeOK'
<1> DEFINE log == Append(db.log, Logged(t, "APPEND_RECEIPT", u, db.status, db.status, u))
           received == [db.received EXCEPT ![i] = @ + q]
<1>1. log \in Seq(LogEntry)
  BY LogTyped, RowFields DEF TypeOK
<1>2. received \in [Items -> Nat]
  BY ConstantsAssumption, RowFields DEF TypeOK
<1>3. db' = [db EXCEPT !.version = db.version + 1, !.received = received, !.log = log]
  BY DEF AppendReceipt
<1> HIDE DEF log, received
<1>4. ASSUME NEW n \in Nat
      PROVE  [db EXCEPT !.version = n, !.received = received, !.log = log] \in Rows
  BY <1>1, <1>2 DEF TypeOK, Rows
<1>5. QED BY <1>3, <1>4, RowFields DEF TypeOK

LEMMA CompleteTyped ==
  ASSUME TypeOK, NEW u \in Employees, NEW t \in Token, Complete(db, u, None, t)
  PROVE  TypeOK'
<1> DEFINE d == Transitioned(db, u, "COMPLETE", "COMPLETED", None, t)
<1>1. d \in Rows /\ d.outbox = db.outbox
  BY TransitionTyped DEF Operations, TransitionRules, Statuses
<1>2. PICK new \in SUBSET Notification : db' = [d EXCEPT !.outbox = d.outbox \cup new]
  BY CompletionTyped DEF Complete
<1>3. d.outbox \cup new \in SUBSET Notification
  BY <1>1, <1>2, RowFields DEF TypeOK
<1> HIDE DEF d
<1>4. QED BY <1>1, <1>2, <1>3, UpdateReviewsAndOutbox, RowFields DEF TypeOK

\* What a client sends is a token.
LEMMA ClientsSendTokens ==
  ASSUME TypeOK, NEW u, Handle(db, u, ClientTokens(db))
  PROVE  Handle(db, u, Token)
  BY TokensTyped DEF Handle, HandleApplicant, HandleManager, HandlePurchaser, HandleWarehouse

LEMMA NextHandles ==
  ASSUME TypeOK, Next
  PROVE  \E u \in Employees : Handle(db, u, Token)
  BY ClientsSendTokens DEF Next

\* Every handler keeps the rows typed.
LEMMA HandleTyped ==
  ASSUME TypeOK, NEW u \in Employees, Handle(db, u, Token)
  PROVE  TypeOK'
<1> USE TokensTyped
<1>1. CASE HandleApplicant(db, u, Token)
  BY <1>1, ReplaceItemsTyped, ApplicantFieldsTyped, SubmitReviewTyped DEF HandleApplicant
<1>2. CASE HandleManager(db, u, Token)
  BY <1>2, ConstantsAssumption, SaveReviewItemsTyped, SaveReviewFieldsTyped, RejectTyped,
     SubmitPurchaserTyped DEF HandleManager
<1>3. CASE HandlePurchaser(db, u, Token)
  <2>1. ASSUME NEW i \in Items, NEW byName, SavePurchaseFields(db, u, i, byName)
        PROVE  TypeOK'
    BY <2>1, RecordPurchaseTyped, RowFields DEF SavePurchaseFields, TypeOK
  <2>2. ASSUME NEW i \in Items, NEW byName, NEW t \in Token, SavePurchaseItem(db, u, i, byName, t)
        PROVE  TypeOK'
    <3>1. Append(db.log, Logged(t, "PURCHASE_ITEM", u, db.status, db.status, u)) \in Seq(LogEntry)
      BY LogTyped, RowFields DEF TypeOK
    <3>2. QED BY <2>2, <3>1, RecordPurchaseTyped DEF SavePurchaseItem
  <2>3. QED BY <1>3, <2>1, <2>2, StartPurchaseTyped, SubmitWarehouseTyped DEF HandlePurchaser
<1>4. CASE HandleWarehouse(db, u, Token)
  BY <1>4, AppendReceiptTyped, CompleteTyped DEF HandleWarehouse, SaveWarehouseFields
<1>5. QED BY <1>1, <1>2, <1>3, <1>4 DEF Handle

\* The rows of the request keep their types under every sequence of calls
\* (backend/app/models/procurement.py).
THEOREM WorkflowTyped == Spec => []TypeOK
<1>1. TypeOK /\ [Next]_vars => TypeOK'
  BY HandleTyped, NextHandles DEF vars, TypeOK
<1>2. QED BY <1>1, InitTyped, PTL DEF Spec

-----------------------------------------------------------------------------
(* Fulfilment.  The three invariants about items, executions and receipts are *)
(* inductive together: an execution is made from a frozen item, a receipt is  *)
(* bounded by its execution, and the two roads to COMPLETED check what the    *)
(* first two say cannot be undone.                                            *)

Fulfilment ==
  TypeOK /\ PurchasesMatchItems /\ ReceiptsWithinPurchase /\ CompletionIsFulfilled

\* The statuses in which nothing has been bought.
Early == {"DRAFT", "PENDING_REVIEW", "REJECTED", "PENDING_PURCHASE"}

LEMMA InitFulfilment == Init => Fulfilment
<1> SUFFICES ASSUME Init PROVE Fulfilment
  OBVIOUS
<1>1. /\ db.status = "DRAFT" /\ db.executions = [i \in Items |-> None]
      /\ db.received = [i \in Items |-> 0]
  BY DEF Init
<1>2. QED BY <1>1, InitTyped DEF Fulfilment, PurchasesMatchItems, ReceiptsWithinPurchase,
          CompletionIsFulfilled, Present

\* Before the first purchase there are no executions and no receipts, so the
\* items are free to change.
LEMMA EarlyStep ==
  ASSUME Fulfilment, TypeOK', db.status \in Early, db'.status \in Early \cup {"PURCHASING"},
         db'.executions = db.executions, db'.received = db.received
  PROVE  Fulfilment'
<1>1. Present(db.executions) = {}
  BY DEF Fulfilment, PurchasesMatchItems, Early
<1>2. \A i \in Items : db.executions[i] = None
  BY <1>1 DEF Present
<1>3. \A i \in Items : ~ (db.received[i] > 0)
  BY <1>2 DEF Fulfilment, ReceiptsWithinPurchase
<1>4. PurchasesMatchItems'
  BY <1>1 DEF PurchasesMatchItems, Early, Present
<1>5. ReceiptsWithinPurchase'
  BY <1>3 DEF ReceiptsWithinPurchase
<1>6. CompletionIsFulfilled'
  BY DEF CompletionIsFulfilled, Early
<1>7. QED BY <1>4, <1>5, <1>6 DEF Fulfilment

\* The rows a transition does not write.
LEMMA TransitionEffect ==
  ASSUME TypeOK, NEW u, NEW op, NEW to, NEW next, NEW t, NEW reviews, NEW outbox,
         \/ db' = Transitioned(db, u, op, to, next, t)
         \/ db' = [Transitioned(db, u, op, to, next, t) EXCEPT !.outbox = outbox]
         \/ db' = [Transitioned(db, u, op, to, next, t) EXCEPT !.reviews = reviews]
         \/ db' = [Transitioned(db, u, op, to, next, t) EXCEPT !.reviews = reviews, !.outbox = outbox]
  PROVE  /\ db'.status = to /\ db'.handler = next
         /\ db'.items = db.items /\ db'.executions = db.executions /\ db'.received = db.received
  BY DEF Transitioned, TypeOK, Rows

LEMMA ApplicantFulfilment ==
  ASSUME Fulfilment, NEW u \in Employees, HandleApplicant(db, u, Token)
  PROVE  Fulfilment'
<1>1. TypeOK'
  BY HandleTyped DEF Handle, Fulfilment
<1>2. ASSUME NEW payload, ReplaceRequestItems(db, u, payload)
      PROVE  Fulfilment'
  <2>1. /\ db.status \in Early /\ db'.status = db.status
        /\ db'.executions = db.executions /\ db'.received = db.received
    BY <1>2 DEF ReplaceRequestItems, Early, Fulfilment, TypeOK, Rows
  <2>2. QED BY <1>1, <2>1, EarlyStep
<1>3. ASSUME NEW supplied, NEW name, NEW qty, SaveApplicantFields(db, u, supplied, name, qty)
      PROVE  Fulfilment'
  <2>1. /\ db'.status = db.status
        /\ db'.executions = db.executions /\ db'.received = db.received
    BY <1>3 DEF SaveApplicantFields, Fulfilment, TypeOK, Rows
  <2>2. db.status \in Early
    BY <1>3 DEF SaveApplicantFields, ApplicantCanEdit, ManagerCanEdit, Early
  <2>3. QED BY <1>1, <2>1, <2>2, EarlyStep
<1>4. ASSUME NEW op \in {"SUBMIT_REVIEW", "RESUBMIT_REVIEW"}, NEW next, NEW t,
             SubmitReview(db, u, op, next, t)
      PROVE  Fulfilment'
  <2>1. db.status \in Early
    BY <1>4 DEF SubmitReview, CanTransition, TransitionRules, Early
  <2>2. /\ db'.status = "PENDING_REVIEW"
        /\ db'.executions = db.executions /\ db'.received = db.received
    BY <1>4, TransitionEffect DEF SubmitReview, Fulfilment
  <2>3. QED BY <1>1, <2>1, <2>2, EarlyStep DEF Early
<1>5. QED BY <1>2, <1>3, <1>4 DEF HandleApplicant

LEMMA ManagerFulfilment ==
  ASSUME Fulfilment, NEW u \in Employees, HandleManager(db, u, Token)
  PROVE  Fulfilment'
<1>1. TypeOK'
  BY HandleTyped DEF Handle, Fulfilment
<1>2. ASSUME NEW suggested, NEW priced, SaveReviewItems(db, u, suggested, priced)
      PROVE  Fulfilment'
  <2>1. /\ db.status \in Early /\ db'.status = db.status
        /\ db'.executions = db.executions /\ db'.received = db.received
    BY <1>2 DEF SaveReviewItems, Early, Fulfilment, TypeOK, Rows
  <2>2. QED BY <1>1, <2>1, EarlyStep
<1>3. ASSUME NEW price, NEW proposal, SaveReviewFields(db, u, price, proposal)
      PROVE  Fulfilment'
  <2>1. /\ db.status \in Early /\ db'.status = db.status
        /\ db'.executions = db.executions /\ db'.received = db.received
    BY <1>3 DEF SaveReviewFields, Early, Fulfilment, TypeOK, Rows
  <2>2. QED BY <1>1, <2>1, EarlyStep
<1>4. ASSUME NEW next, NEW t, Reject(db, u, next, t)
      PROVE  Fulfilment'
  <2>1. db.status \in Early
    BY <1>4 DEF Reject, CanTransition, TransitionRules, Early
  <2>2. /\ db'.status = "REJECTED"
        /\ db'.executions = db.executions /\ db'.received = db.received
    BY <1>4, TransitionEffect DEF Reject, Fulfilment
  <2>3. QED BY <1>1, <2>1, <2>2, EarlyStep DEF Early
<1>5. ASSUME NEW next, NEW t, SubmitPurchaser(db, u, next, t)
      PROVE  Fulfilment'
  <2>1. db.status \in Early
    BY <1>5 DEF SubmitPurchaser, CanTransition, TransitionRules, Early
  <2>2. /\ db'.status = "PENDING_PURCHASE"
        /\ db'.executions = db.executions /\ db'.received = db.received
    <3> DEFINE d == Transitioned(db, u, "SUBMIT_PURCHASER", "PENDING_PURCHASE", next, t)
               reviews == DecidedReviews(db, u, "APPROVED")
               outbox == d.outbox \cup AssignmentNotifications("REQUIREMENT_PENDING_PURCHASE", t, next)
    <3>1. db' = [d EXCEPT !.reviews = reviews, !.outbox = outbox]
      BY <1>5 DEF SubmitPurchaser
    <3> HIDE DEF reviews, outbox
    <3>2. QED BY <3>1, TransitionEffect DEF Fulfilment
  <2>3. QED BY <1>1, <2>1, <2>2, EarlyStep DEF Early
<1>6. QED BY <1>2, <1>3, <1>4, <1>5 DEF HandleManager

\* A purchase: the item bought is active and its quantity is the one asked for.
LEMMA RecordPurchaseFulfilment ==
  ASSUME Fulfilment, TypeOK', NEW u \in Employees, NEW i \in Items, NEW byName, NEW log,
         RecordPurchase(db, u, i, byName, log)
  PROVE  Fulfilment'
<1>1. /\ db.status = "PURCHASING" /\ db'.status = "PURCHASING" /\ db.items[i] # None
      /\ db'.items = db.items /\ db'.received = db.received
      /\ db'.executions = [db.executions EXCEPT ![i] =
           IF db.executions[i] = None
           THEN [purchaser |-> u, qty |-> db.items[i].qty, total |-> db.items[i].qty]
           ELSE [db.executions[i] EXCEPT !.total = db.items[i].qty]]
  BY DEF RecordPurchase, Fulfilment, TypeOK, Rows
<1>2. db.executions[i] # None =>
        db.executions[i] \in Execution /\ db.executions[i].qty = db.items[i].qty
  BY RowFields DEF Fulfilment, TypeOK, PurchasesMatchItems, Present
<1>3. db'.executions[i].qty = db.items[i].qty /\ db'.executions[i].total = db.items[i].qty
  <2>1. CASE db.executions[i] = None
    BY <1>1, <2>1, RowFields DEF Fulfilment, TypeOK
  <2>2. CASE db.executions[i] # None
    BY <1>1, <1>2, <2>2, RowFields DEF Fulfilment, TypeOK, Execution
  <2>3. QED BY <2>1, <2>2
<1>4. \A j \in Items \ {i} : db'.executions[j] = db.executions[j]
  BY <1>1, RowFields DEF Fulfilment, TypeOK
<1>5. db'.executions[i] # None
  <2>1. db.items[i].qty \in Quantities
    BY <1>1, RowFields DEF Fulfilment, TypeOK, Item
  <2>2. CASE db.executions[i] = None
    <3>1. [purchaser |-> u, qty |-> db.items[i].qty, total |-> db.items[i].qty] \in Execution
      BY <2>1 DEF Execution
    <3>2. QED BY <1>1, <2>2, <3>1, RowFields, NoneAssumption DEF Fulfilment, TypeOK
  <2>3. CASE db.executions[i] # None
    <3>1. [db.executions[i] EXCEPT !.total = db.items[i].qty] \in Execution
      BY <1>2, <2>1, <2>3 DEF Execution
    <3>2. QED BY <1>1, <2>3, <3>1, RowFields, NoneAssumption DEF Fulfilment, TypeOK
  <2>4. QED BY <2>2, <2>3
<1>6. PurchasesMatchItems'
  BY <1>1, <1>3, <1>4 DEF Fulfilment, PurchasesMatchItems, Present
<1>7. ReceiptsWithinPurchase'
  BY <1>1, <1>2, <1>3, <1>4, <1>5
     DEF Fulfilment, ReceiptsWithinPurchase, RequiresWarehouse, Present
<1>8. QED BY <1>1, <1>6, <1>7 DEF Fulfilment, CompletionIsFulfilled

LEMMA PurchaserFulfilment ==
  ASSUME Fulfilment, NEW u \in Employees, HandlePurchaser(db, u, Token)
  PROVE  Fulfilment'
<1>1. TypeOK'
  BY HandleTyped DEF Handle, Fulfilment
<1>2. ASSUME NEW next, NEW t, StartPurchase(db, u, next, t)
      PROVE  Fulfilment'
  <2>1. db.status \in Early
    BY <1>2 DEF StartPurchase, CanTransition, TransitionRules, Early
  <2>2. /\ db'.status = "PURCHASING"
        /\ db'.executions = db.executions /\ db'.received = db.received
    BY <1>2, TransitionEffect DEF StartPurchase, Fulfilment
  <2>3. QED BY <1>1, <2>1, <2>2, EarlyStep
<1>3. ASSUME NEW i \in Items, NEW byName, SavePurchaseFields(db, u, i, byName)
      PROVE  Fulfilment'
  BY <1>1, <1>3, RecordPurchaseFulfilment DEF SavePurchaseFields
<1>4. ASSUME NEW i \in Items, NEW byName, NEW t, SavePurchaseItem(db, u, i, byName, t)
      PROVE  Fulfilment'
  BY <1>1, <1>4, RecordPurchaseFulfilment DEF SavePurchaseItem
<1>5. ASSUME NEW next, NEW t, SubmitWarehouse(db, u, next, t)
      PROVE  Fulfilment'
  <2>1. PICK to \in {"PENDING_WAREHOUSE", "COMPLETED"} :
          /\ \E outbox : db' = [Transitioned(db, u, "SUBMIT_WAREHOUSE", to, next, t) EXCEPT !.outbox = outbox]
          /\ CanTransition(db, u, "SUBMIT_WAREHOUSE", to, next, t)
          /\ to = "COMPLETED" => RequiresWarehouse(db) = {}
    BY <1>5 DEF SubmitWarehouse
  <2>2. /\ db'.status = to /\ db'.handler = next /\ db'.items = db.items
        /\ db'.executions = db.executions /\ db'.received = db.received
    BY <2>1 DEF Transitioned, Fulfilment, TypeOK, Rows
  <2>3. Present(db.items) # {} /\ AllActiveItemsExecuted(db)
    BY <1>5 DEF SubmitWarehouse
  <2>4. to = "COMPLETED" => next = None
    BY <2>1 DEF CanTransition
  <2>5. PurchasesMatchItems'
    BY <2>2, <2>3 DEF Fulfilment, PurchasesMatchItems, AllActiveItemsExecuted, Present
  <2>6. ReceiptsWithinPurchase'
    BY <2>2 DEF Fulfilment, ReceiptsWithinPurchase, RequiresWarehouse, Present
  <2>7. CompletionIsFulfilled'
    BY <2>1, <2>2, <2>4, <2>5
       DEF CompletionIsFulfilled, PurchasesMatchItems, AllActiveItemsExecuted,
           RequiresWarehouse, Present
  <2>8. QED BY <1>1, <2>5, <2>6, <2>7 DEF Fulfilment
<1>6. QED BY <1>2, <1>3, <1>4, <1>5 DEF HandlePurchaser

\* A receipt: its sum stays within the execution it belongs to.
LEMMA AppendReceiptFulfilment ==
  ASSUME Fulfilment, TypeOK', NEW u \in Employees, NEW i \in Items, NEW q \in Quantities, NEW t,
         AppendReceipt(db, u, i, q, t)
  PROVE  Fulfilment'
<1>1. /\ db.status = "PENDING_WAREHOUSE" /\ db'.status = "PENDING_WAREHOUSE"
      /\ db'.items = db.items /\ db'.executions = db.executions
      /\ db'.received = [db.received EXCEPT ![i] = db.received[i] + q]
  BY DEF AppendReceipt, Fulfilment, TypeOK, Rows
<1>2. /\ db.executions[i] # None /\ db.items[i] # None /\ db.items[i].warehouse
      /\ db.received[i] + q <= db.executions[i].qty
  BY DEF AppendReceipt, ReceiptFits
<1>3. /\ db'.received[i] = db.received[i] + q
      /\ \A j \in Items \ {i} : db'.received[j] = db.received[j]
  BY <1>1, RowFields DEF Fulfilment, TypeOK
<1>4. PurchasesMatchItems'
  BY <1>1 DEF Fulfilment, PurchasesMatchItems, AllActiveItemsExecuted, Present
<1>5. i \in RequiresWarehouse(db)
  BY <1>2 DEF RequiresWarehouse, Present
<1>6. \A j \in Items : db'.received[j] > 0 =>
        /\ j \in RequiresWarehouse(db)
        /\ db.executions[j] # None
        /\ db'.received[j] <= db.executions[j].qty
  BY <1>2, <1>3, <1>5 DEF Fulfilment, ReceiptsWithinPurchase
<1>7. ReceiptsWithinPurchase'
  BY <1>1, <1>6 DEF ReceiptsWithinPurchase, RequiresWarehouse, Present
<1>8. QED BY <1>1, <1>4, <1>7 DEF Fulfilment, CompletionIsFulfilled

LEMMA WarehouseFulfilment ==
  ASSUME Fulfilment, NEW u \in Employees, HandleWarehouse(db, u, Token)
  PROVE  Fulfilment'
<1>1. TypeOK'
  BY HandleTyped DEF Handle, Fulfilment
<1>2. ASSUME NEW i \in Items, NEW q \in Quantities, NEW t, AppendReceipt(db, u, i, q, t)
      PROVE  Fulfilment'
  BY <1>1, <1>2, AppendReceiptFulfilment
<1>3. ASSUME NEW t, Complete(db, u, None, t)
      PROVE  Fulfilment'
  <2>1. PICK outbox :
          db' = [Transitioned(db, u, "COMPLETE", "COMPLETED", None, t) EXCEPT !.outbox = outbox]
    BY <1>3 DEF Complete
  <2>2. /\ db'.status = "COMPLETED" /\ db'.handler = None /\ db'.items = db.items
        /\ db'.executions = db.executions /\ db'.received = db.received
    BY <2>1 DEF Transitioned, Fulfilment, TypeOK, Rows
  <2>3. db.status = "PENDING_WAREHOUSE" /\ AllWarehouseItemsFulfilled(db)
    BY <1>3 DEF Complete, CanTransition, TransitionRules
  <2>4. PurchasesMatchItems'
    BY <2>2, <2>3 DEF Fulfilment, PurchasesMatchItems, AllActiveItemsExecuted, Present
  <2>5. ReceiptsWithinPurchase'
    BY <2>2 DEF Fulfilment, ReceiptsWithinPurchase, RequiresWarehouse, Present
  <2>6. CompletionIsFulfilled'
    BY <2>2, <2>3, <2>4
       DEF CompletionIsFulfilled, PurchasesMatchItems, AllActiveItemsExecuted,
           AllWarehouseItemsFulfilled, RequiresWarehouse, Present
  <2>7. QED BY <1>1, <2>4, <2>5, <2>6 DEF Fulfilment
<1>4. QED BY <1>2, <1>3 DEF HandleWarehouse, SaveWarehouseFields

LEMMA FulfilmentStep ==
  ASSUME Fulfilment, NEW u \in Employees, Handle(db, u, Token)
  PROVE  Fulfilment'
  BY ApplicantFulfilment, ManagerFulfilment, PurchaserFulfilment, WarehouseFulfilment
     DEF Handle

LEMMA FulfilmentInductive == Fulfilment /\ [Next]_vars => Fulfilment'
<1> SUFFICES ASSUME Fulfilment, [Next]_vars PROVE Fulfilment'
  OBVIOUS
<1>1. CASE UNCHANGED vars
  BY <1>1 DEF vars, Fulfilment, TypeOK, PurchasesMatchItems, ReceiptsWithinPurchase,
     CompletionIsFulfilled, Present, RequiresWarehouse, AllActiveItemsExecuted
<1>2. QED BY <1>1, FulfilmentStep, NextHandles DEF Fulfilment

LEMMA FulfilmentInvariant == Spec => []Fulfilment
  BY InitFulfilment, FulfilmentInductive, PTL DEF Spec

\* Every execution is for an active item in the quantity asked for
\* (save_purchase_item, submit_warehouse).
THEOREM PurchasesMatch == Spec => []PurchasesMatchItems
  BY FulfilmentInvariant, PTL DEF Fulfilment

\* No item is over-received (append_receipt).
THEOREM NoOverReceipt == Spec => []ReceiptsWithinPurchase
  BY FulfilmentInvariant, PTL DEF Fulfilment

\* A completed request is bought and received in full (complete, submit_warehouse).
THEOREM CompletionFulfils == Spec => []CompletionIsFulfilled
  BY FulfilmentInvariant, PTL DEF Fulfilment

-----------------------------------------------------------------------------
(* Custody.  A call either saves, which leaves the custody of the request    *)
(* and its history alone, or appends one entry to the log and hands over.    *)

Saves ==
  /\ db.status # "COMPLETED"
  /\ db'.version = db.version + 1
  /\ db'.status = db.status /\ db'.handler = db.handler /\ db'.applicant = db.applicant
  /\ db'.log = db.log /\ db'.outbox = db.outbox

\* The operations with the status each can end in.
Steps ==
  {<<"SUBMIT_REVIEW", "PENDING_REVIEW">>, <<"RESUBMIT_REVIEW", "PENDING_REVIEW">>,
   <<"REJECT", "REJECTED">>, <<"SUBMIT_PURCHASER", "PENDING_PURCHASE">>,
   <<"START_PURCHASE", "PURCHASING">>, <<"SUBMIT_WAREHOUSE", "PENDING_WAREHOUSE">>,
   <<"SUBMIT_WAREHOUSE", "COMPLETED">>, <<"COMPLETE", "COMPLETED">>}

\* Entry e records the step: who took it, from where to where.
Records(e) ==
  /\ e.token \notin UsedTokens(db)
  /\ db'.log = Append(db.log, e)
  /\ e.from = db.status /\ e.to = db'.status /\ e.assigned = db'.handler
  /\ e.by = IF db.status \in {"DRAFT", "REJECTED"} THEN db.applicant ELSE db.handler
  /\ db'.applicant = db.applicant /\ db'.version = db.version + 1
  /\ \/ e.action \in {"PURCHASE_ITEM", "APPEND_RECEIPT"} /\ db'.status = db.status
     \/ <<e.action, db'.status>> \in Steps /\ db.status = TransitionRules[e.action].from

\* The step stays where it is, or takes an edge of the flow to an employee who
\* can act there.
HandsOver ==
  \/ /\ db'.status = db.status /\ db'.handler = db.handler
     /\ db.status \in {"PURCHASING", "PENDING_WAREHOUSE"}
  \/ /\ <<db.status, db'.status>> \in Flow!Edges
     /\ db'.status = "PENDING_REVIEW" => ValidHandler(db'.handler, "BUILDING_MANAGER")
     /\ db'.status = "REJECTED" => db'.handler = db.applicant
     /\ db'.status = "PENDING_PURCHASE" => ValidHandler(db'.handler, "PURCHASER")
     /\ db'.status = "PURCHASING" => db'.handler = db.handler
     /\ db'.status = "PENDING_WAREHOUSE" => ValidHandler(db'.handler, "WAREHOUSE_MANAGER")
     /\ db'.status = "COMPLETED" => db'.handler = None

\* The outbox gets what entry e announces, and nothing else.
Publishes(e) ==
  \E p \in FirstPurchasers(db') : db'.outbox = db.outbox \cup Announced(db', e, p)

Logs == \E e \in LogEntry : Records(e) /\ HandsOver /\ Publishes(e)

\* An entry of the log has the fields it is made of.
LEMMA LoggedFields ==
  ASSUME NEW t \in Token, NEW u \in Employees, NEW from \in Statuses,
         NEW to \in Statuses, NEW assigned \in Employees \cup {None},
         NEW action \in Operations \cup {"PURCHASE_ITEM", "APPEND_RECEIPT"}
  PROVE  LET e == Logged(t, action, u, from, to, assigned) IN
         /\ e \in LogEntry
         /\ e.token = t /\ e.action = action /\ e.by = u
         /\ e.from = from /\ e.to = to /\ e.assigned = assigned
  BY DEF Logged, LogEntry

\* A transition is recorded by the employee who is in charge.
LEMMA TransitionRecords ==
  ASSUME TypeOK, NEW u \in Employees, NEW op \in Operations, NEW to \in Statuses,
         NEW next \in Employees \cup {None}, NEW t \in Token,
         CanTransition(db, u, op, to, next, t), <<op, to>> \in Steps,
         db'.status = to, db'.handler = next,
         db'.applicant = db.applicant, db'.version = db.version + 1,
         db'.log = Append(db.log, Logged(t, op, u, TransitionRules[op].from, to, next))
  PROVE  Records(Logged(t, op, u, TransitionRules[op].from, to, next))
<1>1. /\ db.status = TransitionRules[op].from
      /\ TransitionRules[op].from \in Statuses
      /\ u = IF db.status \in {"DRAFT", "REJECTED"} THEN db.applicant ELSE db.handler
  BY DEF CanTransition, ValidActor, Operations, TransitionRules, Statuses
<1>2. t \notin UsedTokens(db)
  BY DEF CanTransition, FreshToken
<1> DEFINE e == Logged(t, op, u, TransitionRules[op].from, to, next)
<1>3. /\ e.token = t /\ e.by = u /\ e.from = TransitionRules[op].from
      /\ e.action = op /\ e.to = to /\ e.assigned = next
  BY DEF Logged
<1> HIDE DEF e
<1>4. QED BY <1>1, <1>2, <1>3 DEF Records, e

\* Who the next handler of a transition is, and that it takes an edge.
LEMMA TransitionHandsOver ==
  ASSUME TypeOK, NEW u, NEW op, NEW to, NEW next, NEW t,
         CanTransition(db, u, op, to, next, t),
         db'.status = to, db'.handler = next,
         <<op, to>> \in Steps
  PROVE  HandsOver
<1>1. <<db.status, to>> \in Flow!Edges
  BY DEF CanTransition, TransitionRules, Flow!Edges, Steps
<1>2. /\ to = "PENDING_REVIEW" => ValidHandler(next, "BUILDING_MANAGER")
      /\ to = "REJECTED" => next = db.applicant
      /\ to = "PENDING_PURCHASE" => ValidHandler(next, "PURCHASER")
      /\ to = "PURCHASING" => next = db.handler
      /\ to = "PENDING_WAREHOUSE" => ValidHandler(next, "WAREHOUSE_MANAGER")
      /\ to = "COMPLETED" => next = None
  BY DEF CanTransition, TransitionRules, NextHandler, Steps
<1>3. QED BY <1>1, <1>2 DEF HandsOver

\* There is always somebody, or None, who bought first.
LEMMA SomebodyBoughtFirst ==
  ASSUME NEW d
  PROVE  \E p : p \in FirstPurchasers(d)
<1>1. CASE Present(d.executions) = {}
  BY <1>1 DEF FirstPurchasers
<1>2. CASE Present(d.executions) # {}
  <2>1. PICK i : i \in Present(d.executions)
    BY <1>2
  <2>2. d.executions[i].purchaser \in FirstPurchasers(d)
    BY <1>2, <2>1 DEF FirstPurchasers
  <2>3. QED BY <2>2
<1>3. QED BY <1>1, <1>2

\* What an entry announces that completes nothing depends on that entry alone.
LEMMA HandOverAnnounced ==
  ASSUME NEW d, NEW e, NEW p, e.to # "COMPLETED"
  PROVE  Announced(d, e, p) = {[event |-> event, token |-> e.token, to |-> receiver] :
            event \in EventsOf(e), receiver \in FeishuUsers \cap {e.assigned}}
  BY DEF Announced

\* A hand-over to an employee is announced to that employee.
LEMMA AssignmentPublishes ==
  ASSUME NEW e, NEW event, e.to # "COMPLETED", EventsOf(e) = {event},
         db'.outbox = db.outbox \cup AssignmentNotifications(event, e.token, e.assigned)
  PROVE  Publishes(e)
<1>1. PICK p : p \in FirstPurchasers(db')
  BY SomebodyBoughtFirst
<1>2. Announced(db', e, p) = AssignmentNotifications(event, e.token, e.assigned)
  BY HandOverAnnounced DEF AssignmentNotifications
<1>3. QED BY <1>1, <1>2 DEF Publishes

\* A completion is announced to the applicant, the last reviewer and a purchaser.
LEMMA CompletionPublishes ==
  ASSUME NEW e, NEW p \in FirstPurchasers(db), e.to = "COMPLETED",
         EventsOf(e) = {"PROCUREMENT_COMPLETED"},
         db'.applicant = db.applicant, db'.reviews = db.reviews, db'.executions = db.executions,
         db'.outbox = db.outbox \cup CompletionNotifications(db, p, e.token)
  PROVE  Publishes(e)
<1>1. p \in FirstPurchasers(db') /\ LastReviewer(db') = LastReviewer(db)
  BY DEF FirstPurchasers, LastReviewer
<1>2. Announced(db', e, p) =
        {[event |-> event, token |-> e.token, to |-> receiver] :
           event \in EventsOf(e),
           receiver \in FeishuUsers \cap {db.applicant, LastReviewer(db), p}}
  BY <1>1 DEF Announced
<1>3. Announced(db', e, p) = CompletionNotifications(db, p, e.token)
  BY <1>2 DEF CompletionNotifications
<1>4. QED BY <1>1, <1>3 DEF Publishes

LEMMA SilentPublishes ==
  ASSUME NEW e, EventsOf(e) = {}, db'.outbox = db.outbox
  PROVE  Publishes(e)
<1>1. PICK p : p \in FirstPurchasers(db')
  BY SomebodyBoughtFirst
<1>2. Announced(db', e, p) = {}
  BY DEF Announced
<1>3. QED BY <1>1, <1>2 DEF Publishes

\* What each handler does to the custody.
LEMMA ApplicantCustody ==
  ASSUME TypeOK, NEW u \in Employees, HandleApplicant(db, u, Token)
  PROVE  Saves \/ Logs
<1>1. ASSUME NEW payload, ReplaceRequestItems(db, u, payload)
      PROVE  Saves
  BY <1>1 DEF ReplaceRequestItems, Saves, TypeOK, Rows
<1>2. ASSUME NEW supplied, NEW name, NEW qty, SaveApplicantFields(db, u, supplied, name, qty)
      PROVE  Saves
  BY <1>2 DEF SaveApplicantFields, ApplicantCanEdit, ManagerCanEdit, Saves, TypeOK, Rows
<1>3. ASSUME NEW op \in {"SUBMIT_REVIEW", "RESUBMIT_REVIEW"}, NEW next \in Employees,
             NEW t \in Token, SubmitReview(db, u, op, next, t)
      PROVE  Logs
  <2> DEFINE d == Transitioned(db, u, op, "PENDING_REVIEW", next, t)
             outbox == d.outbox \cup AssignmentNotifications("REQUIREMENT_PENDING_REVIEW", t, next)
             e == Logged(t, op, u, TransitionRules[op].from, "PENDING_REVIEW", next)
  <2>1. op \in Operations /\ "PENDING_REVIEW" \in Statuses /\ TransitionRules[op].from \in Statuses
    BY DEF Operations, TransitionRules, Statuses
  <2>2. d.outbox = db.outbox
    BY <2>1, TransitionTyped
  <2>3. db' = [d EXCEPT !.outbox = outbox] /\ CanTransition(db, u, op, "PENDING_REVIEW", next, t)
    BY <1>3 DEF SubmitReview
  <2> HIDE DEF outbox
  <2>4. /\ db'.status = "PENDING_REVIEW" /\ db'.handler = next /\ db'.applicant = db.applicant
        /\ db'.version = db.version + 1 /\ db'.log = Append(db.log, e) /\ db'.outbox = outbox
    BY <2>3 DEF Transitioned, TypeOK, Rows
  <2>5. Records(e) /\ HandsOver
    BY <2>1, <2>3, <2>4, TransitionRecords, TransitionHandsOver DEF Steps
  <2>6. e \in LogEntry /\ e.token = t /\ e.assigned = next
        /\ e.action = op /\ e.to = "PENDING_REVIEW"
    BY <2>1, LoggedFields
  <2> HIDE DEF e
  <2>7. EventsOf(e) = {"REQUIREMENT_PENDING_REVIEW"}
    BY <2>6 DEF EventsOf
  <2>8. Publishes(e)
    BY <2>2, <2>4, <2>6, <2>7, AssignmentPublishes DEF outbox
  <2>9. QED BY <2>5, <2>6, <2>8 DEF Logs
<1>4. QED BY <1>1, <1>2, <1>3, TokensTyped DEF HandleApplicant

LEMMA ManagerCustody ==
  ASSUME TypeOK, NEW u \in Employees, HandleManager(db, u, Token)
  PROVE  Saves \/ Logs
<1>1. ASSUME NEW suggested, NEW priced, SaveReviewItems(db, u, suggested, priced)
      PROVE  Saves
  BY <1>1 DEF SaveReviewItems, Saves, TypeOK, Rows
<1>2. ASSUME NEW price, NEW proposal, SaveReviewFields(db, u, price, proposal)
      PROVE  Saves
  BY <1>2 DEF SaveReviewFields, Saves, TypeOK, Rows
<1>3. ASSUME NEW next \in Employees, NEW t \in Token, Reject(db, u, next, t)
      PROVE  Logs
  <2> DEFINE d == Transitioned(db, u, "REJECT", "REJECTED", next, t)
             reviews == DecidedReviews(db, u, "REJECTED")
             e == Logged(t, "REJECT", u, TransitionRules["REJECT"].from, "REJECTED", next)
  <2>1. "REJECT" \in Operations /\ "REJECTED" \in Statuses /\ TransitionRules["REJECT"].from \in Statuses
    BY DEF Operations, TransitionRules, Statuses
  <2>2. db' = [d EXCEPT !.reviews = reviews] /\ CanTransition(db, u, "REJECT", "REJECTED", next, t)
    BY <1>3 DEF Reject
  <2> HIDE DEF reviews
  <2>3. /\ db'.status = "REJECTED" /\ db'.handler = next /\ db'.applicant = db.applicant
        /\ db'.version = db.version + 1 /\ db'.log = Append(db.log, e) /\ db'.outbox = db.outbox
    BY <2>2 DEF Transitioned, TypeOK, Rows
  <2>4. Records(e) /\ HandsOver
    BY <2>1, <2>2, <2>3, TransitionRecords, TransitionHandsOver DEF Steps
  <2>5. e \in LogEntry /\ e.action = "REJECT" /\ e.to = "REJECTED"
    BY <2>1, LoggedFields
  <2> HIDE DEF e
  <2>6. EventsOf(e) = {}
    BY <2>5 DEF EventsOf
  <2>7. QED BY <2>3, <2>4, <2>5, <2>6, SilentPublishes DEF Logs
<1>4. ASSUME NEW next \in Employees, NEW t \in Token, SubmitPurchaser(db, u, next, t)
      PROVE  Logs
  <2> DEFINE op == "SUBMIT_PURCHASER"
             d == Transitioned(db, u, op, "PENDING_PURCHASE", next, t)
             reviews == DecidedReviews(db, u, "APPROVED")
             outbox == d.outbox \cup AssignmentNotifications("REQUIREMENT_PENDING_PURCHASE", t, next)
             e == Logged(t, op, u, TransitionRules[op].from, "PENDING_PURCHASE", next)
  <2>1. op \in Operations /\ "PENDING_PURCHASE" \in Statuses /\ TransitionRules[op].from \in Statuses
    BY DEF Operations, TransitionRules, Statuses
  <2>2. d.outbox = db.outbox
    BY <2>1, TransitionTyped
  <2>3. db' = [d EXCEPT !.reviews = reviews, !.outbox = outbox] /\ CanTransition(db, u, op, "PENDING_PURCHASE", next, t)
    BY <1>4 DEF SubmitPurchaser
  <2> HIDE DEF outbox, reviews
  <2>4. /\ db'.status = "PENDING_PURCHASE" /\ db'.handler = next /\ db'.applicant = db.applicant
        /\ db'.version = db.version + 1 /\ db'.log = Append(db.log, e) /\ db'.outbox = outbox
    BY <2>3 DEF Transitioned, TypeOK, Rows
  <2>5. Records(e) /\ HandsOver
    BY <2>1, <2>3, <2>4, TransitionRecords, TransitionHandsOver DEF Steps
  <2>6. e \in LogEntry /\ e.token = t /\ e.assigned = next /\ e.action = op /\ e.to = "PENDING_PURCHASE"
    BY <2>1, LoggedFields
  <2> HIDE DEF e
  <2>7. EventsOf(e) = {"REQUIREMENT_PENDING_PURCHASE"}
    BY <2>6 DEF EventsOf
  <2>8. Publishes(e)
    BY <2>2, <2>4, <2>6, <2>7, AssignmentPublishes DEF outbox
  <2>9. QED BY <2>5, <2>6, <2>8 DEF Logs
<1>5. QED BY <1>1, <1>2, <1>3, <1>4, TokensTyped DEF HandleManager

LEMMA PurchaserCustody ==
  ASSUME TypeOK, NEW u \in Employees, HandlePurchaser(db, u, Token)
  PROVE  Saves \/ Logs
<1>1. ASSUME NEW next \in Employees, NEW t \in Token, StartPurchase(db, u, next, t)
      PROVE  Logs
  <2> DEFINE op == "START_PURCHASE"
             e == Logged(t, op, u, TransitionRules[op].from, "PURCHASING", next)
  <2>1. op \in Operations /\ "PURCHASING" \in Statuses /\ TransitionRules[op].from \in Statuses
    BY DEF Operations, TransitionRules, Statuses
  <2>2. /\ db' = Transitioned(db, u, op, "PURCHASING", next, t)
        /\ CanTransition(db, u, op, "PURCHASING", next, t)
    BY <1>1 DEF StartPurchase
  <2>3. /\ db'.status = "PURCHASING" /\ db'.handler = next /\ db'.applicant = db.applicant
        /\ db'.version = db.version + 1 /\ db'.log = Append(db.log, e) /\ db'.outbox = db.outbox
    BY <2>2 DEF Transitioned, TypeOK, Rows
  <2>4. Records(e) /\ HandsOver
    BY <2>1, <2>2, <2>3, TransitionRecords, TransitionHandsOver DEF Steps
  <2>5. e \in LogEntry /\ e.action = op /\ e.to = "PURCHASING"
    BY <2>1, LoggedFields
  <2> HIDE DEF e
  <2>6. EventsOf(e) = {}
    BY <2>5 DEF EventsOf
  <2>7. QED BY <2>3, <2>4, <2>5, <2>6, SilentPublishes DEF Logs
<1>2. ASSUME NEW i, NEW byName, SavePurchaseFields(db, u, i, byName)
      PROVE  Saves
  BY <1>2 DEF SavePurchaseFields, RecordPurchase, Saves, TypeOK, Rows
<1>3. ASSUME NEW i, NEW byName, NEW t \in Token, SavePurchaseItem(db, u, i, byName, t)
      PROVE  Logs
  <2> DEFINE e == Logged(t, "PURCHASE_ITEM", u, db.status, db.status, u)
             log == Append(db.log, e)
  <2>1. RecordPurchase(db, u, i, byName, log) /\ FreshToken(db, t)
    BY <1>3 DEF SavePurchaseItem
  <2> HIDE DEF log
  <2>2. /\ db.status = "PURCHASING" /\ db.handler = u /\ db'.status = db.status
        /\ db'.handler = db.handler /\ db'.applicant = db.applicant
        /\ db'.version = db.version + 1 /\ db'.log = log /\ db'.outbox = db.outbox
    BY <2>1 DEF RecordPurchase, RequireCurrentHandler, TypeOK, Rows
  <2>3. /\ e \in LogEntry /\ e.token = t /\ e.by = u /\ e.from = db.status /\ e.to = db.status
        /\ e.assigned = u /\ e.action = "PURCHASE_ITEM"
    BY LoggedFields, RowFields DEF TypeOK
  <2> HIDE DEF e
  <2>4. Records(e) /\ HandsOver
    BY <2>1, <2>2, <2>3 DEF Records, HandsOver, FreshToken, log
  <2>5. EventsOf(e) = {}
    BY <2>2, <2>3 DEF EventsOf
  <2>6. QED BY <2>2, <2>3, <2>4, <2>5, SilentPublishes DEF Logs
<1>4. ASSUME NEW next \in Employees \cup {None}, NEW t \in Token, SubmitWarehouse(db, u, next, t)
      PROVE  Logs
  <2> DEFINE op == "SUBMIT_WAREHOUSE"
             d(to) == Transitioned(db, u, op, to, next, t)
             e(to) == Logged(t, op, u, TransitionRules[op].from, to, next)
             new(to, p) == IF to = "COMPLETED" THEN CompletionNotifications(db, p, t)
                           ELSE AssignmentNotifications("REQUIREMENT_PENDING_WAREHOUSE", t, next)
  <2>1. PICK to \in {"PENDING_WAREHOUSE", "COMPLETED"}, p \in FirstPurchasers(db) \cup {None} :
          /\ CanTransition(db, u, op, to, next, t)
          /\ db' = [d(to) EXCEPT !.outbox = @ \cup new(to, p)]
          /\ to = "COMPLETED" => p \in FirstPurchasers(db)
    BY <1>4 DEF SubmitWarehouse
  <2>2. op \in Operations /\ to \in Statuses /\ TransitionRules[op].from \in Statuses
    BY <2>1 DEF Operations, TransitionRules, Statuses
  <2>3. d(to).outbox = db.outbox
    BY <2>2, TransitionTyped
  <2> DEFINE outbox == d(to).outbox \cup new(to, p)
  <2>4. db' = [d(to) EXCEPT !.outbox = outbox]
    BY <2>1
  <2> HIDE DEF outbox
  <2>5. /\ db'.status = to /\ db'.handler = next /\ db'.applicant = db.applicant
        /\ db'.version = db.version + 1 /\ db'.log = Append(db.log, e(to)) /\ db'.outbox = outbox
        /\ db'.reviews = db.reviews /\ db'.executions = db.executions
    BY <2>4 DEF Transitioned, TypeOK, Rows
  <2>6. Records(e(to)) /\ HandsOver
    BY <2>1, <2>2, <2>5, TransitionRecords, TransitionHandsOver DEF Steps
  <2>7. /\ e(to) \in LogEntry /\ e(to).token = t /\ e(to).assigned = next
        /\ e(to).action = op /\ e(to).to = to
    BY <2>2 DEF Logged, LogEntry
  <2> HIDE DEF e
  <2>8. CASE to = "PENDING_WAREHOUSE"
    <3>1. EventsOf(e(to)) = {"REQUIREMENT_PENDING_WAREHOUSE"}
      BY <2>7, <2>8 DEF EventsOf
    <3>2. Publishes(e(to))
      BY <2>3, <2>5, <2>7, <2>8, <3>1, AssignmentPublishes DEF outbox
    <3>3. QED BY <2>6, <2>7, <3>2 DEF Logs
  <2>9. CASE to = "COMPLETED"
    <3>1. EventsOf(e(to)) = {"PROCUREMENT_COMPLETED"}
      BY <2>7, <2>9 DEF EventsOf
    <3>2. Publishes(e(to))
      BY <2>1, <2>3, <2>5, <2>7, <2>9, <3>1, CompletionPublishes DEF outbox
    <3>3. QED BY <2>6, <2>7, <3>2 DEF Logs
  <2>10. QED BY <2>1, <2>8, <2>9
<1>5. QED BY <1>1, <1>2, <1>3, <1>4, TokensTyped DEF HandlePurchaser

LEMMA WarehouseCustody ==
  ASSUME TypeOK, NEW u \in Employees, HandleWarehouse(db, u, Token)
  PROVE  Saves \/ Logs
<1>1. ASSUME NEW i, NEW q, NEW t \in Token, AppendReceipt(db, u, i, q, t)
      PROVE  Logs
  <2> DEFINE e == Logged(t, "APPEND_RECEIPT", u, db.status, db.status, u)
             log == Append(db.log, e)
  <2>1. /\ db.status = "PENDING_WAREHOUSE" /\ db.handler = u /\ db'.status = db.status
        /\ db'.handler = db.handler /\ db'.applicant = db.applicant
        /\ db'.version = db.version + 1 /\ db'.log = log /\ db'.outbox = db.outbox
    BY <1>1 DEF AppendReceipt, RequireCurrentHandler, TypeOK, Rows
  <2>2. t \notin UsedTokens(db)
    BY <1>1 DEF AppendReceipt, FreshToken
  <2>3. /\ e \in LogEntry /\ e.token = t /\ e.by = u /\ e.from = db.status /\ e.to = db.status
        /\ e.assigned = u /\ e.action = "APPEND_RECEIPT"
    BY LoggedFields, RowFields DEF TypeOK
  <2> HIDE DEF e
  <2>4. Records(e) /\ HandsOver
    BY <2>1, <2>2, <2>3 DEF Records, HandsOver
  <2>5. EventsOf(e) = {}
    BY <2>1, <2>3 DEF EventsOf
  <2>6. QED BY <2>1, <2>3, <2>4, <2>5, SilentPublishes DEF Logs
<1>2. ASSUME NEW t \in Token, Complete(db, u, None, t)
      PROVE  Logs
  <2> DEFINE op == "COMPLETE"
             d == Transitioned(db, u, op, "COMPLETED", None, t)
             e == Logged(t, op, u, TransitionRules[op].from, "COMPLETED", None)
  <2>1. PICK p \in FirstPurchasers(db) :
          /\ CanTransition(db, u, op, "COMPLETED", None, t)
          /\ db' = [d EXCEPT !.outbox = @ \cup CompletionNotifications(db, p, t)]
    BY <1>2 DEF Complete
  <2>2. op \in Operations /\ "COMPLETED" \in Statuses /\ TransitionRules[op].from \in Statuses
    BY DEF Operations, TransitionRules, Statuses
  <2>3. d.outbox = db.outbox
    BY <2>2, TransitionTyped
  <2> DEFINE outbox == d.outbox \cup CompletionNotifications(db, p, t)
  <2>4. db' = [d EXCEPT !.outbox = outbox]
    BY <2>1
  <2> HIDE DEF outbox
  <2>5. /\ db'.status = "COMPLETED" /\ db'.handler = None /\ db'.applicant = db.applicant
        /\ db'.version = db.version + 1 /\ db'.log = Append(db.log, e) /\ db'.outbox = outbox
        /\ db'.reviews = db.reviews /\ db'.executions = db.executions
    BY <2>4 DEF Transitioned, TypeOK, Rows
  <2>6. Records(e) /\ HandsOver
    BY <2>1, <2>2, <2>5, TransitionRecords, TransitionHandsOver DEF Steps
  <2>7. e \in LogEntry /\ e.token = t /\ e.action = op /\ e.to = "COMPLETED"
    BY <2>2, LoggedFields
  <2> HIDE DEF e
  <2>8. EventsOf(e) = {"PROCUREMENT_COMPLETED"}
    BY <2>7 DEF EventsOf
  <2>9. Publishes(e)
    BY <2>1, <2>3, <2>5, <2>7, <2>8, CompletionPublishes DEF outbox
  <2>10. QED BY <2>6, <2>7, <2>9 DEF Logs
<1>3. QED BY <1>1, <1>2, TokensTyped DEF HandleWarehouse, SaveWarehouseFields

\* Every call saves or logs.
LEMMA HandleCustody ==
  ASSUME TypeOK, NEW u \in Employees, Handle(db, u, Token)
  PROVE  Saves \/ Logs
  BY ApplicantCustody, ManagerCustody, PurchaserCustody, WarehouseCustody DEF Handle

-----------------------------------------------------------------------------
(* The custody chain.  Each of the invariants follows from the custody of    *)
(* one step; the chain needs to know that before a review the handler is the *)
(* applicant, which the role check of those steps compares with.             *)

LEMMA HandlerInductive ==
  ASSUME TypeOK, HandlerFitsStatus, Saves \/ Logs
  PROVE  HandlerFitsStatus'
<1>1. CASE Saves
  BY <1>1 DEF Saves, HandlerFitsStatus, ValidHandler
<1>2. CASE Logs
  BY <1>2 DEF Logs, Records, HandsOver, HandlerFitsStatus, ValidHandler, Flow!Edges
<1>3. QED BY <1>1, <1>2

LEMMA ChainInductive ==
  ASSUME TypeOK, HandlerFitsStatus, LogIsCustodyChain, Saves \/ Logs
  PROVE  LogIsCustodyChain'
<1>1. CASE Saves
  BY <1>1 DEF Saves, LogIsCustodyChain
<1>2. ASSUME NEW e \in LogEntry, Records(e)
      PROVE  LogIsCustodyChain'
  <2> DEFINE last == Len(db.log)
  <2>1. last \in Nat /\ db.log \in Seq(LogEntry)
    BY RowFields DEF TypeOK
  <2>2. db'.log = Append(db.log, e)
    BY <1>2 DEF Records
  <2>3. /\ Len(db'.log) = last + 1 /\ db'.log[last + 1] = e
        /\ \A n \in 1..last : db'.log[n] = db.log[n]
    BY <2>1, <2>2
  <2>4. e.by = db.handler
    BY <1>2 DEF Records, HandlerFitsStatus
  <2>5. \A n \in 1..last : e.token # db.log[n].token
    BY <1>2 DEF Records, UsedTokens
  <2>6. /\ \A m, n \in 1..last : db.log[m].token = db.log[n].token => m = n
        /\ \A n \in 1..last :
             /\ db.log[n].from = IF n = 1 THEN "DRAFT" ELSE db.log[n - 1].to
             /\ db.log[n].by = IF n = 1 THEN db.applicant ELSE db.log[n - 1].assigned
        /\ db.status = IF last = 0 THEN "DRAFT" ELSE db.log[last].to
        /\ db.handler = IF last = 0 THEN db.applicant ELSE db.log[last].assigned
    BY DEF LogIsCustodyChain
  <2>7. /\ e.from = db.status /\ e.to = db'.status /\ e.assigned = db'.handler
        /\ db'.applicant = db.applicant
    BY <1>2 DEF Records
  <2> DEFINE log == db'.log
  <2> HIDE DEF last, log
  <2>8. \A m, n \in 1..(last + 1) : log[m].token = log[n].token => m = n
    <3>1. ASSUME NEW m \in 1..(last + 1), NEW n \in 1..(last + 1), log[m].token = log[n].token
          PROVE  m = n
      <4>1. CASE m \in 1..last /\ n \in 1..last
        BY <2>3, <2>6, <3>1, <4>1 DEF log
      <4>2. CASE m = last + 1 \/ n = last + 1
        BY <2>1, <2>3, <2>5, <3>1, <4>2 DEF log
      <4>3. QED BY <2>1, <4>1, <4>2
    <3>2. QED BY <3>1
  <2>9. ASSUME NEW n \in 1..(last + 1)
        PROVE  /\ log[n].from = IF n = 1 THEN "DRAFT" ELSE log[n - 1].to
               /\ log[n].by = IF n = 1 THEN db'.applicant ELSE log[n - 1].assigned
    <3>1. CASE n \in 1..last
      <4>1. n # 1 => n - 1 \in 1..last
        BY <2>1, <3>1
      <4>2. QED BY <2>3, <2>6, <2>7, <3>1, <4>1 DEF log
    <3>2. CASE n = last + 1
      <4>1. n # 1 => last \in 1..last
        BY <2>1, <3>2
      <4>2. QED BY <2>1, <2>3, <2>4, <2>6, <2>7, <3>2, <4>1 DEF log
    <3>3. QED BY <2>1, <3>1, <3>2
  <2>10. db'.status = log[last + 1].to /\ db'.handler = log[last + 1].assigned
    BY <2>3, <2>7 DEF log
  <2>11. Len(log) = last + 1
    BY <2>3 DEF log
  <2>12. last + 1 # 0
    BY <2>1
  <2>13. QED BY <2>8, <2>9, <2>10, <2>11, <2>12 DEF LogIsCustodyChain, log
<1>3. QED BY <1>1, <1>2 DEF Logs

\* Nothing follows a completion: until the request is completed, no entry of its
\* log completed it.
CompletionEndsLog ==
  db.status # "COMPLETED" => \A n \in 1..Len(db.log) : db.log[n].to # "COMPLETED"

LEMMA CompletionEndsLogInductive ==
  ASSUME TypeOK, CompletionEndsLog, Saves \/ Logs
  PROVE  CompletionEndsLog' /\ db.status # "COMPLETED"
<1>1. CASE Saves
  BY <1>1 DEF Saves, CompletionEndsLog
<1>2. ASSUME NEW e \in LogEntry, Records(e), HandsOver
      PROVE  CompletionEndsLog' /\ db.status # "COMPLETED"
  <2>1. db.status # "COMPLETED"
    BY <1>2 DEF HandsOver, Flow!Edges
  <2>2. db.log \in Seq(LogEntry) /\ db'.log = Append(db.log, e) /\ e.to = db'.status
    BY <1>2, RowFields DEF TypeOK, Records
  <2>3. ASSUME NEW n \in 1..Len(db'.log), db'.status # "COMPLETED"
        PROVE  db'.log[n].to # "COMPLETED"
    <3>1. CASE n \in 1..Len(db.log)
      BY <2>1, <2>2, <3>1 DEF CompletionEndsLog
    <3>2. CASE n = Len(db.log) + 1
      BY <2>2, <2>3, <3>2
    <3>3. QED BY <2>2, <3>1, <3>2
  <2>4. QED BY <2>1, <2>3 DEF CompletionEndsLog
<1>3. QED BY <1>1, <1>2 DEF Logs

\* What a log announces on the rows d.
AnnouncedBy(d, log, p) == UNION {Announced(d, log[n], p) : n \in 1..Len(log)}

\* It is the same on all rows as long as the log completes nothing.
LEMMA LogAnnounced ==
  ASSUME NEW c, NEW d, NEW p, NEW q, NEW log,
         \A n \in 1..Len(log) : log[n].to # "COMPLETED"
  PROVE  AnnouncedBy(c, log, p) = AnnouncedBy(d, log, q)
<1> DEFINE A(n) == Announced(c, log[n], p)
           B(n) == Announced(d, log[n], q)
<1>1. ASSUME NEW n \in 1..Len(log) PROVE A(n) = B(n)
  <2> DEFINE entry == log[n]
  <2> HIDE DEF entry
  <2>1. entry.to # "COMPLETED"
    BY DEF entry
  <2>2. Announced(c, entry, p) = Announced(d, entry, q)
    BY <2>1 DEF Announced
  <2>3. QED BY <2>2 DEF entry
<1> HIDE DEF A, B
<1>2. UNION {A(n) : n \in 1..Len(log)} = UNION {B(n) : n \in 1..Len(log)}
  BY <1>1
<1>3. QED BY <1>2 DEF A, B, AnnouncedBy

\* An entry that is appended adds what it announces.
LEMMA AppendAnnounced ==
  ASSUME NEW d, NEW q, NEW log \in Seq(LogEntry), NEW e \in LogEntry
  PROVE  AnnouncedBy(d, Append(log, e), q) = AnnouncedBy(d, log, q) \cup Announced(d, e, q)
<1> DEFINE A(entry) == Announced(d, entry, q)
           longer == Append(log, e)
           last == Len(log)
<1>1. /\ last \in Nat /\ Len(longer) = last + 1 /\ longer[last + 1] = e
      /\ \A n \in 1..last : longer[n] = log[n]
  OBVIOUS
<1> HIDE DEF A, longer, last
<1>2. 1..(last + 1) = 1..last \cup {last + 1}
  BY <1>1
<1>3. ASSUME NEW x
      PROVE  x \in UNION {A(longer[n]) : n \in 1..(last + 1)}
               <=> x \in (UNION {A(log[n]) : n \in 1..last}) \cup A(e)
  <2>1. x \in UNION {A(longer[n]) : n \in 1..(last + 1)}
          <=> \E n \in 1..(last + 1) : x \in A(longer[n])
    OBVIOUS
  <2>2. x \in UNION {A(log[n]) : n \in 1..last} <=> \E n \in 1..last : x \in A(log[n])
    OBVIOUS
  <2>3. (\E n \in 1..(last + 1) : x \in A(longer[n]))
          <=> (\E n \in 1..last : x \in A(log[n])) \/ x \in A(e)
    BY <1>1, <1>2
  <2>4. QED BY <2>1, <2>2, <2>3
<1>4. UNION {A(longer[n]) : n \in 1..(last + 1)} = (UNION {A(log[n]) : n \in 1..last}) \cup A(e)
  BY <1>3
<1>5. AnnouncedBy(d, longer, q) = UNION {A(longer[n]) : n \in 1..(last + 1)}
  BY <1>1 DEF AnnouncedBy, A
<1>6. AnnouncedBy(d, log, q) = UNION {A(log[n]) : n \in 1..last}
  BY DEF AnnouncedBy, A, last
<1>7. QED BY <1>4, <1>5, <1>6 DEF A, longer

LEMMA OutboxInductive ==
  ASSUME TypeOK, CompletionEndsLog, OutboxMatchesLog, Saves \/ Logs
  PROVE  OutboxMatchesLog'
<1> DEFINE d == db'
<1>1. \A n \in 1..Len(db.log) : db.log[n].to # "COMPLETED"
  BY CompletionEndsLogInductive DEF CompletionEndsLog
<1>2. PICK p \in FirstPurchasers(db) : db.outbox = AnnouncedBy(db, db.log, p)
  BY DEF OutboxMatchesLog, AnnouncedBy
<1>3. \A q : db.outbox = AnnouncedBy(d, db.log, q)
  BY <1>1, <1>2, LogAnnounced
<1>4. (\E q \in FirstPurchasers(d) : d.outbox = AnnouncedBy(d, d.log, q)) => OutboxMatchesLog'
  BY DEF OutboxMatchesLog, AnnouncedBy
<1>5. CASE Saves
  <2>1. d.log = db.log /\ d.outbox = db.outbox
    BY <1>5 DEF Saves
  <2>2. PICK q : q \in FirstPurchasers(d)
    BY SomebodyBoughtFirst
  <2> HIDE DEF d
  <2>3. QED BY <1>3, <1>4, <2>1, <2>2
<1>6. ASSUME NEW e \in LogEntry, Records(e), Publishes(e)
      PROVE  OutboxMatchesLog'
  <2>1. PICK q \in FirstPurchasers(d) : d.outbox = db.outbox \cup Announced(d, e, q)
    BY <1>6 DEF Publishes
  <2>2. db.log \in Seq(LogEntry) /\ d.log = Append(db.log, e)
    BY <1>6, RowFields DEF TypeOK, Records
  <2> HIDE DEF d
  <2>3. d.outbox = AnnouncedBy(d, d.log, q)
    BY <1>3, <2>1, <2>2, AppendAnnounced
  <2>4. QED BY <1>4, <2>1, <2>3
<1>7. QED BY <1>5, <1>6 DEF Logs

Custody ==
  TypeOK /\ HandlerFitsStatus /\ LogIsCustodyChain /\ CompletionEndsLog /\ OutboxMatchesLog

LEMMA InitCustody == Init => Custody
<1> SUFFICES ASSUME Init PROVE Custody
  OBVIOUS
<1>1. /\ db.status = "DRAFT" /\ db.handler = db.applicant /\ "APPLICANT" \in RolesOf[db.applicant]
      /\ db.log = << >> /\ db.outbox = {}
  BY DEF Init
<1>2. OutboxMatchesLog
  <2>1. PICK p : p \in FirstPurchasers(db)
    BY SomebodyBoughtFirst
  <2>2. db.outbox = UNION {Announced(db, db.log[n], p) : n \in 1..Len(db.log)}
    BY <1>1
  <2>3. QED BY <2>1, <2>2 DEF OutboxMatchesLog
<1>3. QED BY <1>1, <1>2, InitTyped
          DEF Custody, HandlerFitsStatus, LogIsCustodyChain, CompletionEndsLog

LEMMA CustodyStep ==
  ASSUME Custody, NEW u \in Employees, Handle(db, u, Token)
  PROVE  Custody'
<1>1. TypeOK'
  BY HandleTyped DEF Custody
<1>2. Saves \/ Logs
  BY HandleCustody DEF Custody
<1>3. QED BY <1>1, <1>2, HandlerInductive, ChainInductive, CompletionEndsLogInductive,
          OutboxInductive DEF Custody

LEMMA CustodyInductive == Custody /\ [Next]_vars => Custody'
<1> SUFFICES ASSUME Custody, [Next]_vars PROVE Custody'
  OBVIOUS
<1> USE DEF Custody
<1>1. CASE UNCHANGED vars
  BY <1>1 DEF vars, TypeOK, HandlerFitsStatus, LogIsCustodyChain, CompletionEndsLog,
     OutboxMatchesLog, ValidHandler
<1>2. QED BY <1>1, CustodyStep, NextHandles

LEMMA CustodyInvariant == Spec => []Custody
  BY InitCustody, CustodyInductive, PTL DEF Spec

\* The request is always with somebody who can act on it (_resolve_next_handler).
THEOREM HandlerFits == Spec => []HandlerFitsStatus
  BY CustodyInvariant, PTL DEF Custody

\* The operation log is an unbroken chain of hand-overs with unique tokens
\* (purchase_operation_log, written in the transaction of the change).
THEOREM CustodyChain == Spec => []LogIsCustodyChain
  BY CustodyInvariant, PTL DEF Custody

\* The outbox holds exactly what the log announces: the hand-overs to a manager, a
\* purchaser or the warehouse, each to the employee it assigns, and the completion,
\* to the applicant, the last reviewer and a purchaser; none of a rejection
\* (_create_assignment_notification, _create_completion_notifications).
THEOREM OutboxMatches == Spec => []OutboxMatchesLog
  BY CustodyInvariant, PTL DEF Custody

-----------------------------------------------------------------------------
(* The promise to the Agent *)

LEMMA StepKeepsFlow ==
  ASSUME Custody, Saves \/ Logs
  PROVE  Flow!FlowNext
<1>1. CASE Saves
  BY <1>1 DEF Saves, Flow!FlowNext, Flow!Save
<1>2. CASE Logs
  <2>1. db'.version = db.version + 1 /\ HandsOver
    BY <1>2 DEF Logs, Records
  <2>2. CASE db'.status = db.status /\ db'.handler = db.handler /\ db.status \in {"PURCHASING", "PENDING_WAREHOUSE"}
    BY <2>1, <2>2 DEF Flow!FlowNext, Flow!Save
  <2>3. CASE <<db.status, db'.status>> \in Flow!Edges
    <3>1. \A e : ValidHandler(e, "BUILDING_MANAGER") \/ ValidHandler(e, "PURCHASER") \/ ValidHandler(e, "WAREHOUSE_MANAGER")
            => e # None
      BY ConstantsAssumption, NoneAssumption DEF ValidHandler
    <3>2. db'.status \in Flow!Held => db'.handler # None
      BY <2>1, <2>3, <3>1 DEF HandsOver, Flow!Held, Flow!Edges, Custody, HandlerFitsStatus
    <3>3. QED BY <2>1, <2>3, <3>2 DEF HandsOver, Flow!FlowNext, Flow!Move, Flow!Edges
  <2>4. QED BY <2>1, <2>2, <2>3 DEF HandsOver
<1>3. QED BY <1>1, <1>2

\* The workflow keeps the promise the Agent is written against: it implements
\* RequirementFlow (every handler of procurement.py and workflow.py).
THEOREM WorkflowKeepsFlow == Spec => KeepsFlow
<1>1. Init => Flow!FlowInit
  BY DEF Init, Flow!FlowInit
<1>2. Custody /\ [Next]_vars => [Flow!FlowNext]_<<db.status, db.version, db.handler>>
  <2> SUFFICES ASSUME Custody, [Next]_vars
               PROVE  [Flow!FlowNext]_<<db.status, db.version, db.handler>>
    OBVIOUS
  <2>1. CASE UNCHANGED vars
    BY <2>1 DEF vars
  <2>2. ASSUME NEW u \in Employees, Handle(db, u, Token)
        PROVE  Flow!FlowNext
    BY <2>2, HandleCustody, StepKeepsFlow DEF Custody
  <2>3. QED BY <2>1, <2>2, NextHandles DEF Custody
<1>3. QED BY <1>1, <1>2, CustodyInvariant, PTL DEF Spec, KeepsFlow, Flow!FlowSpec

-----------------------------------------------------------------------------
(* The approved scope *)

\* The reviews stay, but for the supplier that a purchase fills in.
ReviewsKept ==
  /\ Len(db'.reviews) = Len(db.reviews)
  /\ \A n \in 1..Len(db.reviews) : db'.reviews[n] = db.reviews[n] \/ SupplierFilledIn(n)

\* What a step may do to the items, the reviews, the header and the executions
\* once the request is approved.
ScopeKept ==
  /\ db'.items = db.items /\ db'.form = db.form /\ ReviewsKept
  /\ \A i \in Present(db.executions) :
       /\ db'.executions[i] # None
       /\ db'.executions[i].qty = db.executions[i].qty
       /\ db'.executions[i].purchaser = db.executions[i].purchaser

LEMMA TransitionKeepsScope ==
  ASSUME TypeOK, NEW u, NEW op, NEW to, NEW next, NEW t, NEW outbox,
         \/ db' = Transitioned(db, u, op, to, next, t)
         \/ db' = [Transitioned(db, u, op, to, next, t) EXCEPT !.outbox = outbox]
  PROVE  ScopeKept
<1>1. /\ db'.items = db.items /\ db'.reviews = db.reviews /\ db'.form = db.form
      /\ db'.executions = db.executions
  BY DEF Transitioned, TypeOK, Rows
<1>2. QED BY <1>1 DEF ScopeKept, ReviewsKept, Present

LEMMA PurchaseKeepsScope ==
  ASSUME TypeOK, NEW u, NEW i \in Items, NEW byName, NEW log,
         RecordPurchase(db, u, i, byName, log)
  PROVE  ScopeKept
<1>1. /\ db'.items = db.items /\ db'.form = db.form /\ db.items[i] # None
      /\ db'.executions = [db.executions EXCEPT ![i] =
           IF db.executions[i] = None
           THEN [purchaser |-> u, qty |-> db.items[i].qty, total |-> db.items[i].qty]
           ELSE [db.executions[i] EXCEPT !.total = db.items[i].qty]]
  BY DEF RecordPurchase, TypeOK, Rows
<1>2. db.items[i].qty \in Quantities
  BY <1>1, RowFields DEF TypeOK, Item
<1>3. ASSUME NEW j \in Present(db.executions)
      PROVE  /\ db'.executions[j] # None
             /\ db'.executions[j].qty = db.executions[j].qty
             /\ db'.executions[j].purchaser = db.executions[j].purchaser
  <2>1. j \in Items /\ db.executions[j] \in Execution
    BY RowFields DEF Present, TypeOK
  <2>2. CASE j # i
    BY <1>1, <2>1, <2>2, RowFields, NoneAssumption DEF TypeOK
  <2>3. CASE j = i
    <3>1. db'.executions[j] = [db.executions[j] EXCEPT !.total = db.items[i].qty]
      BY <1>1, <2>1, <2>3, RowFields, NoneAssumption DEF TypeOK
    <3>2. [db.executions[j] EXCEPT !.total = db.items[i].qty] \in Execution
      BY <1>2, <2>1 DEF Execution
    <3>3. QED BY <2>1, <3>1, <3>2, NoneAssumption DEF Execution
  <2>4. QED BY <2>2, <2>3
<1>4. ReviewsKept
  <2> DEFINE last == Len(db.reviews)
  <2>1. /\ db.status = "PURCHASING" /\ db.reviews \in Seq(Review)
        /\ byName => last > 0 /\ db.reviews[last].named
        /\ db'.reviews = IF byName THEN WithSupplier(db.reviews, last) ELSE db.reviews
    BY RowFields DEF RecordPurchase, SupplierIsProposed, TypeOK, Rows
  <2>2. CASE ~ byName
    BY <2>1, <2>2 DEF ReviewsKept
  <2>3. CASE byName
    <3>1. /\ Len(db'.reviews) = last
          /\ \A n \in 1..last : n # last => db'.reviews[n] = db.reviews[n]
          /\ db'.reviews[last] = [db.reviews[last] EXCEPT !.linked = TRUE]
      BY <2>1, <2>3, WithSupplierTyped
    <3>2. SupplierFilledIn(last)
      BY <2>1, <2>3, <3>1 DEF SupplierFilledIn
    <3>3. QED BY <3>1, <3>2 DEF ReviewsKept
  <2>4. QED BY <2>2, <2>3
<1>5. QED BY <1>1, <1>3, <1>4 DEF ScopeKept

LEMMA ApprovedStep ==
  ASSUME TypeOK, db.status \in Approved, NEW u \in Employees, Handle(db, u, Token)
  PROVE  ScopeKept
<1>1. ~ HandleApplicant(db, u, Token) /\ ~ HandleManager(db, u, Token)
  BY DEF HandleApplicant, ReplaceRequestItems, SaveApplicantFields, ApplicantCanEdit,
     ManagerCanEdit, SubmitReview, HandleManager, SaveReviewItems, SaveReviewFields,
     Reject, SubmitPurchaser, CanTransition, TransitionRules, Approved
<1>2. ASSUME NEW next, NEW t, StartPurchase(db, u, next, t)
      PROVE  ScopeKept
  BY <1>2, TransitionKeepsScope DEF StartPurchase
<1>3. ASSUME NEW i \in Items, NEW byName, SavePurchaseFields(db, u, i, byName)
      PROVE  ScopeKept
  BY <1>3, PurchaseKeepsScope DEF SavePurchaseFields
<1>4. ASSUME NEW i \in Items, NEW byName, NEW t, SavePurchaseItem(db, u, i, byName, t)
      PROVE  ScopeKept
  BY <1>4, PurchaseKeepsScope DEF SavePurchaseItem
<1>5. ASSUME NEW next, NEW t, SubmitWarehouse(db, u, next, t)
      PROVE  ScopeKept
  <2>1. PICK to, outbox :
          db' = [Transitioned(db, u, "SUBMIT_WAREHOUSE", to, next, t) EXCEPT !.outbox = outbox]
    BY <1>5 DEF SubmitWarehouse
  <2>2. QED BY <2>1, TransitionKeepsScope
<1>6. ASSUME NEW i, NEW q, NEW t, AppendReceipt(db, u, i, q, t)
      PROVE  ScopeKept
  <2>1. /\ db'.items = db.items /\ db'.reviews = db.reviews /\ db'.form = db.form
        /\ db'.executions = db.executions
    BY <1>6 DEF AppendReceipt, TypeOK, Rows
  <2>2. QED BY <2>1 DEF ScopeKept, ReviewsKept, Present
<1>7. ASSUME NEW t, Complete(db, u, None, t)
      PROVE  ScopeKept
  <2>1. PICK outbox :
          db' = [Transitioned(db, u, "COMPLETE", "COMPLETED", None, t) EXCEPT !.outbox = outbox]
    BY <1>7 DEF Complete
  <2>2. QED BY <2>1, TransitionKeepsScope
<1>8. QED BY <1>1, <1>2, <1>3, <1>4, <1>5, <1>6, <1>7
          DEF Handle, HandlePurchaser, HandleWarehouse, SaveWarehouseFields

\* After the approval nobody changes what was approved: not the items, the header,
\* or the lines, totals and decision of a review, nor what an execution bought (the
\* status guards of replace_request_items, save_applicant_fields and the review
\* handlers, save_purchase_fields).  The one write a purchase makes to the reviews,
\* the id of the supplier the latest of them names, is what SupplierFilledIn allows.
THEOREM ScopeIsFrozen == Spec => ApprovedScopeFrozen
<1>1. TypeOK /\ [Next]_vars => [db.status \in Approved => ScopeKept]_vars
  BY ApprovedStep, NextHandles DEF TypeOK
<1>2. QED BY <1>1, WorkflowTyped, PTL DEF Spec, ApprovedScopeFrozen, ScopeKept, ReviewsKept

-----------------------------------------------------------------------------
(* Review rounds.  A handler of the building manager writes one round, the    *)
(* last one: the invariant says that no earlier round is a draft, so the      *)
(* draft of the highest round is the last round or a new one.                 *)

LEMMA ActiveRoundIsLast ==
  ASSUME TypeOK, ReviewRoundsMatchStatus, NEW u \in Employees
  PROVE  LET reviews == WithActiveReview(db, u)
             last == Len(reviews)
         IN  /\ last > 0 /\ ActiveRound(reviews) = last
             /\ \A n \in 1..(last - 1) : n \in 1..Len(db.reviews)
             /\ \A n \in 1..Len(db.reviews) :
                  /\ n <= last
                  /\ n # last => reviews[n] = db.reviews[n] /\ db.reviews[n].status # "DRAFT"
                  /\ n = last => db.reviews[n].status = "DRAFT"
<1> DEFINE reviews == WithActiveReview(db, u)
           last == Len(reviews)
<1>1. db.reviews \in Seq(Review) /\ reviews \in Seq(Review) /\ NewReview(u).status = "DRAFT"
  BY RowFields, WithActiveReviewTyped DEF TypeOK, NewReview
<1>2. CASE DraftRounds(db.reviews) # {}
  <2>1. reviews = db.reviews
    BY <1>2 DEF WithActiveReview
  <2>2. DraftRounds(db.reviews) = {last} /\ last \in 1..Len(db.reviews)
    BY <1>2, <2>1 DEF ReviewRoundsMatchStatus, DraftRounds
  <2>3. ActiveRound(reviews) = last
    BY <1>1, <2>1, <2>2 DEF ActiveRound
  <2>4. QED BY <1>1, <2>1, <2>2, <2>3 DEF DraftRounds
<1>3. CASE DraftRounds(db.reviews) = {}
  <2>1. reviews = Append(db.reviews, NewReview(u))
    BY <1>3 DEF WithActiveReview
  <2>2. /\ last = Len(db.reviews) + 1 /\ reviews[last].status = "DRAFT"
        /\ \A n \in 1..Len(db.reviews) : reviews[n] = db.reviews[n] /\ db.reviews[n].status # "DRAFT"
    BY <1>1, <1>3, <2>1 DEF DraftRounds
  <2>3. DraftRounds(reviews) = {last}
    BY <1>1, <2>2 DEF DraftRounds
  <2>4. ActiveRound(reviews) = last
    BY <1>1, <2>2, <2>3 DEF ActiveRound
  <2>5. QED BY <1>1, <2>2, <2>4
<1>4. QED BY <1>2, <1>3

\* A step of a handler that writes round r of the active review.
WritesRound(u, r) ==
  /\ db.status = "PENDING_REVIEW"
  /\ LET reviews == WithActiveReview(db, u) IN
       db'.reviews = [reviews EXCEPT ![ActiveRound(reviews)] = r]
  /\ db'.items = db.items
  /\ \/ db'.status = "PENDING_REVIEW"
     \/ db'.status = "REJECTED" /\ r.status = "COMPLETED" /\ r.result = "REJECTED"
     \/ /\ db'.status = "PENDING_PURCHASE" /\ r.status = "COMPLETED" /\ r.result = "APPROVED"
        /\ Present(r.items) = Present(db.items)

\* Before the approval a step keeps the reviews, or it writes one round.
KeepsRounds ==
  /\ db.status \notin Approved
  /\ db'.reviews = db.reviews
  /\ \/ db'.status = db.status
     \/ db.status \in {"DRAFT", "REJECTED"} /\ db'.status = "PENDING_REVIEW"

\* A snapshot is taken of every active item, so an approved round that has as
\* many lines as there are active items has exactly their lines.
LEMMA ApprovedLinesMatch ==
  ASSUME TypeOK, NEW r \in Review,
         Cardinality(Present(EnsureSnapshots(db, r).items)) = Cardinality(Present(db.items))
  PROVE  Present(EnsureSnapshots(db, r).items) = Present(db.items)
<1> DEFINE lines == Present(EnsureSnapshots(db, r).items)
<1>1. Present(db.items) \subseteq lines
  BY EnsureSnapshotsTyped, NoneAssumption DEF Present
<1>2. IsFiniteSet(lines)
  BY ItemsAssumption, FS_Subset DEF Present
<1>3. QED BY <1>1, <1>2, FS_Subset

LEMMA DecisionWritesRound ==
  ASSUME TypeOK, ReviewRoundsMatchStatus, NEW u \in Employees,
         NEW result \in {"APPROVED", "REJECTED"}
  PROVE  LET reviews == WithActiveReview(db, u)
             n == ActiveRound(reviews)
         IN  /\ reviews[n] \in Review
             /\ \E r : /\ DecidedReviews(db, u, result) = [reviews EXCEPT ![n] = r]
                       /\ DecidedReviews(db, u, result)[n] = r
                       /\ r.status = "COMPLETED" /\ r.result = result
                       /\ r.items = EnsureSnapshots(db, reviews[n]).items
<1> DEFINE reviews == WithActiveReview(db, u)
           n == ActiveRound(reviews)
           ensured == EnsureSnapshots(db, reviews[n])
           r == [ensured EXCEPT !.status = "COMPLETED", !.result = result]
<1>1. reviews \in Seq(Review) /\ n \in 1..Len(reviews)
  BY WithActiveReviewTyped, ActiveRoundIsLast
<1>2. reviews[n] \in Review
  BY <1>1
<1>3. ensured \in Review
  BY <1>2, EnsureSnapshotsTyped
<1>4. DecidedReviews(db, u, result) = [reviews EXCEPT ![n] = r]
  BY DEF DecidedReviews
<1>5. r.status = "COMPLETED" /\ r.result = result /\ r.items = ensured.items
  <2> HIDE DEF ensured
  <2>1. QED BY <1>3 DEF Review
<1>6. [reviews EXCEPT ![n] = r][n] = r
  <2> HIDE DEF reviews, n, r
  <2>1. QED BY <1>1
<1> HIDE DEF r
<1>7. QED BY <1>2, <1>4, <1>5, <1>6

LEMMA ManagerRounds ==
  ASSUME TypeOK, ReviewRoundsMatchStatus, NEW u \in Employees, HandleManager(db, u, Token)
  PROVE  \E r : WritesRound(u, r)
<1> DEFINE reviews == WithActiveReview(db, u)
           n == ActiveRound(reviews)
<1>1. ASSUME NEW suggested, NEW priced, SaveReviewItems(db, u, suggested, priced)
      PROVE  \E r : WritesRound(u, r)
  <2>1. PICK r : /\ db.status = "PENDING_REVIEW"
                 /\ db' = [db EXCEPT !.version = @ + 1, !.reviews = [reviews EXCEPT ![n] = r]]
    BY <1>1 DEF SaveReviewItems
  <2>2. /\ db'.reviews = [reviews EXCEPT ![n] = r] /\ db'.items = db.items
        /\ db'.status = db.status
    BY <2>1 DEF TypeOK, Rows
  <2>3. QED BY <2>1, <2>2 DEF WritesRound
<1>2. ASSUME NEW price, NEW proposal, SaveReviewFields(db, u, price, proposal)
      PROVE  \E r : WritesRound(u, r)
  <2>1. PICK r : /\ db.status = "PENDING_REVIEW"
                 /\ db' = [db EXCEPT !.version = @ + 1, !.reviews = [reviews EXCEPT ![n] = r]]
    BY <1>2 DEF SaveReviewFields
  <2>2. /\ db'.reviews = [reviews EXCEPT ![n] = r] /\ db'.items = db.items
        /\ db'.status = db.status
    BY <2>1 DEF TypeOK, Rows
  <2>3. QED BY <2>1, <2>2 DEF WritesRound
<1>3. ASSUME NEW next, NEW t, Reject(db, u, next, t)
      PROVE  \E r : WritesRound(u, r)
  <2> DEFINE decided == DecidedReviews(db, u, "REJECTED")
  <2>1. /\ db' = [Transitioned(db, u, "REJECT", "REJECTED", next, t) EXCEPT !.reviews = decided]
        /\ db.status = "PENDING_REVIEW"
    BY <1>3 DEF Reject, CanTransition, TransitionRules
  <2> HIDE DEF decided
  <2>2. /\ db'.reviews = decided /\ db'.items = db.items /\ db'.status = "REJECTED"
    BY <2>1 DEF Transitioned, TypeOK, Rows
  <2>3. PICK r : /\ decided = [reviews EXCEPT ![n] = r]
                 /\ r.status = "COMPLETED" /\ r.result = "REJECTED"
    BY DecisionWritesRound DEF decided
  <2>4. QED BY <2>1, <2>2, <2>3 DEF WritesRound
<1>4. ASSUME NEW next, NEW t, SubmitPurchaser(db, u, next, t)
      PROVE  \E r : WritesRound(u, r)
  <2> DEFINE decided == DecidedReviews(db, u, "APPROVED")
             d == Transitioned(db, u, "SUBMIT_PURCHASER", "PENDING_PURCHASE", next, t)
  <2>1. PICK outbox :
          /\ db' = [d EXCEPT !.reviews = decided, !.outbox = outbox]
          /\ db.status = "PENDING_REVIEW"
          /\ Cardinality(Present(decided[n].items)) = Cardinality(Present(db.items))
    BY <1>4 DEF SubmitPurchaser, CanTransition, TransitionRules
  <2>2. PICK r : /\ decided = [reviews EXCEPT ![n] = r] /\ decided[n] = r
                 /\ r.status = "COMPLETED" /\ r.result = "APPROVED"
                 /\ r.items = EnsureSnapshots(db, reviews[n]).items
                 /\ reviews[n] \in Review
    BY DecisionWritesRound
  <2> HIDE DEF decided
  <2>3. /\ db'.reviews = decided /\ db'.items = db.items /\ db'.status = "PENDING_PURCHASE"
    BY <2>1 DEF Transitioned, TypeOK, Rows
  <2>4. Present(r.items) = Present(db.items)
    BY <2>1, <2>2, ApprovedLinesMatch
  <2>5. QED BY <2>1, <2>2, <2>3, <2>4 DEF WritesRound
<1>5. QED BY <1>1, <1>2, <1>3, <1>4 DEF HandleManager

LEMMA ApplicantRounds ==
  ASSUME TypeOK, NEW u \in Employees, HandleApplicant(db, u, Token)
  PROVE  KeepsRounds
<1>1. ASSUME NEW payload, ReplaceRequestItems(db, u, payload)
      PROVE  KeepsRounds
  BY <1>1 DEF ReplaceRequestItems, KeepsRounds, Approved, TypeOK, Rows
<1>2. ASSUME NEW supplied, NEW name, NEW qty, SaveApplicantFields(db, u, supplied, name, qty)
      PROVE  KeepsRounds
  <2>1. db'.reviews = db.reviews /\ db'.status = db.status
    BY <1>2 DEF SaveApplicantFields, TypeOK, Rows
  <2>2. QED BY <1>2, <2>1
            DEF SaveApplicantFields, ApplicantCanEdit, ManagerCanEdit, KeepsRounds, Approved
<1>3. ASSUME NEW op \in {"SUBMIT_REVIEW", "RESUBMIT_REVIEW"}, NEW next, NEW t,
             SubmitReview(db, u, op, next, t)
      PROVE  KeepsRounds
  <2>1. PICK outbox :
          db' = [Transitioned(db, u, op, "PENDING_REVIEW", next, t) EXCEPT !.outbox = outbox]
    BY <1>3 DEF SubmitReview
  <2>2. db'.reviews = db.reviews /\ db'.status = "PENDING_REVIEW"
    BY <2>1 DEF Transitioned, TypeOK, Rows
  <2>3. db.status \in {"DRAFT", "REJECTED"}
    BY <1>3 DEF SubmitReview, CanTransition, TransitionRules
  <2>4. QED BY <2>2, <2>3 DEF KeepsRounds, Approved
<1>4. QED BY <1>1, <1>2, <1>3 DEF HandleApplicant

\* What a step does to the rounds.
LEMMA HandleRounds ==
  ASSUME TypeOK, ReviewRoundsMatchStatus, NEW u \in Employees, Handle(db, u, Token)
  PROVE  \/ KeepsRounds
         \/ \E r : WritesRound(u, r)
         \/ db.status \in Approved /\ ScopeKept
<1>1. CASE HandleApplicant(db, u, Token)
  BY <1>1, ApplicantRounds
<1>2. CASE HandleManager(db, u, Token)
  BY <1>2, ManagerRounds
<1>3. CASE HandlePurchaser(db, u, Token) \/ HandleWarehouse(db, u, Token)
  <2>1. db.status \in Approved
    BY <1>3 DEF HandlePurchaser, StartPurchase, SavePurchaseFields, SavePurchaseItem,
       RecordPurchase, SubmitWarehouse, HandleWarehouse, SaveWarehouseFields, AppendReceipt,
       Complete, CanTransition, TransitionRules, Approved
  <2>2. QED BY <2>1, ApprovedStep
<1>4. QED BY <1>1, <1>2, <1>3 DEF Handle

\* The rounds after round r is written.
LEMMA RoundsWritten ==
  ASSUME TypeOK, ReviewRoundsMatchStatus, NEW u \in Employees, NEW r, WritesRound(u, r)
  PROVE  LET last == Len(db'.reviews) IN
         /\ last > 0 /\ last \in Nat /\ db'.reviews[last] = r
         /\ \A n \in 1..(last - 1) : db'.reviews[n].status # "DRAFT"
         /\ \A n \in 1..Len(db.reviews) :
              db.reviews[n].status # "DRAFT" => n <= last /\ db'.reviews[n] = db.reviews[n]
<1> DEFINE reviews == WithActiveReview(db, u)
           last == Len(reviews)
<1>1. reviews \in Seq(Review) /\ last > 0 /\ ActiveRound(reviews) = last
  BY WithActiveReviewTyped, ActiveRoundIsLast
<1>2. db'.reviews = [reviews EXCEPT ![last] = r]
  BY <1>1 DEF WritesRound
<1>3. /\ \A n \in 1..(last - 1) : n \in 1..Len(db.reviews)
      /\ \A n \in 1..Len(db.reviews) :
           /\ n <= last
           /\ n # last => reviews[n] = db.reviews[n] /\ db.reviews[n].status # "DRAFT"
           /\ n = last => db.reviews[n].status = "DRAFT"
  BY ActiveRoundIsLast
<1>4. db.reviews \in Seq(Review)
  BY RowFields DEF TypeOK
<1> HIDE DEF reviews
<1>5. /\ Len(db'.reviews) = last /\ db'.reviews[last] = r
      /\ \A n \in 1..last : n # last => db'.reviews[n] = reviews[n]
  BY <1>1, <1>2
<1>6. ASSUME NEW n \in 1..(last - 1) PROVE db'.reviews[n].status # "DRAFT"
  <2>1. last \in Nat /\ n \in 1..last /\ n # last
    BY <1>1
  <2>2. n \in 1..Len(db.reviews)
    BY <1>3
  <2> HIDE DEF last
  <2>3. reviews[n] = db.reviews[n] /\ db.reviews[n].status # "DRAFT"
    BY <1>3, <2>1, <2>2
  <2>4. QED BY <1>5, <2>1, <2>3
<1>7. ASSUME NEW n \in 1..Len(db.reviews), db.reviews[n].status # "DRAFT"
      PROVE  n <= last /\ db'.reviews[n] = db.reviews[n]
  BY <1>1, <1>3, <1>4, <1>5, <1>7
<1>8. last \in Nat
  BY <1>1
<1> HIDE DEF last
<1>9. QED BY <1>1, <1>5, <1>6, <1>7, <1>8

Rounds == Custody /\ ReviewRoundsMatchStatus

\* The supplier that is filled in leaves the decision and the lines alone.
LEMMA FilledInKeepsDecision ==
  ASSUME TypeOK, NEW n \in 1..Len(db.reviews), db'.reviews[n] = db.reviews[n] \/ SupplierFilledIn(n)
  PROVE  /\ db'.reviews[n].status = db.reviews[n].status
         /\ db'.reviews[n].result = db.reviews[n].result
         /\ db'.reviews[n].items = db.reviews[n].items
<1>1. ASSUME NEW r \in Review
      PROVE  LET filled == [r EXCEPT !.linked = TRUE] IN
             filled.status = r.status /\ filled.result = r.result /\ filled.items = r.items
  BY DEF Review
<1>2. db.reviews[n] \in Review
  BY RowFields DEF TypeOK
<1>3. QED BY <1>1, <1>2 DEF SupplierFilledIn

LEMMA RoundsStep ==
  ASSUME Rounds, NEW u \in Employees, Handle(db, u, Token)
  PROVE  ReviewRoundsMatchStatus'
<1> USE DEF Rounds, Custody
<1>1. CASE KeepsRounds
  <2>1. DraftRounds(db'.reviews) = DraftRounds(db.reviews) /\ Len(db'.reviews) = Len(db.reviews)
    BY <1>1 DEF KeepsRounds
  <2>2. \A n \in DraftRounds(db.reviews) : n = Len(db.reviews) /\ db'.status = "PENDING_REVIEW"
    BY <1>1 DEF KeepsRounds, ReviewRoundsMatchStatus
  <2>3. db'.status \notin Approved
    BY <1>1 DEF KeepsRounds, Approved
  <2>4. db'.status = "REJECTED" => db.status = "REJECTED"
    BY <1>1 DEF KeepsRounds
  <2>5. QED BY <1>1, <2>1, <2>2, <2>3, <2>4 DEF KeepsRounds, ReviewRoundsMatchStatus
<1>2. ASSUME NEW r, WritesRound(u, r)
      PROVE  ReviewRoundsMatchStatus'
  <2> DEFINE last == Len(db'.reviews)
  <2>1. /\ last > 0 /\ last \in Nat /\ db'.reviews[last] = r
        /\ \A n \in 1..(last - 1) : db'.reviews[n].status # "DRAFT"
    BY <1>2, RoundsWritten
  <2>2. DraftRounds(db'.reviews) \subseteq {last}
    BY <2>1 DEF DraftRounds
  <2>3. db'.status # "PENDING_REVIEW" => DraftRounds(db'.reviews) = {}
    BY <1>2, <2>1, <2>2 DEF WritesRound, DraftRounds
  <2>4. QED BY <1>2, <2>1, <2>2, <2>3 DEF WritesRound, ReviewRoundsMatchStatus, Approved, Present
<1>3. CASE db.status \in Approved /\ ScopeKept
  <2>1. db'.status \in Approved
    <3>1. Saves \/ Logs
      BY HandleCustody
    <3>2. QED BY <1>3, <3>1 DEF Saves, Logs, HandsOver, Approved, Flow!Edges
  <2>2. db'.status # "PENDING_REVIEW" /\ db'.status # "REJECTED"
    BY <2>1 DEF Approved
  <2>3. /\ Len(db'.reviews) = Len(db.reviews) /\ Len(db.reviews) \in Nat
        /\ \A n \in 1..Len(db.reviews) :
             /\ db'.reviews[n].status = db.reviews[n].status
             /\ db'.reviews[n].result = db.reviews[n].result
             /\ db'.reviews[n].items = db.reviews[n].items
    BY <1>3, FilledInKeepsDecision, RowFields DEF ScopeKept, ReviewsKept, TypeOK
  <2>4. db'.items = db.items
    BY <1>3 DEF ScopeKept
  <2>5. DraftRounds(db'.reviews) = {}
    BY <1>3, <2>3 DEF ReviewRoundsMatchStatus, DraftRounds, Approved
  <2>6. QED BY <1>3, <2>1, <2>2, <2>3, <2>4, <2>5
            DEF ReviewRoundsMatchStatus, Present
<1>4. QED BY <1>1, <1>2, <1>3, HandleRounds

LEMMA RoundsInvariant == Spec => []Rounds
<1>1. Init => ReviewRoundsMatchStatus
  BY DEF Init, ReviewRoundsMatchStatus, DraftRounds, Approved
<1>2. Rounds /\ [Next]_vars => ReviewRoundsMatchStatus'
  <2> SUFFICES ASSUME Rounds, [Next]_vars PROVE ReviewRoundsMatchStatus'
    OBVIOUS
  <2>1. CASE UNCHANGED vars
    BY <2>1 DEF vars, Rounds, ReviewRoundsMatchStatus, DraftRounds, Present
  <2>2. QED BY <2>1, RoundsStep, NextHandles DEF Rounds, Custody
<1>3. QED BY <1>1, <1>2, CustodyInvariant, PTL DEF Spec, Rounds

\* At most the last round is undecided, and its decision agrees with the status
\* (_get_or_create_review, reject, submit_purchaser).
THEOREM RoundsMatchStatus == Spec => []ReviewRoundsMatchStatus
  BY RoundsInvariant, PTL DEF Rounds

\* No step changes the lines, totals, decision or supplier name of a decided round
\* (get_active_review only finds a draft).  The id of its supplier is not part of
\* that: a purchase may fill it in on the latest round (SupplierFilledIn).
THEOREM DecidedStayDecided == Spec => DecidedReviewsImmutable
<1> DEFINE Kept == \A n \in 1..Len(db.reviews) :
       db.reviews[n].status = "COMPLETED" =>
         n <= Len(db'.reviews) /\ (db'.reviews[n] = db.reviews[n] \/ SupplierFilledIn(n))
<1>1. Rounds /\ [Next]_vars => [Kept]_vars
  <2> SUFFICES ASSUME Rounds, NEW u \in Employees, Handle(db, u, Token) PROVE Kept
    BY NextHandles DEF Rounds, Custody
  <2>1. CASE KeepsRounds
    BY <2>1, RowFields DEF Rounds, Custody, TypeOK, KeepsRounds
  <2>2. ASSUME NEW r, WritesRound(u, r) PROVE Kept
    BY <2>2, RoundsWritten DEF Rounds, Custody
  <2>3. CASE ScopeKept
    BY <2>3, RowFields DEF Rounds, Custody, TypeOK, ScopeKept, ReviewsKept
  <2>4. QED BY <2>1, <2>2, <2>3, HandleRounds DEF Rounds, Custody
<1>2. QED BY <1>1, RoundsInvariant, PTL DEF Spec, DecidedReviewsImmutable

-----------------------------------------------------------------------------
(* Concurrent transactions.  Every handler's write is conditional on the     *)
(* version of its view and advances it by one.                               *)

LEMMA TransitionBumps ==
  ASSUME TypeOK, NEW v, NEW u, NEW op, NEW to, NEW next, NEW t, NEW reviews, NEW outbox,
         CanTransition(v, u, op, to, next, t),
         \/ db' = Transitioned(db, u, op, to, next, t)
         \/ db' = [Transitioned(db, u, op, to, next, t) EXCEPT !.outbox = outbox]
         \/ db' = [Transitioned(db, u, op, to, next, t) EXCEPT !.reviews = reviews]
         \/ db' = [Transitioned(db, u, op, to, next, t) EXCEPT !.reviews = reviews, !.outbox = outbox]
  PROVE  db.version = v.version /\ db'.version = db.version + 1
  BY DEF CanTransition, CompareAndSwap, Transitioned, TypeOK, Rows

LEMMA RecordPurchaseBumps ==
  ASSUME TypeOK, NEW v, NEW u, NEW i, NEW byName, NEW log, RecordPurchase(v, u, i, byName, log)
  PROVE  db.version = v.version /\ db'.version = db.version + 1
  BY DEF RecordPurchase, CompareAndSwap, TypeOK, Rows

LEMMA AppendReceiptBumps ==
  ASSUME TypeOK, NEW v, NEW u, NEW i, NEW q, NEW t, AppendReceipt(v, u, i, q, t)
  PROVE  db.version = v.version /\ db'.version = db.version + 1
  BY DEF AppendReceipt, CompareAndSwap, TypeOK, Rows

LEMMA ApplicantBumps ==
  ASSUME TypeOK, NEW v, NEW u, NEW tokens, HandleApplicant(v, u, tokens)
  PROVE  db.version = v.version /\ db'.version = db.version + 1
<1>1. ASSUME NEW payload, ReplaceRequestItems(v, u, payload)
      PROVE  db.version = v.version /\ db'.version = db.version + 1
  BY <1>1 DEF ReplaceRequestItems, CompareAndSwap, TypeOK, Rows
<1>2. ASSUME NEW supplied, NEW name, NEW qty, SaveApplicantFields(v, u, supplied, name, qty)
      PROVE  db.version = v.version /\ db'.version = db.version + 1
  BY <1>2 DEF SaveApplicantFields, CompareAndSwap, TypeOK, Rows
<1>3. ASSUME NEW op, NEW next, NEW t, SubmitReview(v, u, op, next, t)
      PROVE  db.version = v.version /\ db'.version = db.version + 1
  BY <1>3 DEF SubmitReview, CanTransition, CompareAndSwap, Transitioned, TypeOK, Rows
<1>4. QED BY <1>1, <1>2, <1>3 DEF HandleApplicant

LEMMA ManagerBumps ==
  ASSUME TypeOK, NEW v, NEW u, NEW tokens, HandleManager(v, u, tokens)
  PROVE  db.version = v.version /\ db'.version = db.version + 1
<1>1. ASSUME NEW suggested, NEW priced, SaveReviewItems(v, u, suggested, priced)
      PROVE  db.version = v.version /\ db'.version = db.version + 1
  BY <1>1 DEF SaveReviewItems, CompareAndSwap, TypeOK, Rows
<1>2. ASSUME NEW price, NEW proposal, SaveReviewFields(v, u, price, proposal)
      PROVE  db.version = v.version /\ db'.version = db.version + 1
  BY <1>2 DEF SaveReviewFields, CompareAndSwap, TypeOK, Rows
<1>3. ASSUME NEW next, NEW t, Reject(v, u, next, t)
      PROVE  db.version = v.version /\ db'.version = db.version + 1
  BY <1>3 DEF Reject, CanTransition, CompareAndSwap, Transitioned, TypeOK, Rows
<1>4. ASSUME NEW next, NEW t, SubmitPurchaser(v, u, next, t)
      PROVE  db.version = v.version /\ db'.version = db.version + 1
  BY <1>4 DEF SubmitPurchaser, CanTransition, CompareAndSwap, Transitioned, TypeOK, Rows
<1>5. QED BY <1>1, <1>2, <1>3, <1>4 DEF HandleManager

LEMMA PurchaserBumps ==
  ASSUME TypeOK, NEW v, NEW u, NEW tokens, HandlePurchaser(v, u, tokens)
  PROVE  db.version = v.version /\ db'.version = db.version + 1
<1>1. ASSUME NEW next, NEW t, StartPurchase(v, u, next, t)
      PROVE  db.version = v.version /\ db'.version = db.version + 1
  BY <1>1 DEF StartPurchase, CanTransition, CompareAndSwap, Transitioned, TypeOK, Rows
<1>2. ASSUME NEW i, NEW byName, SavePurchaseFields(v, u, i, byName)
      PROVE  db.version = v.version /\ db'.version = db.version + 1
  BY <1>2, RecordPurchaseBumps DEF SavePurchaseFields
<1>3. ASSUME NEW i, NEW byName, NEW t, SavePurchaseItem(v, u, i, byName, t)
      PROVE  db.version = v.version /\ db'.version = db.version + 1
  BY <1>3, RecordPurchaseBumps DEF SavePurchaseItem
<1>4. ASSUME NEW next, NEW t, SubmitWarehouse(v, u, next, t)
      PROVE  db.version = v.version /\ db'.version = db.version + 1
  BY <1>4 DEF SubmitWarehouse, CanTransition, CompareAndSwap, Transitioned, TypeOK, Rows
<1>5. QED BY <1>1, <1>2, <1>3, <1>4 DEF HandlePurchaser

LEMMA WarehouseBumps ==
  ASSUME TypeOK, NEW v, NEW u, NEW tokens, HandleWarehouse(v, u, tokens)
  PROVE  db.version = v.version /\ db'.version = db.version + 1
<1>1. ASSUME NEW t, Complete(v, u, None, t)
      PROVE  db.version = v.version /\ db'.version = db.version + 1
  BY <1>1 DEF Complete, CanTransition, CompareAndSwap, Transitioned, TypeOK, Rows
<1>2. QED BY <1>1, AppendReceiptBumps DEF HandleWarehouse, SaveWarehouseFields

LEMMA HandleBumps ==
  ASSUME TypeOK, NEW v, NEW u, NEW tokens, Handle(v, u, tokens)
  PROVE  db.version = v.version /\ db'.version = db.version + 1
  BY ApplicantBumps, ManagerBumps, PurchaserBumps, WarehouseBumps DEF Handle

-----------------------------------------------------------------------------
(* The invariant: a view of the current version is the current rows.         *)

TxInvariant == TxTypeOK /\ VersionGuardsView

LEMMA TxInitInvariant == TxInit => TxInvariant
  BY InitTyped DEF TxInit, TxInvariant, TxTypeOK, VersionGuardsView

\* A handler that gets past its compare-and-swap has read the current rows.
LEMMA CommitReadsCurrent ==
  ASSUME TxInvariant, NEW s \in Sessions, view[s] # None, NEW u, NEW tokens,
         Handle(view[s], u, tokens)
  PROVE  view[s] = db
  BY HandleBumps DEF TxInvariant, TxTypeOK, VersionGuardsView

LEMMA CommitIsNext ==
  ASSUME TxInvariant, NEW s \in Sessions, Commit(s)
  PROVE  \E u \in Employees : Handle(db, u, ClientTokens(db)) /\ db'.version = db.version + 1
<1>1. PICK u \in Employees : view[s] # None /\ Handle(view[s], u, ClientTokens(view[s]))
  BY DEF Commit
<1>2. view[s] = db
  BY <1>1, CommitReadsCurrent
<1>3. Handle(db, u, ClientTokens(db))
  BY <1>1, <1>2
<1>4. db'.version = db.version + 1
  BY <1>3, HandleBumps DEF TxInvariant, TxTypeOK
<1>5. QED BY <1>3, <1>4

LEMMA TxInvariantInductive == TxInvariant /\ [TxNext]_txVars => TxInvariant'
<1> SUFFICES ASSUME TxInvariant, [TxNext]_txVars PROVE TxInvariant'
  OBVIOUS
<1> USE DEF TxInvariant, TxTypeOK
<1>1. CASE UNCHANGED txVars
  BY <1>1 DEF txVars, VersionGuardsView, TypeOK
<1>2. ASSUME NEW s \in Sessions, Begin(s) PROVE TxInvariant'
  BY <1>2, ViewAssumption, RowFields DEF Begin, VersionGuardsView, TypeOK
<1>3. ASSUME NEW s \in Sessions, Rollback(s) PROVE TxInvariant'
  BY <1>3 DEF Rollback, VersionGuardsView, TypeOK
<1>4. ASSUME NEW s \in Sessions, Commit(s) PROVE TxInvariant'
  <2>1. PICK u \in Employees : Handle(db, u, ClientTokens(db)) /\ db'.version = db.version + 1
    BY <1>4, CommitIsNext
  <2>2. TypeOK'
    BY <2>1, HandleTyped, ClientsSendTokens
  <2>3. view' = [view EXCEPT ![s] = None]
    BY <1>4 DEF Commit
  <2>4. ASSUME NEW r \in Sessions, view'[r] # None
        PROVE  view'[r].version < db'.version
    <3>1. view'[r] = view[r] /\ view[r] \in Rows
      BY <2>3, <2>4
    <3>2. view[r].version <= db.version
      BY <2>3, <2>4, <3>1 DEF VersionGuardsView
    <3>3. view[r].version \in Nat /\ db.version \in Nat
      BY <3>1, RowFields DEF TypeOK
    <3>4. QED BY <2>1, <3>1, <3>2, <3>3
  <2>5. \A r \in Sessions : view'[r] # None => view'[r].version \in Nat
    BY <2>3, RowFields
  <2>6. db'.version \in Nat
    BY <2>2, RowFields DEF TypeOK
  <2>7. VersionGuardsView'
    BY <2>4, <2>5, <2>6 DEF VersionGuardsView
  <2>8. QED BY <2>2, <2>3, <2>7
<1>5. QED BY <1>1, <1>2, <1>3, <1>4 DEF TxNext

\* A read view of the current version has missed no write: the version column
\* guards every row of the request (bump_version, advance_request).
THEOREM ViewsGuarded == TxSpec => []VersionGuardsView
  BY TxInitInvariant, TxInvariantInductive, PTL DEF TxSpec, TxInvariant

\* The handlers are serialisable: concurrent transactions with stale read views
\* change the rows exactly as calls that run one at a time.
THEOREM Serialisable == TxSpec => SerialisedWorkflow
<1>1. TxInit => Init
  BY DEF TxInit
<1>2. TxInvariant /\ [TxNext]_txVars => [Next]_vars
  <2> SUFFICES ASSUME TxInvariant, [TxNext]_txVars PROVE [Next]_vars
    OBVIOUS
  <2>1. CASE UNCHANGED txVars
    BY <2>1 DEF txVars, vars
  <2>2. ASSUME NEW s \in Sessions, Begin(s) \/ Rollback(s) PROVE UNCHANGED vars
    BY <2>2 DEF Begin, Rollback, vars
  <2>3. ASSUME NEW s \in Sessions, Commit(s) PROVE Next
    BY <2>3, CommitIsNext DEF Next
  <2>4. QED BY <2>1, <2>2, <2>3 DEF TxNext
<1>3. QED BY <1>1, <1>2, TxInitInvariant, TxInvariantInductive, PTL
          DEF TxSpec, SerialisedWorkflow, Spec

\* A request completed by concurrent calls is bought and received in full.
THEOREM ConcurrentCompletionFulfils == TxSpec => []CompletionIsFulfilled
  BY Serialisable, CompletionFulfils, PTL DEF SerialisedWorkflow

\* Concurrent receipts never exceed the purchase they are for.
THEOREM ConcurrentNoOverReceipt == TxSpec => []ReceiptsWithinPurchase
  BY Serialisable, NoOverReceipt, PTL DEF SerialisedWorkflow

\* Nobody changes the approved scope, also not with an old view of the request,
\* but for the supplier id a purchase fills in.
THEOREM ConcurrentScopeIsFrozen == TxSpec => ApprovedScopeFrozen
  BY Serialisable, ScopeIsFrozen, PTL DEF SerialisedWorkflow

\* Concurrent calls leave one chain of custody, without a token used twice or an
\* entry that starts where no other ended.
THEOREM ConcurrentCustodyChain == TxSpec => []LogIsCustodyChain
  BY Serialisable, CustodyChain, PTL DEF SerialisedWorkflow

\* Two managers who save a review at the same time do not leave two drafts.
THEOREM ConcurrentRoundsMatchStatus == TxSpec => []ReviewRoundsMatchStatus
  BY Serialisable, RoundsMatchStatus, PTL DEF SerialisedWorkflow

=============================================================================
