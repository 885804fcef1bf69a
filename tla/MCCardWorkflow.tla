--------------------------- MODULE MCCardWorkflow ---------------------------
(* A small instance of CardWorkflow: one employee per role.  A request goes  *)
(* through at least nine versions, so the run starts from three requests     *)
(* that share the version bound: a draft saved a few times without an item,  *)
(* one just approved whose item needs no warehouse, and one being purchased  *)
(* for the warehouse.                                                        *)
EXTENDS CardWorkflow, TLC

CONSTANTS ann, bob, cui, dan, pump

OneEachRoles ==
  (ann :> {"APPLICANT"}) @@ (bob :> {"BUILDING_MANAGER"})
    @@ (cui :> {"PURCHASER"}) @@ (dan :> {"WAREHOUSE_MANAGER"})

\* The form of a single item names a supplier
MCProposals == {[name |-> "given", id |-> "null"]}

SavedDraft ==
  [status |-> "DRAFT", handler |-> ann, version |-> 5, applicant |-> ann,
   form |-> [name |-> None, qty |-> None], items |-> [i \in Items |-> None],
   reviews |-> << >>, executions |-> [i \in Items |-> None],
   received |-> [i \in Items |-> 0], log |-> << >>, outbox |-> {}]

\* One round of review with its lines, two operations in the log
ApprovedRequest(item) ==
  [SavedDraft EXCEPT
     !.status = "PENDING_PURCHASE", !.handler = cui, !.version = 6,
     !.items = [i \in Items |-> item],
     !.reviews = << [NewReview(bob) EXCEPT !.status = "COMPLETED", !.result = "APPROVED",
                                           !.named = TRUE, !.items = [i \in Items |-> SnapshotOf(item)]] >>,
     !.log = << Logged([legacy |-> FALSE, n |-> 1], "SUBMIT_REVIEW", ann, "DRAFT", "PENDING_REVIEW", bob),
                Logged([legacy |-> FALSE, n |-> 2], "SUBMIT_PURCHASER", bob, "PENDING_REVIEW", "PENDING_PURCHASE", cui) >>]

\* The same request one step further
PurchasingRequest(item) ==
  [ApprovedRequest(item) EXCEPT
     !.status = "PURCHASING", !.version = 5,
     !.log = Append(@, Logged([legacy |-> FALSE, n |-> 3], "START_PURCHASE", cui,
                              "PENDING_PURCHASE", "PURCHASING", cui))]

MCInit ==
  /\ db \in {SavedDraft}
              \cup {ApprovedRequest(item)   : item \in {x \in Item : ~x.warehouse}}
              \cup {PurchasingRequest(item) : item \in {x \in Item : x.warehouse}}
  /\ buttons = {}
  /\ press = [s \in Slots |-> None]

MCSpec == MCInit /\ [][CardNext]_cardVars

\* Rejected in its first round, with all items
RejectedRequest(item) ==
  [ApprovedRequest(item) EXCEPT
     !.status = "REJECTED", !.handler = ann, !.version = 4, !.reviews[1].result = "REJECTED",
     !.log[2] = Logged([legacy |-> FALSE, n |-> 2], "REJECT", bob, "PENDING_REVIEW", "REJECTED", ann)]

RejectedSpec ==
  /\ db \in {RejectedRequest(item) : item \in Item}
  /\ buttons = {}
  /\ press = [s \in Slots |-> None]
  /\ [][CardNext]_cardVars

SlotSymmetry == Permutations(Slots)
=============================================================================
