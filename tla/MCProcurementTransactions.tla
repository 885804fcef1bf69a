-------------------- MODULE MCProcurementTransactions ----------------------
(* Two transactions of one request open at once, one employee per role.      *)
EXTENDS ProcurementTransactions, TLC

CONSTANTS ann, bob, cui, dan, pump

OneEach == {ann, bob, cui, dan}

OneEachRoles ==
  (ann :> {"APPLICANT"}) @@ (bob :> {"BUILDING_MANAGER"})
    @@ (cui :> {"PURCHASER"}) @@ (dan :> {"WAREHOUSE_MANAGER"})

\* The single-item bridge names a supplier, the item endpoint does not
MCProposals == {[name |-> "given", id |-> "null"]}

SessionSymmetry == Permutations(Sessions)
=============================================================================
