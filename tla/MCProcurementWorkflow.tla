----------------------- MODULE MCProcurementWorkflow -----------------------
(* Small instances of ProcurementWorkflow: one employee per role, or a       *)
(* second building manager and employees Feishu cannot reach.                *)
EXTENDS ProcurementWorkflow, TLC

CONSTANTS ann, bob, cui, dan, eve, pump, blank

OneEach == {ann, bob, cui, dan}

OneEachRoles ==
  (ann :> {"APPLICANT"}) @@ (bob :> {"BUILDING_MANAGER"})
    @@ (cui :> {"PURCHASER"}) @@ (dan :> {"WAREHOUSE_MANAGER"})

\* bob manages the building and applies for it, eve is a second manager and
\* purchaser that no Feishu identity reaches.
Shared == {bob, cui, dan, eve}

SharedRoles ==
  (bob :> {"APPLICANT", "BUILDING_MANAGER"}) @@ (eve :> {"BUILDING_MANAGER", "PURCHASER", "ADMIN"})
    @@ (cui :> {"PURCHASER"}) @@ (dan :> {"WAREHOUSE_MANAGER", "APPLICANT"})

\* A supplier named, named by its id, or left as it is
MCProposals ==
  {[name |-> "given", id |-> "null"], [name |-> "omitted", id |-> "given"],
   [name |-> "omitted", id |-> "omitted"]}

NamedProposals == {p \in MCProposals : p.id # "given"}

ItemSymmetry == Permutations(Items)
=============================================================================
