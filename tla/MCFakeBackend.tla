--------------------------- MODULE MCFakeBackend ---------------------------
(* A small instance of FakeBackend: one employee per role, all of them       *)
(* candidates for every step, one item.                                      *)
EXTENDS FakeBackend, TLC

CONSTANTS bob, cui, dan

OneEachRoles ==
  (bob :> {"BUILDING_MANAGER"}) @@ (cui :> {"PURCHASER"}) @@ (dan :> {"WAREHOUSE_MANAGER"})
=============================================================================
