-------------------------- MODULE MCRecommendation --------------------------
(* A manager of the building and one who is also an administrator, who buys;  *)
(* requests of one line, of two and of one that is still under review, all of  *)
(* one category.  The run starts when the one line of a request and one of two   *)
(* have been bought and another request is completed.                          *)
EXTENDS Recommendation, TLC

CONSTANTS mia, adam, r1, r2, r3, r4, acme, bolt, coil, dyna, c1, c2

CallSymmetry == Permutations({c1, c2})

MCEmployees == {mia, adam}
MCRolesOf == (mia :> {"BUILDING_MANAGER"}) @@ (adam :> {"ADMIN", "BUILDING_MANAGER"})
MCRequestOf == (1 :> r1) @@ (2 :> r2) @@ (3 :> r2) @@ (4 :> r3) @@ (5 :> r4)
MCStaffOf == [r \in Requests |-> {mia}]
MCProposedName == (r1 :> acme) @@ (r2 :> dyna) @@ (r3 :> acme) @@ (r4 :> coil)
MCSeed == <<acme, bolt, coil>>

MCProductOf ==
  (1 :> [category |-> "c", model |-> "m", brand |-> "b", design |-> "d", name |-> "n"]) @@
  (2 :> [category |-> "c", model |-> None, brand |-> "b", design |-> "d", name |-> "n"]) @@
  (3 :> [category |-> "c", model |-> None, brand |-> "b", design |-> None, name |-> "n"]) @@
  (4 :> [category |-> "c", model |-> None, brand |-> None, design |-> None, name |-> "o"]) @@
  (5 :> [category |-> "c", model |-> None, brand |-> "e", design |-> None, name |-> "n"])

MCTermsOf ==
  (1 :> [price |-> 0, age |-> 8, days |-> None]) @@
  (2 :> [price |-> 1, age |-> 9, days |-> 4]) @@
  (3 :> [price |-> 3, age |-> 1, days |-> 4]) @@
  (4 :> [price |-> 0, age |-> 0, days |-> None]) @@
  (5 :> [price |-> 2, age |-> 3, days |-> 4])

\* A state of SupplierSpec: a line bought from acme, one from bolt, one from coil
MCInit ==
  /\ rows = [supplier  |-> [s \in SupplierIds |-> IF s \in DOMAIN Seed THEN Seed[s] ELSE None],
             blacklist |-> [b \in BlacklistIds |-> None],
             status    |-> (r1 :> "PURCHASING") @@ (r2 :> "PURCHASING")
                             @@ (r3 :> "PENDING_REVIEW") @@ (r4 :> "COMPLETED"),
             version   |-> (r1 :> 1) @@ (r2 :> 1) @@ (r3 :> 0) @@ (r4 :> 1),
             execution |-> [l \in Lines |-> CASE l = 1 -> 1 [] l = 3 -> 2 [] l = 5 -> 3 [] OTHER -> None],
             log       |-> {}]
  /\ past = {}
  /\ call = [c \in Calls |-> None]

MCSpec == MCInit /\ [][SupplierNext]_supplierVars
============================================================================
