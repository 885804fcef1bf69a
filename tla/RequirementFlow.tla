-------------------------- MODULE RequirementFlow --------------------------
(***************************************************************************)
(* What a backend promises the Agent about one purchase requirement,       *)
(* whichever backend it is: the requirement follows the documented         *)
(* statuses, one version per change, and it is with exactly one employee   *)
(* until a formal step hands it on.  The Agent's services are written      *)
(* against this promise (ports/backend_client.py).  ProcurementWorkflow    *)
(* and FakeBackend implement it.                                           *)
(***************************************************************************)
EXTENDS Integers

CONSTANTS
    Closed,     \* the statuses in which nothing changes any more
    NoOne       \* nobody is to act

VARIABLES status, version, handler

Edges ==
  {<<"DRAFT", "PENDING_REVIEW">>, <<"REJECTED", "PENDING_REVIEW">>,
   <<"PENDING_REVIEW", "REJECTED">>, <<"PENDING_REVIEW", "PENDING_PURCHASE">>,
   <<"PENDING_PURCHASE", "PURCHASING">>, <<"PURCHASING", "PENDING_WAREHOUSE">>,
   <<"PURCHASING", "COMPLETED">>, <<"PENDING_WAREHOUSE", "COMPLETED">>}

\* The statuses in which an employee of the platform's staff must act
Held == {"PENDING_REVIEW", "PENDING_PURCHASE", "PURCHASING", "PENDING_WAREHOUSE"}

FlowInit == status = "DRAFT" /\ version \in Nat

\* Fields, items, executions or receipts are saved.
Save ==
  /\ status \notin Closed
  /\ version' = version + 1
  /\ UNCHANGED <<status, handler>>

\* A formal step
Move ==
  /\ <<status, status'>> \in Edges
  /\ version' = version + 1
  /\ status' \in Held => handler' # NoOne
  /\ status' = "PURCHASING" => handler' = handler
  /\ status' = "COMPLETED" => handler' = NoOne

FlowNext == Save \/ Move

FlowSpec == FlowInit /\ [][FlowNext]_<<status, version, handler>>
=============================================================================
