---------------------- MODULE ProcurementTransactions ----------------------
(***************************************************************************)
(* The workflow's handlers as concurrent database transactions             *)
(* (backend/app/db/session.py, api/dependencies.py): every HTTP call is one *)
(* transaction under InnoDB's REPEATABLE READ.  The first SELECT, the one  *)
(* that authenticates the caller, fixes the read view; every later plain   *)
(* SELECT of the handler answers from it, however old it is by then.  Only *)
(* the final UPDATE looks at the current row.                              *)
(***************************************************************************)
EXTENDS ProcurementWorkflow

CONSTANT Sessions   \* the transactions that can be open at once

ASSUME ViewAssumption == None \notin Rows

VARIABLE view       \* the read view of each open transaction, None when closed

txVars == <<db, view>>

TxInit ==
  /\ Init
  /\ view = [s \in Sessions |-> None]

\* get_db_session opens the transaction, get_current_user reads first
Begin(s) ==
  /\ view[s] = None
  /\ view' = [view EXCEPT ![s] = db]
  /\ UNCHANGED db

\* The handler reads its view, writes, and the transaction commits.  The row
\* lock the UPDATE takes is held to the commit, so the two are one step.
Commit(s) ==
  /\ view[s] # None
  /\ \E u \in Employees : Handle(view[s], u, ClientTokens(view[s]))
  /\ view' = [view EXCEPT ![s] = None]

\* An AppError, a violated constraint, a deadlock or a lost connection
Rollback(s) ==
  /\ view[s] # None
  /\ view' = [view EXCEPT ![s] = None]
  /\ UNCHANGED db

TxNext == \E s \in Sessions : Begin(s) \/ Commit(s) \/ Rollback(s)

TxSpec == TxInit /\ [][TxNext]_txVars

-----------------------------------------------------------------------------
\* Every open transaction reads rows the request really had.
TxTypeOK ==
  /\ TypeOK
  /\ view \in [Sessions -> Rows \cup {None}]

\* The version column tells whether a read view is still current: a view whose
\* version is the current one has missed no write to any row of the request.
\* This is what lets the handlers check items, reviews, executions and receipts
\* in an old view and rely on the version test of the last UPDATE.
VersionGuardsView ==
  \A s \in Sessions : view[s] # None =>
    /\ view[s].version <= db.version
    /\ view[s].version = db.version => view[s] = db

\* The handlers are serialisable: with stale views and any interleaving, the
\* committed rows change exactly as when the calls run one at a time.
SerialisedWorkflow == Spec

=============================================================================
